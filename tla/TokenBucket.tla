---- MODULE TokenBucket ----
(***************************************************************************)
(* RateLimiter (ratelimit/__init__.py): one token bucket per key, refilled *)
(* by the elapsed time, the least recently touched key evicted when the    *)
(* table is full.                                                          *)
(*                                                                         *)
(* A table is the sequence of its buckets, least recently touched first.   *)
(* Tokens are counted in whatever unit makes the refill of a second a      *)
(* whole number, so a rate below one token a second is exact.              *)
(***************************************************************************)
EXTENDS Integers, Sequences

Keys(table) == {table[i].key : i \in DOMAIN table}

bucket_of(table, key) == table[CHOOSE i \in DOMAIN table : table[i].key = key]

\* The least recently touched bucket makes room for a new one.
evict_if_full(table, max_keys) == IF Len(table) >= max_keys THEN Tail(table) ELSE table

\* Mutant: the refill is counted again from the same instant.
refilled_again(bucket, limit, capacity, now) ==
  IF now > bucket.last_refill
  THEN [bucket EXCEPT !.tokens =
          IF @ + (now - bucket.last_refill) * limit > capacity
          THEN capacity ELSE @ + (now - bucket.last_refill) * limit]
  ELSE bucket

\* Time that stood still, or went back, refills nothing and moves nothing.
refilled(bucket, limit, capacity, now) ==
  IF now > bucket.last_refill
  THEN [bucket EXCEPT
          !.tokens = IF @ + (now - bucket.last_refill) * limit > capacity
                     THEN capacity ELSE @ + (now - bucket.last_refill) * limit,
          !.last_refill = now]
  ELSE bucket

\* The bucket a check works on: a full one for a key the table does not hold.
current(table, key, limit, capacity, now) ==
  IF key \in Keys(table)
  THEN refilled(bucket_of(table, key), limit, capacity, now)
  ELSE [key |-> key, tokens |-> capacity, last_refill |-> now]

\* The other buckets, one less when the key is new and the table is full.
others(table, key, max_keys) ==
  IF key \in Keys(table)
  THEN SelectSeq(table, LAMBDA bucket : bucket.key # key)
  ELSE evict_if_full(table, max_keys)

\* throttled_response: the seconds until the shortfall is refilled, rounded
\* up, one at least.
retry_after(shortfall, limit) ==
  IF shortfall <= limit THEN 1 ELSE (shortfall + limit - 1) \div limit

\* check(): charge the cost if the bucket holds it.
check(table, max_keys, key, limit, cost, capacity, now) ==
  LET bucket == current(table, key, limit, capacity, now)
      ok     == bucket.tokens >= cost
      left   == IF ok THEN [bucket EXCEPT !.tokens = @ - cost] ELSE bucket
  IN  [ok |-> ok,
       retry |-> IF ok THEN 0 ELSE retry_after(cost - bucket.tokens, limit),
       table |-> Append(others(table, key, max_keys), left)]
====
