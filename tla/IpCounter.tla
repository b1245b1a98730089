----------------------------- MODULE IpCounter -----------------------------
(***************************************************************************)
(* The ring of one IP: N slots of B seconds and a maintained running       *)
(* total.  A ring is a record; an operation maps the ring it is applied to *)
(* to the ring it leaves, so a caller composes them.                       *)
(***************************************************************************)
EXTENDS Detection, Functions, FiniteSets
LOCAL INSTANCE FiniteSetsExt

\* A slot that was never written, or was expired (the source's None).
NoBucket == -1

Slots(r) == 0 .. r.N - 1

CounterType(r) ==
  /\ r.B \in Nat \ {0} /\ r.N \in Nat \ {0}
  /\ r.starts \in [Slots(r) -> Nat \cup {NoBucket}]
  /\ r.counts \in [Slots(r) -> Nat]
  /\ r.total \in Int

new_counter(B, N) ==
  [B |-> B, N |-> N, total |-> 0,
   starts |-> [s \in 0 .. N - 1 |-> NoBucket], counts |-> [s \in 0 .. N - 1 |-> 0]]

window_seconds(r) == r.B * r.N

\* A bucket is live from the moment it starts until S + W, exclusive.
is_live(r, S, now) ==
  LET age == bucket_start(now, r.B) - S IN 0 <= age /\ age < window_seconds(r)

slot_of(r, S) == bucket_index(S, r.B, r.N)

\* Mutant: the slot's previous occupant is not emptied.
observe_over_occupant(r, S, delta) ==
  LET slot == slot_of(r, S)
  IN  [r EXCEPT !.starts[slot] = S, !.counts[slot] = @ + delta, !.total = @ + delta]

\* observe() on a live, aligned bucket: a slot held by another bucket is
\* emptied first, then the delta is added.
observe(r, S, delta) ==
  LET slot == slot_of(r, S)
      kept == IF r.starts[slot] = S THEN r.counts[slot] ELSE 0
  IN  [r EXCEPT !.starts[slot] = S,
                !.counts[slot] = kept + delta,
                !.total = r.total - (r.counts[slot] - kept) + delta]

dead_slots(r, now) ==
  {s \in Slots(r) : r.starts[s] # NoBucket /\ ~is_live(r, r.starts[s], now)}

\* The amount expire() removes and returns.
expired_amount(r, now) == SumFunctionOnSet(r.counts, dead_slots(r, now))

expire(r, now) ==
  LET dead == dead_slots(r, now)
  IN  [r EXCEPT !.starts = [s \in Slots(r) |-> IF s \in dead THEN NoBucket ELSE @[s]],
                !.counts = [s \in Slots(r) |-> IF s \in dead THEN 0 ELSE @[s]],
                !.total = @ - expired_amount(r, now)]

nonzero_slots(r) == {s \in Slots(r) : r.starts[s] # NoBucket /\ r.counts[s] > 0}

\* NoBucket for an empty ring.
next_expiry(r) ==
  IF nonzero_slots(r) = {} THEN NoBucket
  ELSE Min({r.starts[s] : s \in nonzero_slots(r)}) + window_seconds(r)

live_buckets(r, now) == {s \in nonzero_slots(r) : is_live(r, r.starts[s], now)}

\* The ring apply_config() rebuilds: every live bucket re-observed, oldest
\* first, at its start under the new geometry, if it is live there.
rebuild(r, B, N, now) ==
  LET Into(s, acc) ==
        LET S == bucket_start(r.starts[s], B)
        IN  IF is_live(acc, S, now) THEN observe(acc, S, r.counts[s]) ELSE acc
      Newest(ss) == CHOOSE s \in ss : \A t \in ss : r.starts[s] >= r.starts[t]
  IN  MapThenFoldSet(Into, new_counter(B, N), LAMBDA s : s, Newest, live_buckets(r, now))
=============================================================================
