---------------------------- MODULE ShardProofs -----------------------------
(***************************************************************************)
(* A shard from its ring to its lease.  The ring of one IP and the         *)
(* classification of an observation, for every geometry and every time;    *)
(* the leases of the shard claims, accounted for with any number of        *)
(* processes, members and shards and any assignment; and the dedup key,    *)
(* which once marked stays so, for any number of callers.                  *)
(***************************************************************************)
EXTENDS IpCounter, ShardClaims, RedisDedup, WellFoundedInduction, TLAPS

-----------------------------------------------------------------------------
(* The ring of one IP *)

-----------------------------------------------------------------------------
(* Arithmetic *)

LEMMA DivMod ==
  ASSUME NEW n \in Nat, NEW d \in Nat \ {0}
  PROVE  /\ n \div d \in Nat /\ n % d \in Nat
         /\ n = d * (n \div d) + (n % d) /\ n % d < d
<1>1. n \div d \in Int BY Z3
<1>2. n % d \in 0 .. d - 1 BY Z3
<1>3. n = d * (n \div d) + (n % d) BY Z3
<1>4. ASSUME n \div d <= -1 PROVE FALSE
  <2>1. d * (n \div d) <= d * (-1) BY <1>1, <1>4, Z3
  <2> QED BY <1>1, <1>2, <1>3, <2>1, Z3
<1> QED BY <1>1, <1>2, <1>3, <1>4

LEMMA DivMonotone ==
  ASSUME NEW m \in Nat, NEW n \in Nat, NEW d \in Nat \ {0}, m <= n
  PROVE  m \div d <= n \div d
BY Z3

LEMMA StartType ==
  ASSUME NEW n \in Nat, NEW d \in Nat \ {0}
  PROVE  bucket_start(n, d) \in Nat
<1>1. n \div d \in Nat BY DivMod, Zenon
<1> QED BY <1>1, Z3 DEF bucket_start

\* A multiple of d is d times its quotient.
LEMMA ExactDiv ==
  ASSUME NEW n \in Nat, NEW d \in Nat \ {0}, n % d = 0
  PROVE  n \div d \in Nat /\ n = d * (n \div d) /\ n = (n \div d) * d
<1>1. n \div d \in Nat /\ n = d * (n \div d) + (n % d) BY DivMod, Zenon
<1>2. d * (n \div d) \in Nat /\ d * (n \div d) = (n \div d) * d BY <1>1, Z3
<1> QED BY <1>1, <1>2

LEMMA MulLess ==
  ASSUME NEW a \in Int, NEW b \in Int, NEW d \in Nat \ {0}, d * a < d * b
  PROVE  a < b
BY Z3

\* Two numbers in one residue class are a multiple of the modulus apart.
LEMMA ModGap ==
  ASSUME NEW s \in Nat, NEW t \in Nat, NEW d \in Nat \ {0}, s % d = t % d, s < t
  PROVE  t - s >= d
<1>1. s = d * (s \div d) + (s % d) /\ t = d * (t \div d) + (t % d) BY DivMod, Zenon
<1>2. s \div d \in Nat /\ t \div d \in Nat BY DivMod, Zenon
<1>3. t - s = d * ((t \div d) - (s \div d)) BY <1>1, <1>2, Z3
<1>4. (t \div d) - (s \div d) >= 1 BY <1>2, <1>3, Z3
<1> QED BY <1>2, <1>3, <1>4, Z3

-----------------------------------------------------------------------------
(* The ring *)

Aligned(r, S) == S \in Nat /\ S % r.B = 0

\* What the ring holds for the bucket starting at S.
BucketCount(r, S) ==
  IF r.starts[slot_of(r, S)] = S THEN r.counts[slot_of(r, S)] ELSE 0

LEMMA SlotType ==
  ASSUME NEW r, CounterType(r), NEW S \in Nat
  PROVE  slot_of(r, S) \in Slots(r)
<1>1. S \div r.B \in Nat BY DivMod, Zenon DEF CounterType
<1>2. (S \div r.B) % r.N \in Nat /\ (S \div r.B) % r.N < r.N
  BY <1>1, DivMod, Zenon DEF CounterType
<1> QED BY <1>2 DEF CounterType, Slots, slot_of, bucket_index

\* Two live buckets never share a slot: what lets observe() empty a slot whose
\* occupant is not the bucket it writes (counter.py, is_live's lower bound).
THEOREM OneLivePerSlot ==
  ASSUME NEW r, CounterType(r), NEW now \in Nat, NEW S, NEW T, Aligned(r, S), Aligned(r, T),
         is_live(r, S, now), is_live(r, T, now), slot_of(r, S) = slot_of(r, T)
  PROVE  S = T
<1> DEFINE s == S \div r.B
           t == T \div r.B
           now0 == bucket_start(now, r.B)
<1>1. r.B \in Nat \ {0} /\ r.N \in Nat \ {0} BY Zenon DEF CounterType
<1>2. s \in Nat /\ t \in Nat /\ S = r.B * s /\ T = r.B * t
  BY <1>1, ExactDiv, Zenon DEF Aligned
<1>3. now0 \in Nat BY <1>1, StartType, Zenon
<1>4. S - T < r.B * r.N /\ T - S < r.B * r.N
  BY <1>1, <1>2, <1>3, Z3 DEF is_live, window_seconds
<1>5. r.B * (s - t) < r.B * r.N /\ r.B * (t - s) < r.B * r.N
  BY <1>1, <1>2, <1>4, Z3
<1>6. s - t < r.N /\ t - s < r.N BY <1>1, <1>2, <1>5, MulLess
<1>7. s % r.N = t % r.N BY Zenon DEF slot_of, bucket_index
<1>8. s = t BY <1>1, <1>2, <1>6, <1>7, ModGap
<1> QED BY <1>2, <1>8, Zenon

\* observe() adds its delta to its own bucket and changes no other bucket of
\* the window, whatever the slot held before (counter.py, observe).
THEOREM ObserveExact ==
  ASSUME NEW r, CounterType(r), NEW now \in Nat, NEW delta \in Nat, NEW S, NEW T,
         Aligned(r, S), Aligned(r, T), is_live(r, S, now), is_live(r, T, now)
  PROVE  BucketCount(observe(r, S, delta), T) =
           BucketCount(r, T) + (IF T = S THEN delta ELSE 0)
<1> DEFINE o == observe(r, S, delta)
<1>1. slot_of(r, S) \in Slots(r) /\ slot_of(r, T) \in Slots(r)
  BY SlotType, Zenon DEF Aligned
<1>2. slot_of(o, T) = slot_of(r, T) BY DEF observe, slot_of
<1>3. CASE T = S
  BY <1>1, <1>2, <1>3 DEF BucketCount, observe, CounterType
<1>4. CASE T # S
  <2>1. slot_of(r, T) # slot_of(r, S) BY <1>4, OneLivePerSlot, Zenon
  <2>2. o.starts[slot_of(r, T)] = r.starts[slot_of(r, T)]
        /\ o.counts[slot_of(r, T)] = r.counts[slot_of(r, T)]
    BY <1>1, <2>1 DEF observe, CounterType
  <2>3. BucketCount(r, T) \in Nat BY <1>1, Zenon DEF BucketCount, CounterType
  <2> QED BY <1>2, <1>4, <2>2, <2>3 DEF BucketCount
<1> QED BY <1>3, <1>4, Zenon

\* expire() leaves every bucket of the window alone (counter.py, expire).
THEOREM ExpireExact ==
  ASSUME NEW r, CounterType(r), NEW now \in Nat, NEW T, Aligned(r, T), is_live(r, T, now)
  PROVE  BucketCount(expire(r, now), T) = BucketCount(r, T)
<1> DEFINE e == expire(r, now)
           slot == slot_of(r, T)
<1>1. slot \in Slots(r) BY SlotType, Zenon DEF Aligned
<1>2. slot_of(e, T) = slot BY DEF expire, slot_of
<1>3. CASE r.starts[slot] = T
  <2>1. slot \notin dead_slots(r, now) BY <1>3, Zenon DEF dead_slots
  <2>2. e.starts[slot] = r.starts[slot] /\ e.counts[slot] = r.counts[slot]
    BY <1>1, <2>1 DEF expire, CounterType
  <2> QED BY <1>2, <2>2, Zenon DEF BucketCount
<1>4. CASE r.starts[slot] # T
  <2>1. e.starts[slot] # T
    BY <1>1, <1>4 DEF expire, CounterType, NoBucket, Aligned
  <2> QED BY <1>2, <1>4, <2>1, Zenon DEF BucketCount
<1> QED BY <1>3, <1>4, Zenon

\* An observation classified APPLIED belongs to a live bucket of the ring the
\* same configuration builds: at one reading of the clock, the worker never
\* hands the store a bucket it refuses (lateness.py, counter.py).
THEOREM AppliedIsLive ==
  ASSUME NEW c, IsConfig(c), NEW start \in Nat, NEW span \in Nat, NEW now \in Nat,
         classify_observation(start, span, now, c) = "APPLIED"
  PROVE  is_live(new_counter(c.bucket_seconds, bucket_count(c)),
                 bucket_start(start, c.bucket_seconds), now)
<1> DEFINE B == c.bucket_seconds
           W == c.window_seconds
           r == new_counter(B, bucket_count(c))
<1>1. B \in Nat \ {0} /\ W \in Nat /\ W % B = 0 BY DEF IsConfig, ConfigType
<1>0. bucket_start(now, B) \in Nat /\ bucket_start(start, B) \in Nat BY <1>1, StartType, Zenon
<1>2. start <= now /\ bucket_start(now, B) - bucket_start(start, B) < W
  BY <1>1, <1>0 DEF classify_observation
<1>3. window_seconds(r) = W
  BY <1>1, ExactDiv, Zenon DEF window_seconds, new_counter, bucket_count
<1>4. bucket_start(start, B) <= bucket_start(now, B)
  <2>1. start \div B <= now \div B /\ start \div B \in Nat /\ now \div B \in Nat
    BY <1>1, <1>2, DivMonotone, DivMod, Zenon
  <2> QED BY <1>1, <2>1, Z3 DEF bucket_start
<1>5. r.B = B BY Zenon DEF new_counter
<1>6. is_live(r, bucket_start(start, B), now)
  <2> HIDE DEF B, W, r
  <2> QED BY <1>0, <1>1, <1>2, <1>3, <1>4, <1>5 DEF is_live
<1> QED BY <1>6, Zenon

LEMMA MinOfNaturals ==
  ASSUME NEW S, S \subseteq Nat, S # {}
  PROVE  Min(S) \in S /\ \A y \in S : Min(S) <= y
<1>1. PICK x \in S : \A y \in S : ~(<<y, x>> \in OpToRel(<, Nat))
  BY NatLessThanWellFounded, WFMin, Zenon
<1>2. ASSUME NEW y \in S PROVE x <= y
  <2>1. x \in Nat /\ y \in Nat BY Zenon
  <2>2. ~(y < x) BY <1>1, <2>1, Zenon DEF OpToRel
  <2> QED BY <2>1, <2>2
<1> QED BY <1>2, Zenon DEF Min

-----------------------------------------------------------------------------
(* The shard claims *)

Stages == {"off", "claim", "load", "undo", "retry", "run", "renew", "release", "exit", "dead"}

ClaimsTypeOK ==
  /\ owner \in [Shards -> Processes \union {Nobody}]
  /\ at \in [Processes -> Stages]
  /\ leased \in [Processes -> SUBSET Shards] /\ windows \in [Processes -> SUBSET Shards]
  /\ claimed \in [Processes -> SUBSET Shards] /\ left \in [Processes -> SUBSET Shards]

\* What the process records in each stage: a claim under way has its leases in
\* `claimed`, and a window for each but the one it is loading.
Recorded(p) ==
  /\ at[p] \in {"off", "retry"} => leased[p] = {} /\ windows[p] = {}
  /\ at[p] \in {"claim", "load", "undo"} => leased[p] = claimed[p]
  /\ at[p] \in {"claim", "undo"} => windows[p] = claimed[p]
  /\ at[p] \in {"claim", "load"} => /\ left[p] # {} /\ left[p] \subseteq Assigned[p]
                                    /\ windows[p] = Assigned[p] \ left[p]
  /\ at[p] = "load" => claimed[p] = windows[p] \union {turn(p)}
  /\ at[p] \in {"run", "renew"} => windows[p] = Assigned[p] /\ leased[p] = Assigned[p]
  /\ at[p] = "renew" => left[p] # {} /\ left[p] \subseteq Assigned[p]

\* What the store has of it: no lease but those recorded, or in doubt; and all
\* of those recorded, unless the process was held up.
Stored(p) ==
  /\ at[p] \notin {"release", "exit", "dead"} => \A s \in Shards : owner[s] = p => s \in leased[p]
  /\ at[p] = "release" => \A s \in Shards : owner[s] = p => s \in left[p] \/ <<p, s>> \in doubtful
  /\ at[p] = "exit" => \A s \in Shards : owner[s] = p => <<p, s>> \in doubtful
  /\ at[p] \in {"claim", "load", "run", "renew"} /\ p \notin stalled =>
       \A s \in leased[p] : owner[s] = p

ClaimsInv == ClaimsTypeOK /\ \A p \in Processes : Recorded(p) /\ Stored(p)

\* What a step of p may do to the others: nothing to their records, and in the
\* store it gives and takes only leases of its own.
OfItsOwn(p) ==
  /\ \A q \in Processes \ {p} :
       /\ at'[q] = at[q] /\ leased'[q] = leased[q] /\ windows'[q] = windows[q]
       /\ claimed'[q] = claimed[q] /\ left'[q] = left[q]
  /\ \A s \in Shards : owner'[s] = owner[s] \/ {owner[s], owner'[s]} \subseteq {Nobody, p}
  /\ doubtful \subseteq doubtful' /\ stalled' = stalled

LEMMA OthersKept ==
  ASSUME ClaimsInv, NEW p \in Processes, OfItsOwn(p)
  PROVE  \A q \in Processes \ {p} : Recorded(q)' /\ Stored(q)'
<1> SUFFICES ASSUME NEW q \in Processes \ {p} PROVE Recorded(q)' /\ Stored(q)'
  BY Zenon
<1>1. Recorded(q)' BY DEF OfItsOwn, ClaimsInv, Recorded, turn
<1>2. q # Nobody BY ClaimsAssumption, Zenon
<1>3. \A s \in Shards : owner'[s] = q <=> owner[s] = q BY <1>2, Zenon DEF OfItsOwn
<1>4. leased[q] \subseteq Shards BY Zenon DEF ClaimsInv, ClaimsTypeOK
<1>5. Stored(q)' BY <1>3, <1>4, Zenon DEF OfItsOwn, ClaimsInv, Stored
<1> QED BY <1>1, <1>5, Zenon

\* The shard a loop has come to is one of its shards.
LEMMA TurnIsLeft ==
  ASSUME ClaimsTypeOK, NEW p \in Processes, left[p] # {}
  PROVE  turn(p) \in left[p] /\ turn(p) \in Shards
<1>1. left[p] \subseteq Shards BY Zenon DEF ClaimsTypeOK
<1>2. left[p] \subseteq Nat BY <1>1, ClaimsAssumption, Zenon
<1> QED BY <1>1, <1>2, MinOfNaturals, Zenon DEF turn

LEMMA NextClaimed ==
  ASSUME ClaimsTypeOK, NEW p \in Processes, claimed[p] # {}
  PROVE  Min(claimed[p]) \in claimed[p] /\ Min(claimed[p]) \in Shards
<1>1. claimed[p] \subseteq Shards BY Zenon DEF ClaimsTypeOK
<1>2. claimed[p] \subseteq Nat BY <1>1, ClaimsAssumption
<1> QED BY <1>1, <1>2, MinOfNaturals, Zenon

\* One step of a process keeps its own part of the invariant.
LEMMA ClaimStep ==
  ASSUME ClaimsInv, NEW p \in Processes,
         Start_worker(p) \/ Try_again(p) \/ Take_lease(p) \/ Load_shard(p) \/ Refusal(p)
  PROVE  ClaimsTypeOK' /\ Recorded(p)' /\ Stored(p)' /\ OfItsOwn(p)
<1> USE DEF OfItsOwn
<1>a. Assigned[p] \in SUBSET Shards /\ Assigned[p] # {} /\ p # Nobody BY ClaimsAssumption, Zenon
<1>t. ClaimsTypeOK /\ Recorded(p) /\ Stored(p) BY Zenon DEF ClaimsInv
<1>1. CASE Start_worker(p) \/ Try_again(p)
  <2>1. /\ at[p] \in {"off", "retry"} /\ Begin_claim(p)
    BY <1>1, Zenon DEF Start_worker, Try_again
  <2>2. leased[p] = {} /\ windows[p] = {} BY <2>1, <1>t, Zenon DEF Recorded
  <2>3. ClaimsTypeOK' BY <2>1, <1>t, <1>a, Zenon DEF ClaimsTypeOK, Begin_claim, Stages
  <2>4. at'[p] = "claim" /\ claimed'[p] = {} /\ left'[p] = Assigned[p]
    BY <2>1, <2>2, <1>t, Zenon DEF Begin_claim, ClaimsTypeOK
  <2>5. Recorded(p)' BY <2>1, <2>2, <2>4, <1>a, Zenon DEF Begin_claim, Recorded
  <2>6. Stored(p)' BY <2>1, <2>2, <2>4, <1>t, Zenon DEF Begin_claim, Stored
  <2> QED BY <2>1, <2>3, <2>5, <2>6, <1>t, Zenon DEF Begin_claim, ClaimsTypeOK
<1>2. CASE Take_lease(p)
  <2>1. turn(p) \in left[p] /\ turn(p) \in Shards
    BY <1>2, <1>t, TurnIsLeft, Zenon DEF Take_lease, Recorded
  <2>2. ClaimsTypeOK' BY <1>2, <2>1, <1>t, Zenon DEF ClaimsTypeOK, Take_lease, Stages
  <2>3. /\ at'[p] = "load" /\ claimed'[p] = claimed[p] \union {turn(p)}
        /\ leased'[p] = leased[p] \union {turn(p)}
    BY <1>2, <1>t, Zenon DEF Take_lease, ClaimsTypeOK
  <2>4. Recorded(p)' BY <1>2, <2>3, <1>t, Zenon DEF Take_lease, Recorded, turn
  <2>5. \A s \in Shards : owner'[s] = IF s = turn(p) THEN p ELSE owner[s]
    BY <1>2, <1>t, Zenon DEF Take_lease, ClaimsTypeOK
  <2>6. leased[p] \subseteq Shards BY <1>t, Zenon DEF ClaimsTypeOK
  <2>7. Stored(p)' BY <1>2, <2>1, <2>3, <2>5, <2>6, <1>t, Zenon DEF Take_lease, Stored
  <2> QED BY <1>2, <2>2, <2>4, <2>5, <2>7, <1>t DEF Take_lease, ClaimsTypeOK, grants
<1>3. CASE Load_shard(p)
  <2>1. turn(p) \in left[p] /\ turn(p) \in Shards
    BY <1>3, <1>t, TurnIsLeft, Zenon DEF Load_shard, Recorded
  <2>2. ClaimsTypeOK' BY <1>3, <2>1, <1>t, Zenon DEF ClaimsTypeOK, Load_shard, Stages
  <2>3. /\ left'[p] = left[p] \ {turn(p)} /\ windows'[p] = windows[p] \union {turn(p)}
        /\ at'[p] = IF left'[p] = {} THEN "run" ELSE "claim"
    BY <1>3, <1>t, Zenon DEF Load_shard, ClaimsTypeOK
  <2>a. at[p] = "load" /\ leased' = leased /\ claimed' = claimed BY <1>3, Zenon DEF Load_shard
  <2>b. /\ leased[p] = claimed[p] /\ claimed[p] = windows[p] \union {turn(p)}
        /\ windows[p] = Assigned[p] \ left[p] /\ left[p] \subseteq Assigned[p]
    BY <2>a, <1>t, Zenon DEF Recorded
  <2>c. /\ windows'[p] = Assigned[p] \ left'[p] /\ left'[p] \subseteq Assigned[p]
        /\ leased'[p] = windows'[p] /\ claimed'[p] = windows'[p]
    BY <2>1, <2>3, <2>a, <2>b, Zenon
  <2>4. Recorded(p)' BY <2>3, <2>c, <1>a, Zenon DEF Recorded
  <2>5. Stored(p)' BY <1>3, <2>3, <1>t DEF Load_shard, Stored
  <2> QED BY <1>3, <2>2, <2>4, <2>5, <1>t, Zenon DEF Load_shard, ClaimsTypeOK
<1>4. CASE Refusal(p)
  <2>1. ClaimsTypeOK' BY <1>4, <1>t, Zenon DEF ClaimsTypeOK, Refusal, Stages
  <2>2. at'[p] = "undo" BY <1>4, <1>t, Zenon DEF Refusal, ClaimsTypeOK
  <2>3. Recorded(p)' /\ Stored(p)' BY <1>4, <2>2, <1>t, Zenon DEF Refusal, Recorded, Stored
  <2> QED BY <1>4, <2>1, <2>3, <1>t, Zenon DEF Refusal, ClaimsTypeOK
<1> QED BY <1>1, <1>2, <1>3, <1>4, Zenon

LEMMA ReleasedIs ==
  ASSUME ClaimsTypeOK, NEW p \in Processes, NEW s \in Shards
  PROVE  /\ released(s, p) \in [Shards -> Processes \union {Nobody}]
         /\ \A t \in Shards :
              released(s, p)[t] = IF t = s /\ owner[t] = p THEN Nobody ELSE owner[t]
BY Zenon DEF ClaimsTypeOK, released

LEMMA UndoStep ==
  ASSUME ClaimsInv, NEW p \in Processes, Undo(p) \/ Undo_fails(p)
  PROVE  ClaimsTypeOK' /\ Recorded(p)' /\ Stored(p)' /\ OfItsOwn(p)
<1> USE DEF OfItsOwn
<1> DEFINE s == Min(claimed[p])
<1>t. ClaimsTypeOK /\ Recorded(p) /\ Stored(p) /\ p # Nobody
  BY ClaimsAssumption, Zenon DEF ClaimsInv
<1>s. at[p] = "undo" /\ s \in claimed[p] /\ s \in Shards
  BY <1>t, NextClaimed, Zenon DEF Undo, Undo_fails
<1>r. leased[p] = claimed[p] /\ windows[p] = claimed[p] /\ leased[p] \subseteq Shards
  BY <1>s, <1>t, Zenon DEF Recorded, ClaimsTypeOK
<1> HIDE DEF s
<1>f. forget(p, s) => /\ windows' \in [Processes -> SUBSET Shards]
                      /\ claimed' \in [Processes -> SUBSET Shards]
                      /\ windows'[p] = windows[p] \ {s} /\ claimed'[p] = claimed[p] \ {s}
                      /\ \A q \in Processes \ {p} : /\ windows'[q] = windows[q]
                                                    /\ claimed'[q] = claimed[q]
  BY <1>t DEF forget, ClaimsTypeOK
<1>1. CASE Undo(p)
  <2>1. /\ forget(p, s) /\ owner' = released(s, p)
        /\ leased' = [leased EXCEPT ![p] = @ \ {s}]
        /\ UNCHANGED <<at, left, refused, stalled, doubtful>>
    BY <1>1, Zenon DEF Undo, s
  <2>2. leased' \in [Processes -> SUBSET Shards] /\ leased'[p] = leased[p] \ {s}
    BY <2>1, <1>t, Zenon DEF ClaimsTypeOK
  <2>3. ClaimsTypeOK' BY <2>1, <2>2, <1>f, <1>s, <1>t, ReleasedIs, Zenon DEF ClaimsTypeOK
  <2>4. Recorded(p)' BY <2>1, <2>2, <1>f, <1>r, <1>s, Zenon DEF Recorded
  <2>5. Stored(p)' BY <2>1, <2>2, <1>s, <1>t, ReleasedIs DEF Stored
  <2> QED BY <2>1, <2>3, <2>4, <2>5, <1>f, <1>s, <1>t, ReleasedIs DEF ClaimsTypeOK
<1>2. CASE Undo_fails(p)
  <2>1. /\ forget(p, s) /\ owner' \in {owner, released(s, p)}
        /\ doubtful' = doubtful \union {<<p, s>>}
        /\ at' = [at EXCEPT ![p] = "release"]
        /\ left' = [left EXCEPT ![p] = leased[p] \ {s}]
        /\ leased' = [leased EXCEPT ![p] = {}]
        /\ UNCHANGED <<refused, stalled>>
    BY <1>2, Zenon DEF Undo_fails, s, to_release
  <2>2. /\ leased' \in [Processes -> SUBSET Shards] /\ leased'[p] = {}
        /\ left' \in [Processes -> SUBSET Shards] /\ left'[p] = leased[p] \ {s}
        /\ at' \in [Processes -> Stages] /\ at'[p] = "release"
    BY <2>1, <1>t, Zenon DEF ClaimsTypeOK, Stages
  <2>3. ClaimsTypeOK' BY <2>1, <2>2, <1>f, <1>s, <1>t, ReleasedIs DEF ClaimsTypeOK
  <2>4. Recorded(p)' BY <2>2, Zenon DEF Recorded
  <2>5. Stored(p)' BY <2>1, <2>2, <1>s, <1>t, ReleasedIs DEF Stored
  <2> QED BY <2>1, <2>3, <2>4, <2>5, <1>f, <1>s, <1>t, ReleasedIs DEF ClaimsTypeOK
<1> QED BY <1>1, <1>2, Zenon

\* A process on its way out answers for the leases it had recorded.
LEMMA StoppingStep ==
  ASSUME ClaimsInv, NEW p \in Processes, Stopping(p),
         at[p] \notin {"release", "exit", "dead"}, NEW d \in Shards,
         \/ UNCHANGED <<owner, doubtful>>
         \/ /\ owner' = owner \/ (owner' = [owner EXCEPT ![d] = p] /\ grants(d, p))
            /\ doubtful' = doubtful \union {<<p, d>>},
         UNCHANGED <<windows, claimed, stalled>>
  PROVE  ClaimsTypeOK' /\ Recorded(p)' /\ Stored(p)' /\ OfItsOwn(p)
<1> USE DEF OfItsOwn
<1>t. ClaimsTypeOK /\ Recorded(p) /\ Stored(p) /\ p # Nobody
  BY ClaimsAssumption, Zenon DEF ClaimsInv
<1>1. /\ at' \in [Processes -> Stages] /\ at'[p] = "release"
      /\ left' \in [Processes -> SUBSET Shards] /\ left'[p] = leased[p]
      /\ leased' \in [Processes -> SUBSET Shards] /\ leased'[p] = {}
      /\ \A q \in Processes \ {p} : /\ at'[q] = at[q] /\ left'[q] = left[q]
                                    /\ leased'[q] = leased[q]
  BY <1>t, Zenon DEF Stopping, to_release, ClaimsTypeOK, Stages
<1>2. /\ owner' \in [Shards -> Processes \union {Nobody}]
      /\ \A s \in Shards : owner'[s] = owner[s] \/ (owner[s] \in {Nobody, p} /\ owner'[s] = p)
      /\ \A s \in Shards : owner'[s] = owner[s] \/ (s = d /\ <<p, d>> \in doubtful')
      /\ doubtful \subseteq doubtful'
  BY <1>t DEF ClaimsTypeOK, grants
<1>3. ClaimsTypeOK' BY <1>1, <1>2, <1>t, Zenon DEF ClaimsTypeOK
<1>4. Recorded(p)' BY <1>1, Zenon DEF Recorded
<1>5. Stored(p)' BY <1>1, <1>2, <1>t, Zenon DEF Stored
<1> QED BY <1>1, <1>2, <1>3, <1>4, <1>5, Zenon

LEMMA StopStep ==
  ASSUME ClaimsInv, NEW p \in Processes,
         Raised(p) \/ Ask_stop(p) \/ Take_fails(p) \/ Load_fails(p) \/ Renew_next(p)
  PROVE  ClaimsTypeOK' /\ Recorded(p)' /\ Stored(p)' /\ OfItsOwn(p)
<1>t. /\ ClaimsTypeOK /\ Recorded(p) /\ Stored(p) /\ p # Nobody
      /\ Assigned[p] \subseteq Shards /\ Assigned[p] # {}
  BY ClaimsAssumption, Zenon DEF ClaimsInv
<1>d. PICK d \in Shards : TRUE BY <1>t, Zenon
<1>1. CASE Raised(p)
  <2>1. /\ at[p] = "undo" /\ claimed[p] = {}
        /\ UNCHANGED <<owner, windows, claimed, stalled, doubtful>>
    BY <1>1, Zenon DEF Raised
  <2>2. CASE Stopping(p) BY <2>1, <2>2, <1>d, StoppingStep, Zenon
  <2>3. CASE at' = [at EXCEPT ![p] = "retry"] /\ UNCHANGED <<left, leased>>
    <3>1. leased[p] = {} /\ windows[p] = {} BY <2>1, <1>t, Zenon DEF Recorded
    <3>2. at' \in [Processes -> Stages] /\ at'[p] = "retry"
          /\ \A q \in Processes \ {p} : at'[q] = at[q]
      BY <2>3, <1>t, Zenon DEF ClaimsTypeOK, Stages
    <3> QED BY <2>1, <2>3, <3>1, <3>2, <1>t, Zenon DEF ClaimsTypeOK, Recorded, Stored, OfItsOwn
  <2> QED BY <1>1, <2>2, <2>3, Zenon DEF Raised
<1>2. CASE Ask_stop(p) BY <1>2, <1>d, StoppingStep, Zenon DEF Ask_stop
<1>3. CASE Load_fails(p) BY <1>3, <1>d, StoppingStep, Zenon DEF Load_fails
<1>4. CASE Take_fails(p)
  <2>1. turn(p) \in Shards BY <1>4, <1>t, TurnIsLeft, Zenon DEF Take_fails, Recorded
  <2> QED BY <1>4, <2>1, StoppingStep, Zenon DEF Take_fails
<1>5. CASE Renew_next(p)
  <2>1. at[p] = "renew" /\ turn(p) \in left[p] /\ turn(p) \in Shards
    BY <1>5, <1>t, TurnIsLeft, Zenon DEF Renew_next, Recorded
  <2>2. CASE ~grants(turn(p), p)
    BY <1>5, <2>1, <2>2, StoppingStep, Zenon DEF Renew_next
  <2>3. CASE grants(turn(p), p)
    <3>1. /\ owner' = [owner EXCEPT ![turn(p)] = p]
          /\ left' = [left EXCEPT ![p] = @ \ {turn(p)}]
          /\ at' = [at EXCEPT ![p] = IF left'[p] = {} THEN "run" ELSE "renew"]
          /\ UNCHANGED <<leased, windows, claimed, stalled, doubtful>>
      BY <1>5, <2>3, Zenon DEF Renew_next
    <3>2. /\ left' \in [Processes -> SUBSET Shards] /\ left'[p] = left[p] \ {turn(p)}
          /\ at' \in [Processes -> Stages]
          /\ at'[p] = IF left'[p] = {} THEN "run" ELSE "renew"
          /\ \A q \in Processes \ {p} : at'[q] = at[q] /\ left'[q] = left[q]
      BY <3>1, <1>t, Zenon DEF ClaimsTypeOK, Stages
    <3>3. /\ owner' \in [Shards -> Processes \union {Nobody}]
          /\ \A s \in Shards : owner'[s] = IF s = turn(p) THEN p ELSE owner[s]
      BY <3>1, <1>t, <2>1, Zenon DEF ClaimsTypeOK
    <3>4. leased[p] = Assigned[p] /\ windows[p] = Assigned[p] BY <2>1, <1>t, Zenon DEF Recorded
    <3>5. Recorded(p)' BY <2>1, <3>1, <3>2, <3>4, <1>t, Zenon DEF Recorded
    <3>6. turn(p) \in leased[p] BY <2>1, <1>t, Zenon DEF Recorded
    <3>7. Stored(p)' BY <2>1, <3>1, <3>2, <3>3, <3>6, <1>t DEF Stored
    <3> QED BY <2>3, <3>1, <3>2, <3>3, <3>5, <3>7, <1>t, Zenon DEF ClaimsTypeOK, OfItsOwn, grants
  <2> QED BY <2>2, <2>3, Zenon
<1> QED BY <1>1, <1>2, <1>3, <1>4, <1>5, Zenon

LEMMA ServeAndReleaseStep ==
  ASSUME ClaimsInv, NEW p \in Processes,
         Sweep(p) \/ Release_next(p) \/ Release_fails(p) \/ Kill(p)
  PROVE  ClaimsTypeOK' /\ Recorded(p)' /\ Stored(p)' /\ OfItsOwn(p)
<1> USE DEF OfItsOwn
<1>t. ClaimsTypeOK /\ Recorded(p) /\ Stored(p) /\ p # Nobody
  BY ClaimsAssumption, Zenon DEF ClaimsInv
<1>1. CASE Sweep(p)
  <2>1. /\ left' \in [Processes -> SUBSET Shards] /\ left'[p] = leased[p]
        /\ at' \in [Processes -> Stages] /\ at[p] = "run" /\ at'[p] = "renew"
        /\ \A q \in Processes \ {p} : at'[q] = at[q] /\ left'[q] = left[q]
    BY <1>1, <1>t, Zenon DEF Sweep, ClaimsTypeOK, Stages
  <2>2. Assigned[p] # {} BY ClaimsAssumption, Zenon
  <2> QED BY <1>1, <2>1, <2>2, <1>t, Zenon DEF Sweep, ClaimsTypeOK, Recorded, Stored
<1>2. CASE Release_next(p)
  <2>1. CASE left[p] = {}
    <3>1. /\ at' \in [Processes -> Stages] /\ at[p] = "release" /\ at'[p] = "exit"
          /\ \A q \in Processes \ {p} : at'[q] = at[q]
      BY <1>2, <2>1, <1>t, Zenon DEF Release_next, ClaimsTypeOK, Stages
    <3> QED BY <1>2, <2>1, <3>1, <1>t, Zenon DEF Release_next, ClaimsTypeOK, Recorded, Stored
  <2>2. CASE left[p] # {}
    <3>1. turn(p) \in left[p] /\ turn(p) \in Shards BY <2>2, <1>t, TurnIsLeft, Zenon
    <3>2. /\ left' \in [Processes -> SUBSET Shards] /\ left'[p] = left[p] \ {turn(p)}
          /\ \A q \in Processes \ {p} : left'[q] = left[q]
          /\ at[p] = "release" /\ owner' = released(turn(p), p)
          /\ UNCHANGED <<at, leased, windows, claimed, stalled, doubtful>>
      BY <1>2, <2>2, <1>t DEF Release_next, ClaimsTypeOK
    <3>3. ClaimsTypeOK' BY <3>1, <3>2, <1>t, ReleasedIs, Zenon DEF ClaimsTypeOK
    <3>4. Stored(p)' BY <3>1, <3>2, <1>t, ReleasedIs DEF Stored
    <3>5. Recorded(p)' BY <3>2, Zenon DEF Recorded
    <3>6. \A s \in Shards : owner'[s] = owner[s] \/ {owner[s], owner'[s]} \subseteq {Nobody, p}
      BY <3>1, <3>2, <1>t, ReleasedIs
    <3> QED BY <3>2, <3>3, <3>4, <3>5, <3>6, Zenon
  <2> QED BY <2>1, <2>2, Zenon
<1>3. CASE Release_fails(p)
  <2>1. turn(p) \in left[p] /\ turn(p) \in Shards
    BY <1>3, <1>t, TurnIsLeft, Zenon DEF Release_fails
  <2>2. /\ at' \in [Processes -> Stages] /\ at[p] = "release" /\ at'[p] = "exit"
        /\ \A q \in Processes \ {p} : at'[q] = at[q]
        /\ owner' \in {owner, released(turn(p), p)}
        /\ doubtful' = doubtful \union {<<p, s>> : s \in left[p]}
        /\ UNCHANGED <<leased, windows, claimed, left, stalled>>
    BY <1>3, <1>t, Zenon DEF Release_fails, ClaimsTypeOK, Stages
  <2>3. ClaimsTypeOK' BY <2>1, <2>2, <1>t, ReleasedIs DEF ClaimsTypeOK
  <2>4. Stored(p)' BY <2>1, <2>2, <1>t, ReleasedIs DEF Stored
  <2>5. Recorded(p)' BY <2>2, Zenon DEF Recorded
  <2>6. \A s \in Shards : owner'[s] = owner[s] \/ {owner[s], owner'[s]} \subseteq {Nobody, p}
    BY <2>1, <2>2, <1>t, ReleasedIs
  <2> QED BY <2>2, <2>3, <2>4, <2>5, <2>6, Zenon
<1>4. CASE Kill(p)
  <2>1. /\ at' \in [Processes -> Stages] /\ at'[p] = "dead"
        /\ \A q \in Processes \ {p} : at'[q] = at[q]
    BY <1>4, <1>t, Zenon DEF Kill, ClaimsTypeOK, Stages
  <2> QED BY <1>4, <2>1, <1>t, Zenon DEF Kill, ClaimsTypeOK, Recorded, Stored
<1> QED BY <1>1, <1>2, <1>3, <1>4, Zenon

\* The store drops a lease: only its holder, held up, is short of one.
LEMMA LeaseEndsStep ==
  ASSUME ClaimsInv, NEW s \in Shards, Lapses(s) \/ Stalls(s)
  PROVE  ClaimsInv'
<1>t. ClaimsTypeOK /\ Nobody \notin Processes BY ClaimsAssumption, Zenon DEF ClaimsInv
<1>1. /\ owner' \in [Shards -> Processes \union {Nobody}]
      /\ \A t \in Shards : owner'[t] = IF t = s THEN Nobody ELSE owner[t]
      /\ Gone(owner[s]) \/ owner[s] \in stalled'
      /\ stalled \subseteq stalled'
      /\ UNCHANGED <<at, leased, windows, claimed, left, doubtful>>
  BY <1>t, Zenon DEF Lapses, Stalls, ClaimsTypeOK
<1>2. ASSUME NEW p \in Processes PROVE Recorded(p)' /\ Stored(p)'
  <2>1. Recorded(p) /\ Stored(p) /\ leased[p] \subseteq Shards
    BY Zenon DEF ClaimsInv, ClaimsTypeOK
  <2>2. Recorded(p)' BY <1>1, <2>1, Zenon DEF Recorded, turn
  <2>3. Stored(p)' BY <1>1, <1>t, <2>1, Zenon DEF Stored, Gone
  <2> QED BY <2>2, <2>3, Zenon
<1> QED BY <1>1, <1>2, <1>t, Zenon DEF ClaimsInv, ClaimsTypeOK

LEMMA ClaimsInvStep ==
  ASSUME ClaimsInv, [ClaimsNext]_claimVars PROVE ClaimsInv'
<1>1. ASSUME NEW p \in Processes,
             \/ Start_worker(p) \/ Works(p) \/ Ask_stop(p) \/ Sweep(p)
             \/ Take_fails(p) \/ Load_fails(p) \/ Undo_fails(p) \/ Release_fails(p) \/ Kill(p)
      PROVE  ClaimsInv'
  <2>1. ClaimsTypeOK' /\ Recorded(p)' /\ Stored(p)' /\ OfItsOwn(p)
    BY <1>1, ClaimStep, UndoStep, StopStep, ServeAndReleaseStep, Zenon DEF Works
  <2> QED BY <2>1, OthersKept, Zenon DEF ClaimsInv
<1>2. CASE UNCHANGED claimVars
  BY <1>2 DEF claimVars, ClaimsInv, ClaimsTypeOK, Recorded, Stored, turn
<1> QED BY <1>1, <1>2, LeaseEndsStep, Zenon DEF ClaimsNext

\* A process that waits to try again holds nothing, one that serves holds what
\* it serves, and one that ended leaves a lease behind only where a call on it
\* failed: on_assigned's undoing, renew_leases and release, however the
\* processes interleave and whatever fails or lapses.
THEOREM LeasesHeld == ClaimsSpec => []LeasesAccounted
<1>1. ClaimsInit => ClaimsInv
  BY ClaimsAssumption
  DEF ClaimsInit, ClaimsInv, ClaimsTypeOK, Recorded, Stored, Stages
<1>2. ClaimsInv => LeasesAccounted
  BY ClaimsAssumption
  DEF ClaimsInv, Recorded, Stored, LeasesAccounted, RetryHoldsNothing, ServesWhatItHolds,
      ExitFreesLeases
<1> QED BY <1>1, <1>2, ClaimsInvStep, PTL DEF ClaimsSpec

-----------------------------------------------------------------------------
(* The dedup key *)

\* A key a caller found lasting long enough, or gone, and then found again,
\* lasts for a shortest duration from its call on.
DedupInv ==
  /\ goes \in Nat /\ time \in Nat
  /\ marking \in [Callers -> [at : {"rest", "set", "expire", "again"}, ttl : Nat, began : Nat]]
  /\ \A c \in Callers :
       /\ marking[c].began <= time
       /\ marking[c].at # "rest" => marking[c].ttl \in Durations
       /\ marking[c].at = "again" /\ exists => goes >= marking[c].began + Min(Durations)

LEMMA Shortest == Min(Durations) \in Nat \ {0} /\ \A d \in Durations : Min(Durations) <= d
<1>1. Durations \subseteq Nat /\ Durations # {} BY DedupAssumption, Zenon
<1> QED BY <1>1, MinOfNaturals, DedupAssumption, Zenon

\* SET NX sets nothing that is there, and a key it sets lasts.
LEMMA SetNxLasts ==
  ASSUME DedupInv, NEW ttl \in Durations, SetNx(ttl)
  PROVE  /\ goes' \in Nat /\ (exists => goes' = goes) /\ (~exists => goes' = time + ttl)
         /\ time < goes'
         /\ \A c \in Callers : ~exists => goes' >= marking[c].began + Min(Durations)
         /\ \A c \in Callers : marking[c].at = "again" => goes' >= marking[c].began + Min(Durations)
<1>1. ttl \in Nat \ {0} BY DedupAssumption, Zenon
<1> QED BY <1>1, Shortest DEF DedupInv, SetNx, exists

LEMMA DedupStep ==
  ASSUME DedupInv, [DedupNext]_dedupVars
  PROVE  /\ DedupInv'
         /\ exists => goes' >= goes
         /\ \A c \in Callers : marking[c].at # "rest" /\ marking'[c].at = "rest" =>
              exists' /\ goes' >= marking[c].began + Min(Durations)
<1> DEFINE Goal == /\ DedupInv'
                   /\ exists => goes' >= goes
                   /\ \A c \in Callers : marking[c].at # "rest" /\ marking'[c].at = "rest" =>
                        exists' /\ goes' >= marking[c].began + Min(Durations)
<1> USE DEF DedupInv, exists
<1>m. Durations \subseteq Nat /\ Min(Durations) \in Nat BY Shortest, DedupAssumption, Zenon
<1>1. CASE Second BY <1>1, <1>m DEF Second
<1>2. CASE \E ttl \in Durations : Claim(ttl) BY <1>2, <1>m, SetNxLasts DEF Claim
<1>3. CASE \E ttl \in Durations, c \in Callers : Mark(c, ttl) BY <1>3, <1>m DEF Mark
<1>4. ASSUME NEW c \in Callers, MarkSet(c) PROVE Goal
  <2>1. marking[c].ttl \in Durations /\ SetNx(marking[c].ttl) BY <1>4, Zenon DEF MarkSet
  <2> QED BY <1>4, <2>1, <1>m, SetNxLasts DEF MarkSet, Resting
<1>5. ASSUME NEW c \in Callers, MarkExpire(c) PROVE Goal
  <2>1. marking[c].ttl \in Durations /\ marking[c].ttl \in Nat /\ Min(Durations) <= marking[c].ttl
    BY <1>5, <1>m, Shortest, Zenon DEF MarkExpire
  <2>2. CASE extends(marking[c].ttl)
    BY <1>5, <2>1, <2>2, <1>m DEF MarkExpire, extends, Resting
  <2>3. CASE ~extends(marking[c].ttl)
    BY <1>5, <2>1, <2>3, <1>m DEF MarkExpire, extends, unextended
  <2> QED BY <2>2, <2>3, Zenon
<1>6. ASSUME NEW c \in Callers, MarkAgain(c) PROVE Goal
  <2>1. marking[c].ttl \in Durations /\ SetNx(marking[c].ttl) BY <1>6, Zenon DEF MarkAgain
  <2> QED BY <1>6, <2>1, <1>m, SetNxLasts DEF MarkAgain, Resting
<1>7. CASE UNCHANGED dedupVars BY <1>7 DEF dedupVars
<1> QED BY <1>1, <1>2, <1>3, <1>4, <1>5, <1>6, <1>7, Zenon DEF DedupNext

\* No caller's command takes from another's mark, and a mark_seen that returns
\* has marked for as long as it promised, although its three commands are
\* separate and the key may come and go between them.
THEOREM MarkHolds == DedupSpec => MarkSound
<1>1. DedupInit => DedupInv BY DEF DedupInit, DedupInv, Resting, exists
<1>2. ASSUME DedupInv, [DedupNext]_dedupVars
      PROVE  /\ [exists => goes' >= goes]_dedupVars
             /\ [\A c \in Callers : marking[c].at # "rest" /\ marking'[c].at = "rest" =>
                   exists' /\ goes' >= marking[c].began + Min(Durations)]_dedupVars
  BY <1>2, DedupStep, Zenon
<1> QED BY <1>1, <1>2, DedupStep, PTL DEF DedupSpec, MarkSound, NeverShortened, MarkedOnReturn
=============================================================================
