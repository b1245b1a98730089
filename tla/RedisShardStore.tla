--------------------------- MODULE RedisShardStore ---------------------------
(***************************************************************************)
(* RedisShardStateStore for one shard, as the server sees it: the two      *)
(* lease scripts are one command each, record_transition is WATCH, GET     *)
(* and MULTI/EXEC with other clients' commands between them, tried again   *)
(* when the counter was written meanwhile.  Several members may call at    *)
(* once: a stalled owner and its successor do.                             *)
(***************************************************************************)
EXTENDS Integers

CONSTANTS Members, IPs, Free,
          TTLs,       \* lease durations, in ticks
          SECOND,     \* ticks to a second: EX takes whole seconds
          MAX_SEQUENCE_CAS_ATTEMPTS,
          MaxSeq,     \* bound: sequences recorded
          MaxNow,     \* bound: ticks
          MaxCalls,   \* bound: calls of record_transition
          MaxFault    \* bound: calls that lose their connection

ASSUME RedisAssumption ==
  /\ Free \notin Members
  /\ TTLs \subseteq Nat \ {0} /\ SECOND \in Nat \ {0}
  /\ MAX_SEQUENCE_CAS_ATTEMPTS \in Nat \ {0}
  /\ MaxSeq \in Nat /\ MaxNow \in Nat /\ MaxCalls \in Nat /\ MaxFault \in Nat

VARIABLES hot, next_sequence, holder, until, now,
          expires,   \* when the owner key goes
          op,        \* each member's record_transition in flight, or its outcome
          broken,    \* the members whose WATCHed key was written since
          recorded,  \* history: the sequences whose transition was applied
          calls, faults

leases == <<holder, until, expires>>
vars == <<hot, next_sequence, leases, now, op, broken, recorded, calls, faults>>

States == {"HOT", "COLD"}
Idle == [at |-> "idle"]
Ops == [at : {"idle"}]
  \cup [at : {"watch", "get", "exec", "returned", "raised", "lost"}, ip : IPs, state : States,
        sequence : 0..MaxSeq, stored : Nat, attempts : 0..MAX_SEQUENCE_CAS_ATTEMPTS,
        applied : 0..1]

TypeOK ==
  /\ hot \subseteq IPs /\ next_sequence \in 0..(MaxSeq + 1)
  /\ holder \in Members \cup {Free} /\ until \in Nat /\ expires \in Nat /\ now \in Nat
  /\ op \in [Members -> Ops]
  /\ broken \subseteq Members
  /\ recorded \subseteq 0..MaxSeq
  /\ calls \in Nat /\ faults \in Nat

Init ==
  /\ hot = {} /\ next_sequence = 0
  /\ holder = Free /\ until = 0 /\ expires = 0 /\ now = 0
  /\ op = [m \in Members |-> Idle]
  /\ broken = {} /\ recorded = {}
  /\ calls = 0 /\ faults = 0

-----------------------------------------------------------------------------
(* record_transition *)

Begin(m, ip, state, sequence) ==
  /\ op[m].at = "idle" /\ calls < MaxCalls
  /\ op' = [op EXCEPT ![m] = [at |-> "watch", ip |-> ip, state |-> state,
                              sequence |-> sequence, stored |-> 0, attempts |-> 0,
                              applied |-> 0]]
  /\ calls' = calls + 1
  /\ UNCHANGED <<hot, next_sequence, leases, now, broken, recorded, faults>>

Watch(m) ==
  /\ op[m].at = "watch"
  /\ op' = [op EXCEPT ![m].at = "get"]
  /\ broken' = broken \ {m}
  /\ UNCHANGED <<hot, next_sequence, leases, now, recorded, calls, faults>>

\* An absent counter reads as 0: the candidate is above it either way.
Get(m) ==
  /\ op[m].at = "get"
  /\ op' = [op EXCEPT ![m].at = "exec", ![m].stored = next_sequence]
  /\ UNCHANGED <<hot, next_sequence, leases, now, broken, recorded, calls, faults>>

\* The queued SET, decided by what GET returned; it breaks the other watches.
clamp(m) ==
  IF op[m].sequence + 1 > op[m].stored
  THEN /\ next_sequence' = op[m].sequence + 1
       /\ broken' = broken \cup (Members \ {m})
  ELSE UNCHANGED <<next_sequence, broken>>

\* EXEC's transaction: the membership change and the counter together.
apply(m) ==
  /\ hot' = IF op[m].state = "HOT" THEN hot \cup {op[m].ip} ELSE hot \ {op[m].ip}
  /\ clamp(m)
  /\ recorded' = recorded \cup {op[m].sequence}

\* Mutant: EXEC applies although the key was written since the WATCH.
intact_always(m) == TRUE

intact(m) == m \notin broken

Exec(m) ==
  /\ op[m].at = "exec" /\ intact(m)
  /\ apply(m)
  /\ op' = [op EXCEPT ![m].at = "returned", ![m].applied = 1]
  /\ UNCHANGED <<leases, now, calls, faults>>

\* Out of attempts: WatchError, which aborts the caller's publish.
given_up == "raised"

\* Nothing is applied; the loop reads again, a bounded number of times.
WatchFails(m) ==
  /\ op[m].at = "exec" /\ ~intact(m)
  /\ LET tried == op[m].attempts + 1
     IN  op' = [op EXCEPT ![m].attempts = tried,
                          ![m].at = IF tried < MAX_SEQUENCE_CAS_ATTEMPTS THEN "watch"
                                    ELSE given_up]
  /\ UNCHANGED <<hot, next_sequence, leases, now, broken, recorded, calls, faults>>

\* The connection fails: before EXEC reached the server nothing is applied, and
\* after it the reply alone is lost.  The call raises in both cases.
Disconnect(m) ==
  /\ op[m].at \in {"watch", "get", "exec"} /\ faults < MaxFault
  /\ faults' = faults + 1
  /\ \/ /\ op' = [op EXCEPT ![m].at = "lost"]
        /\ UNCHANGED <<hot, next_sequence, broken, recorded>>
     \/ /\ op[m].at = "exec" /\ intact(m)
        /\ apply(m)
        /\ op' = [op EXCEPT ![m].at = "lost", ![m].applied = 1]
  /\ UNCHANGED <<leases, now, calls>>

\* The caller has the outcome.
Return(m) ==
  /\ op[m].at \in {"returned", "raised", "lost"}
  /\ op' = [op EXCEPT ![m] = Idle]
  /\ UNCHANGED <<hot, next_sequence, leases, now, broken, recorded, calls, faults>>

-----------------------------------------------------------------------------
(* The lease scripts, and time *)

\* The duration, rounded up to whole seconds.
whole_seconds(ttl) == ((ttl + SECOND - 1) \div SECOND) * SECOND

acquire_lease(m, ttl) ==
  /\ holder \in {Free, m}
  /\ holder' = m
  /\ until' = now + ttl
  /\ expires' = now + whole_seconds(ttl)
  /\ UNCHANGED <<hot, next_sequence, now, op, broken, recorded, calls, faults>>

release_lease(m) ==
  /\ holder = m
  /\ holder' = Free
  /\ UNCHANGED <<hot, next_sequence, until, expires, now, op, broken, recorded, calls, faults>>

\* The server drops an owner key that has expired.
Tick ==
  /\ now < MaxNow
  /\ now' = now + 1
  /\ holder' = IF expires <= now' THEN Free ELSE holder
  /\ UNCHANGED <<hot, next_sequence, until, expires, op, broken, recorded, calls, faults>>

Step(m) ==
  \/ \E ip \in IPs, state \in States, sequence \in 0..MaxSeq : Begin(m, ip, state, sequence)
  \/ Watch(m) \/ Get(m) \/ Exec(m) \/ WatchFails(m) \/ Disconnect(m) \/ Return(m)
  \/ (\E ttl \in TTLs : acquire_lease(m, ttl)) \/ release_lease(m)

Next == Tick \/ \E m \in Members : Step(m)

Spec == Init /\ [][Next]_vars

-----------------------------------------------------------------------------
(* WATCH, GET and EXEC of several writers, retries and lost replies included, *)
(* are together the contract's single-step calls: an EXEC that goes through   *)
(* decided its clamp on a counter nobody has written since.                   *)
Contract == INSTANCE ShardStateStore WITH Sequences <- 0..MaxSeq
KeepsContract == Contract!StoreSpec

(* load().next_sequence == 1 + the highest sequence ever recorded, or 0: in   *)
(* any order and under any repetition of record_transition.                   *)
CounterExact ==
  /\ \A s \in recorded : s < next_sequence
  /\ next_sequence = 0 \/ next_sequence - 1 \in recorded

(* What a caller may conclude: a record_transition that returned was applied, *)
(* exactly once, and one that raised WatchError was not; only a lost          *)
(* connection leaves the caller in doubt.                                     *)
OutcomeHonest ==
  \A m \in Members :
    /\ op[m].at = "returned" => op[m].applied = 1
    /\ op[m].at = "raised" => op[m].applied = 0

(* A read that is about to be acted on is current unless its watch is broken. *)
ReadsCurrent ==
  \A m \in Members : op[m].at = "exec" /\ m \notin broken => op[m].stored = next_sequence
=============================================================================
