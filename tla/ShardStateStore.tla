--------------------------- MODULE ShardStateStore ---------------------------
(***************************************************************************)
(* What a ShardStateStore promises for one shard, every call a single      *)
(* step: the HOT set, the next sequence and the lease.  The in-process     *)
(* backend (memory.py) runs each call without an await, so these actions   *)
(* are its calls; RedisShardStore is shown to implement them.              *)
(***************************************************************************)
EXTENDS Integers

CONSTANTS Members,   \* owner tokens
          IPs,
          Free,      \* no holder
          Sequences, \* what record_transition accepts: not negative
          TTLs       \* what acquire_lease accepts: positive

VARIABLES hot,            \* the shard's HOT set
          next_sequence,  \* what its next transition will use
          holder,         \* the lease's owner, or Free
          until,          \* what its holder was promised
          now

storeVars == <<hot, next_sequence, holder, until, now>>

StoreInit ==
  /\ hot = {} /\ next_sequence = 0
  /\ holder = Free /\ until = 0 /\ now = 0

\* Membership changes whatever the sequence; the counter is raised, never lowered.
record_transition(ip, state, sequence) ==
  /\ hot' = IF state = "HOT" THEN hot \cup {ip} ELSE hot \ {ip}
  /\ next_sequence' = IF sequence + 1 > next_sequence THEN sequence + 1 ELSE next_sequence
  /\ UNCHANGED <<holder, until, now>>

\* Granted to anyone when free and to the holder again; refused otherwise.
acquire_lease(m, ttl) ==
  /\ holder \in {Free, m}
  /\ holder' = m
  /\ until' = now + ttl
  /\ UNCHANGED <<hot, next_sequence, now>>

release_lease(m) ==
  /\ holder = m
  /\ holder' = Free
  /\ UNCHANGED <<hot, next_sequence, until, now>>

\* A lease may lapse once what was promised has passed, and never before.
Pass ==
  /\ now' = now + 1
  /\ \/ holder' = holder
     \/ until <= now' /\ holder' = Free
  /\ UNCHANGED <<hot, next_sequence, until>>

StoreNext ==
  \/ \E ip \in IPs, state \in {"HOT", "COLD"}, sequence \in Sequences :
       record_transition(ip, state, sequence)
  \/ \E m \in Members : (\E ttl \in TTLs : acquire_lease(m, ttl)) \/ release_lease(m)
  \/ Pass

StoreSpec == StoreInit /\ [][StoreNext]_storeVars
=============================================================================
