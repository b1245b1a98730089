------------------------------ MODULE MCStores ------------------------------
(***************************************************************************)
(* The two Redis stores, and the shard claims that are made through one of *)
(* them, for model checking.  The counter with its HOT set, the lease of   *)
(* one shard, the dedup key and the claims of several shards touch nothing *)
(* in common, so a behaviour exercises one of them.                        *)
(***************************************************************************)
EXTENDS RedisShardStore, RedisDedup, ShardClaims, TLC

VARIABLE part

MCvars == <<vars, dedupVars, claimVars, part>>

\* Two instances of one member, and another member configured for one of its
\* shards by mistake.
MCMemberOf == (1 :> "a") @@ (2 :> "a") @@ (3 :> "b")
MCAssigned == (1 :> {1, 2, 3}) @@ (2 :> {1, 2, 3}) @@ (3 :> {3})

Lease(m) == (\E ttl \in TTLs : acquire_lease(m, ttl)) \/ release_lease(m)

Record(m) ==
  \/ \E ip \in IPs, state \in States, sequence \in 0..MaxSeq : Begin(m, ip, state, sequence)
  \/ Watch(m) \/ Get(m) \/ Exec(m) \/ WatchFails(m) \/ Disconnect(m) \/ Return(m)

MCInit == Init /\ DedupInit /\ ClaimsInit /\ part \in {"state", "lease", "dedup", "claims"}

Claiming(A) == part = "claims" /\ A /\ UNCHANGED <<vars, dedupVars, part>>

MCNext ==
  \/ /\ part = "state" /\ UNCHANGED <<dedupVars, claimVars, part>>
     /\ \E m \in Members : Record(m)
  \/ /\ part = "lease" /\ UNCHANGED <<dedupVars, claimVars, part>>
     /\ Tick \/ \E m \in Members : Lease(m)
  \/ /\ part = "dedup" /\ UNCHANGED <<vars, claimVars, part>>
     /\ DedupNext
  \/ Claiming(ClaimsNext)

\* Every event loop carries on, and the lease of a process that is gone lapses.
MCSpec ==
  /\ MCInit /\ [][MCNext]_MCvars
  /\ \A p \in Processes : WF_MCvars(Claiming(Works(p)))
  /\ \A s \in Shards : WF_MCvars(Claiming(Lapses(s)))
=============================================================================
