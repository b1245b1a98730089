----------------------------- MODULE ShardClaims -----------------------------
(***************************************************************************)
(* ShardClaims of several processes, each configured for several shards:   *)
(* on_assigned() takes the leases one by one and undoes them when one is   *)
(* refused, AggregatorService.start() tries again while the holder is      *)
(* another instance of the same member, renew_leases() re-takes them, and  *)
(* release() drops them.  One step per call of the state store.            *)
(*                                                                         *)
(* A process is the token of its leases; every process of a member has one *)
(* of its own.  The calls of a process are made under the worker's lock.   *)
(***************************************************************************)
EXTENDS Integers, FiniteSetsExt

CONSTANTS Processes,   \* the tokens, numbers
          Nobody,
          Shards,      \* numbers: they are claimed in order
          MemberOf,    \* token -> the member id in front of it
          Assigned,    \* token -> the shards it is configured for
          MaxMishaps   \* bound: crashes, failed calls, start timeouts and stalls

ASSUME ClaimsAssumption ==
  /\ Processes \subseteq Nat /\ Shards \subseteq Nat /\ Nobody \notin Processes
  /\ Assigned \in [Processes -> (SUBSET Shards) \ {{}}]
  /\ MaxMishaps \in Nat

VARIABLES owner,     \* shard -> the token in the store, or Nobody
          at,        \* what a process is doing
          leased, windows,
          claimed,   \* what this call of on_assigned has taken
          left,      \* the shards a loop still has to visit
          refused,   \* whose lease was in the way
          stalled,   \* history: processes whose lease lapsed while they lived
          doubtful,  \* history: <<process, shard>> of lease calls that failed
          mishaps

claimVars == <<owner, at, leased, windows, claimed, left, refused, stalled, doubtful, mishaps>>

ClaimsInit ==
  /\ owner = [s \in Shards |-> Nobody]
  /\ at = [p \in Processes |-> "off"]
  /\ leased = [p \in Processes |-> {}] /\ windows = leased /\ claimed = leased /\ left = leased
  /\ refused = [p \in Processes |-> Nobody]
  /\ stalled = {} /\ doubtful = {} /\ mishaps = 0

Mishap == mishaps < MaxMishaps /\ mishaps' = mishaps + 1

\* Mutant: the partitions are visited in the order a set happens to have.
turn_unsorted(p) == IF p % 2 = 0 THEN Max(left[p]) ELSE Min(left[p])

\* The shard a loop of p has come to.
turn(p) == Min(left[p])

grants(s, p) == owner[s] \in {Nobody, p}

\* release_lease drops its caller's lease and no other.
released(s, p) == [owner EXCEPT ![s] = IF @ = p THEN Nobody ELSE @]

-----------------------------------------------------------------------------
(* on_assigned *)

\* A claim is a lease and a window; what has both is skipped.
Begin_claim(p) ==
  /\ at' = [at EXCEPT ![p] = "claim"]
  /\ claimed' = [claimed EXCEPT ![p] = {}]
  /\ left' = [left EXCEPT ![p] = Assigned[p] \ (leased[p] \intersect windows[p])]
  /\ UNCHANGED <<owner, leased, windows, refused, stalled, doubtful, mishaps>>

Start_worker(p) == at[p] = "off" /\ Begin_claim(p)

Take_lease(p) ==
  LET s == turn(p)
  IN  /\ at[p] = "claim" /\ grants(s, p)
      /\ owner' = [owner EXCEPT ![s] = p]
      /\ claimed' = [claimed EXCEPT ![p] = @ \union {s}]
      /\ leased' = [leased EXCEPT ![p] = @ \union {s}]
      /\ at' = [at EXCEPT ![p] = "load"]
      /\ UNCHANGED <<windows, left, refused, stalled, doubtful, mishaps>>

Load_shard(p) ==
  /\ at[p] = "load"
  /\ windows' = [windows EXCEPT ![p] = @ \union {turn(p)}]
  /\ left' = [left EXCEPT ![p] = @ \ {turn(p)}]
  /\ at' = [at EXCEPT ![p] = IF left'[p] = {} THEN "run" ELSE "claim"]
  /\ UNCHANGED <<owner, leased, claimed, refused, stalled, doubtful, mishaps>>

Refusal(p) ==
  /\ at[p] = "claim" /\ ~grants(turn(p), p)
  /\ refused' = [refused EXCEPT ![p] = owner[turn(p)]]
  /\ at' = [at EXCEPT ![p] = "undo"]
  /\ UNCHANGED <<owner, leased, windows, claimed, left, stalled, doubtful, mishaps>>

\* The windows and the records of the leases go first, then the lease.
forget(p, s) ==
  /\ windows' = [windows EXCEPT ![p] = @ \ {s}]
  /\ claimed' = [claimed EXCEPT ![p] = @ \ {s}]

\* Mutant: only the lease of the last claim is given back.
Undo_last(p) ==
  LET s == Max(claimed[p])
  IN  /\ at[p] = "undo" /\ claimed[p] # {}
      /\ claimed' = [claimed EXCEPT ![p] = {}]
      /\ windows' = [windows EXCEPT ![p] = @ \ claimed[p]]
      /\ leased' = [leased EXCEPT ![p] = @ \ claimed[p]]
      /\ owner' = released(s, p)
      /\ UNCHANGED <<at, left, refused, stalled, doubtful, mishaps>>

Undo(p) ==
  LET s == Min(claimed[p])
  IN  /\ at[p] = "undo" /\ claimed[p] # {}
      /\ forget(p, s)
      /\ leased' = [leased EXCEPT ![p] = @ \ {s}]
      /\ owner' = released(s, p)
      /\ UNCHANGED <<at, left, refused, stalled, doubtful, mishaps>>

-----------------------------------------------------------------------------
(* stop() and release(); how a start that failed gets there *)

\* release() takes the set of leases away before the first call.
to_release(p) == leased[p]

Stopping(p) ==
  /\ at' = [at EXCEPT ![p] = "release"]
  /\ left' = [left EXCEPT ![p] = to_release(p)]
  /\ leased' = [leased EXCEPT ![p] = {}]

\* The undoing is over: another instance of the member is waited out, another
\* member's lease is fatal.
Raised(p) ==
  /\ at[p] = "undo" /\ claimed[p] = {}
  /\ IF MemberOf[refused[p]] = MemberOf[p]
     THEN at' = [at EXCEPT ![p] = "retry"] /\ UNCHANGED <<left, leased>>
     ELSE Stopping(p)
  /\ UNCHANGED <<owner, windows, claimed, refused, stalled, doubtful, mishaps>>

Try_again(p) == at[p] = "retry" /\ Begin_claim(p)

\* connect_with_retry runs out of its budget, or a signal asks a serving
\* process to stop; stop() waits for the lock, so no call is in flight.
Ask_stop(p) ==
  /\ at[p] \in {"retry", "run"}
  /\ Stopping(p)
  /\ UNCHANGED <<owner, windows, claimed, refused, stalled, doubtful, mishaps>>

Release_next(p) ==
  /\ at[p] = "release"
  /\ IF left[p] = {}
     THEN at' = [at EXCEPT ![p] = "exit"] /\ UNCHANGED <<owner, left>>
     ELSE /\ owner' = released(turn(p), p)
          /\ left' = [left EXCEPT ![p] = @ \ {turn(p)}]
          /\ UNCHANGED at
  /\ UNCHANGED <<leased, windows, claimed, refused, stalled, doubtful, mishaps>>

-----------------------------------------------------------------------------
(* renew_leases *)

Sweep(p) ==
  /\ at[p] = "run"
  /\ at' = [at EXCEPT ![p] = "renew"]
  /\ left' = [left EXCEPT ![p] = leased[p]]
  /\ UNCHANGED <<owner, leased, windows, claimed, refused, stalled, doubtful, mishaps>>

\* A refusal is ShardLeaseLostError, which ends run() and so stops the process.
Renew_next(p) ==
  LET s == turn(p)
  IN  /\ at[p] = "renew"
      /\ IF grants(s, p)
         THEN /\ owner' = [owner EXCEPT ![s] = p]
              /\ left' = [left EXCEPT ![p] = @ \ {s}]
              /\ at' = [at EXCEPT ![p] = IF left'[p] = {} THEN "run" ELSE "renew"]
              /\ UNCHANGED leased
         ELSE Stopping(p) /\ UNCHANGED owner
      /\ UNCHANGED <<windows, claimed, refused, stalled, doubtful, mishaps>>

-----------------------------------------------------------------------------
(* Mishaps *)

\* The acquire in flight fails, or the startup deadline cancels it, and the
\* server may have granted it: leased does not have it.
Take_fails(p) ==
  LET s == turn(p)
  IN  /\ at[p] \in {"claim", "renew"} /\ Mishap
      /\ \/ UNCHANGED owner
         \/ grants(s, p) /\ owner' = [owner EXCEPT ![s] = p]
      /\ doubtful' = doubtful \union {<<p, s>>}
      /\ Stopping(p)
      /\ UNCHANGED <<windows, claimed, refused, stalled>>

\* The load fails or is cancelled: the lease is kept and stop() releases it.
Load_fails(p) ==
  /\ at[p] = "load" /\ Mishap
  /\ Stopping(p)
  /\ UNCHANGED <<owner, windows, claimed, refused, stalled, doubtful>>

\* A release of the undoing fails or is cancelled: the shard is forgotten by
\* then, and the others are left to stop().
Undo_fails(p) ==
  LET s == Min(claimed[p])
  IN  /\ at[p] = "undo" /\ claimed[p] # {} /\ Mishap
      /\ forget(p, s)
      /\ owner' \in {owner, released(s, p)}
      /\ doubtful' = doubtful \union {<<p, s>>}
      /\ at' = [at EXCEPT ![p] = "release"]
      /\ left' = [left EXCEPT ![p] = to_release(p) \ {s}]
      /\ leased' = [leased EXCEPT ![p] = {}]
      /\ UNCHANGED <<refused, stalled>>

\* A release of stop() fails: nobody knows of the rest any more.
Release_fails(p) ==
  /\ at[p] = "release" /\ left[p] # {} /\ Mishap
  /\ owner' \in {owner, released(turn(p), p)}
  /\ doubtful' = doubtful \union {<<p, s>> : s \in left[p]}
  /\ at' = [at EXCEPT ![p] = "exit"]
  /\ UNCHANGED <<leased, windows, claimed, left, refused, stalled>>

Kill(p) ==
  /\ at[p] \notin {"off", "exit", "dead"} /\ Mishap
  /\ at' = [at EXCEPT ![p] = "dead"]
  /\ UNCHANGED <<owner, leased, windows, claimed, left, refused, stalled, doubtful>>

Gone(p) == at[p] \in {"exit", "dead"}

\* The store drops the lease of a process that is gone...
Lapses(s) ==
  /\ owner[s] # Nobody /\ Gone(owner[s])
  /\ owner' = [owner EXCEPT ![s] = Nobody]
  /\ UNCHANGED <<at, leased, windows, claimed, left, refused, stalled, doubtful, mishaps>>

\* ...and that of one that was held up for longer than the lease lasts.
Stalls(s) ==
  /\ owner[s] # Nobody /\ ~Gone(owner[s]) /\ Mishap
  /\ owner' = [owner EXCEPT ![s] = Nobody]
  /\ stalled' = stalled \union {owner[s]}
  /\ UNCHANGED <<at, leased, windows, claimed, left, refused, doubtful>>

-----------------------------------------------------------------------------
\* What the event loop of a process carries on with by itself.
Works(p) ==
  \/ Take_lease(p) \/ Load_shard(p) \/ Refusal(p) \/ Undo(p) \/ Raised(p) \/ Try_again(p)
  \/ Release_next(p) \/ Renew_next(p)

ClaimsNext ==
  \/ \E p \in Processes :
       \/ Start_worker(p) \/ Works(p) \/ Ask_stop(p) \/ Sweep(p)
       \/ Take_fails(p) \/ Load_fails(p) \/ Undo_fails(p) \/ Release_fails(p) \/ Kill(p)
  \/ \E s \in Shards : Lapses(s) \/ Stalls(s)

ClaimsSpec == ClaimsInit /\ [][ClaimsNext]_claimVars

-----------------------------------------------------------------------------
(* "Every lease and window this call made is rolled back first": a process    *)
(* that waits to try again has nothing in the store or in memory, whatever    *)
(* lapsed or was taken over while it was undoing (on_assigned).               *)
RetryHoldsNothing ==
  \A p \in Processes : at[p] = "retry" =>
    leased[p] = {} /\ windows[p] = {} /\ \A s \in Shards : owner[s] # p

(* A process that serves has a window and a lease for each of its shards, and *)
(* unless it was held up for longer than a lease, the store agrees: nobody    *)
(* else is granted one of them, or drops one, while processes come and go     *)
(* (on_assigned, release).                                                    *)
ServesWhatItHolds ==
  \A p \in Processes : at[p] \in {"run", "renew"} =>
    /\ windows[p] = Assigned[p] /\ leased[p] = Assigned[p]
    /\ p \notin stalled => \A s \in Assigned[p] : owner[s] = p

(* A process that has ended without being killed leaves a lease behind only   *)
(* where a call on that lease failed: a failed load, a refusal half way and a *)
(* stop in the middle of the retries leave none (release, on_assigned).       *)
ExitFreesLeases ==
  \A p \in Processes, s \in Shards :
    at[p] = "exit" /\ owner[s] = p => <<p, s>> \in doubtful

(* The leases in the store are those the processes answer for, in every stage *)
(* of a process's life.                                                       *)
LeasesAccounted == RetryHoldsNothing /\ ServesWhatItHolds /\ ExitFreesLeases

(* Processes of one member that start together do not refuse one another for  *)
(* ever: a process that claims gets its shards or ends, unless another of its *)
(* member serves (sorted order, and the undoing).                             *)
TwinsResolve ==
  \A p \in Processes :
    at[p] \in {"claim", "retry"} ~>
      \/ at[p] \in {"run", "release", "dead"}
      \/ \E q \in Processes : MemberOf[q] = MemberOf[p] /\ at[q] = "run"
=============================================================================
