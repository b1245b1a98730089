---- MODULE MCTrieWorker ----
(* Two addresses below one common prefix, each with its host route. *)
EXTENDS TrieWorker, TLC

CONSTANTS a, b

Reported == (a :> {"/24", "a/32"}) @@ (b :> {"/24", "b/32"})

\* Every record after an add or a record to skip, then a removal or a second
\* address: the third record is what a resumed publish must not skip.
Records3 ==
  (0 :> {[kind |-> "HotIpAdded", ip |-> a], [kind |-> "malformed"]})
  @@ (1 :> Records)
  @@ (2 :> {[kind |-> "HotIpRemoved", ip |-> a], [kind |-> "HotIpAdded", ip |-> b]})

\* Timestamps out of order in the log.
Times == (0 :> 2) @@ (1 :> 1) @@ (2 :> 3)
====
