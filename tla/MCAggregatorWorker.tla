------------------------- MODULE MCAggregatorWorker -------------------------
(* Small instances of AggregatorWorker: two processes one after another, one *)
(* IP, one or two observations.                                              *)
EXTENDS AggregatorWorker, TLC

CONSTANT a

OneIp == [o \in Offsets |-> a]

Restarts == Permutations(Inst)
=============================================================================
