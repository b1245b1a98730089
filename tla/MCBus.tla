-------------------------------- MODULE MCBus --------------------------------
(***************************************************************************)
(* Both transports against the one contract: a behaviour is of the         *)
(* JetStream transport or of the in-memory one.                            *)
(***************************************************************************)
EXTENDS NatsBus, SequencesExt, TLC

CONSTANT MaxRenew
VARIABLES transport, member, position, unacked, renewed

Memory == INSTANCE MemoryBus WITH Ids <- Ids \ Malformed, life <- member

memoryOnly == <<member, position, unacked, renewed>>
natsOnly == <<window, count, due, late, lapses, fetching, holding, newest, ended, life, naks, kept,
              reached, acking, faults>>
MCvars == <<vars, transport, memoryOnly>>

Subjects == ("a" :> 1) @@ ("b" :> 1) @@ ("x" :> 2)

\* Bounds: what is published, in this order, with repetitions a window drops;
\* and one fault when the log is as long as that, two when it is not.
Published == {<<"a", "b", "x">>, <<"a", "x", "a">>}
Planned ==
  /\ \E s \in Published : IsPrefix(log', s)
  /\ Len(log') + faults' < MaxLog + MaxFault

MCInit ==
  /\ NatsInit
  /\ transport \in {"nats", "memory"}
  /\ member = "new" /\ position = 0 /\ unacked = {} /\ renewed = 0

MCNext ==
  /\ \/ transport = "nats" /\ NatsNext /\ UNCHANGED <<transport, memoryOnly>>
     \/ transport = "memory" /\ Memory!MemoryNext /\ UNCHANGED <<transport, natsOnly>>
  /\ transport = "nats" => Planned

\* The event loop, the server and the consumer's caller keep going.
Going ==
  \/ transport = "nats" /\ Progress /\ UNCHANGED <<transport, memoryOnly>>
  \/ transport = "memory" /\ Memory!MemoryProgress /\ UNCHANGED <<transport, natsOnly>>

MCSpec == MCInit /\ [][MCNext]_MCvars /\ WF_MCvars(Going)

\* Every message is settled for a durable group however often its consumers
\* are closed, crash or lose calls; a positional reader is given all of them.
EventuallySettled ==
  <>[](IF mode = "durable" THEN acked = Offsets
       ELSE \A o \in Offsets : o \in yielded \/ log[o] \in Malformed)
=============================================================================
