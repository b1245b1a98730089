------------------------------ MODULE MemoryBus ------------------------------
(***************************************************************************)
(* InMemoryBus: one log, one consumer group with at most one live member,  *)
(* and the members that follow one another.  Offset o here is log index    *)
(* o - 1 of the code.  `mode` is fixed per topic reader: a durable         *)
(* subscription, or a positional one from offset 0.                        *)
(***************************************************************************)
EXTENDS Naturals, Sequences

CONSTANTS Ids, MaxLog, MaxRenew

VARIABLES log, yielded, acked,
          mode,      \* "durable" or "positional"
          life,      \* the live consumer: "new", "open" or "closed"
          position,  \* the last offset its iterator passed
          unacked,   \* what it yielded and has not acknowledged
          renewed    \* how many consumers came before it

Offsets == 1..Len(log)

MemoryInit ==
  /\ log = <<>> /\ yielded = {} /\ acked = {}
  /\ mode \in {"durable", "positional"}
  /\ life = "new" /\ position = 0 /\ unacked = {} /\ renewed = 0

\* MemoryProducer.publish and _append: an id is appended once, for ever.
append(id) ==
  /\ IF \E o \in Offsets : log[o] = id
     THEN UNCHANGED log
     ELSE Len(log) < MaxLog /\ log' = Append(log, id)
  /\ UNCHANGED <<yielded, acked, mode, life, position, unacked, renewed>>

subscribe ==
  /\ life = "new"
  /\ life' = "open"
  /\ position' = 0
  /\ UNCHANGED <<log, yielded, acked, mode, unacked, renewed>>

\* _consume: one offset is passed, and yielded unless the group settled it.
consume ==
  LET o == position + 1
  IN  /\ life = "open" /\ o \in Offsets
      /\ position' = o
      /\ IF mode = "durable" /\ o \in acked
         THEN UNCHANGED <<yielded, unacked>>
         ELSE /\ yielded' = yielded \union {o}
              /\ unacked' = IF mode = "durable" THEN unacked \union {o} ELSE unacked
      /\ UNCHANGED <<log, acked, mode, life, renewed>>

\* ack: the whole batch is checked before any of it is recorded, so a call that
\* names anything else changes nothing.
ack(S) ==
  /\ life = "open" /\ mode = "durable"
  /\ S # {} /\ S \subseteq unacked
  /\ acked' = acked \union S
  /\ unacked' = unacked \ S
  /\ UNCHANGED <<log, yielded, mode, life, position, renewed>>

close ==
  /\ life # "closed"
  /\ life' = "closed"
  /\ unacked' = {}
  /\ UNCHANGED <<log, yielded, acked, mode, position, renewed>>

\* A crash, or the start after a close: a fresh consumer of the group.
renew ==
  /\ life # "new" /\ (life = "closed" \/ renewed < MaxRenew)
  /\ life' = "new" /\ unacked' = {} /\ renewed' = renewed + 1
  /\ UNCHANGED <<log, yielded, acked, mode, position>>

\* What goes on without the producer, a close or a crash.
MemoryProgress ==
  \/ subscribe \/ consume \/ (\E S \in SUBSET unacked : ack(S))
  \/ life = "closed" /\ renew

MemoryNext ==
  \/ \E id \in Ids : append(id)
  \/ \E S \in SUBSET unacked : ack(S)
  \/ subscribe \/ consume \/ renew
  \/ renewed < MaxRenew /\ close
=============================================================================
