----------------------------- MODULE MessageBus -----------------------------
(***************************************************************************)
(* What a bus promises to one consumer group of one topic                  *)
(* (hammertime.bus.interface), whichever transport is behind it: a         *)
(* published message is appended, or dropped as a repetition of one the    *)
(* log has; a consumer yields what is in the log; and a message is settled *)
(* for the group only after it was yielded, unless its subject is          *)
(* malformed and no consumer can be given it.                              *)
(***************************************************************************)
EXTENDS Naturals, Sequences

CONSTANTS Ids,        \* the message ids
          Malformed   \* those stored under a subject their key does not name

VARIABLES log,        \* the ids in the order they were appended
          yielded,    \* the offsets a consumer of the group has handed out
          acked       \* the offsets settled for the group

Offsets == 1..Len(log)
holds(id) == \E o \in Offsets : log[o] = id

Init == log = <<>> /\ yielded = {} /\ acked = {}

\* Producer.publish: "acknowledged and NOT appended" only for an id in the log.
Publish(id) ==
  /\ \/ log' = Append(log, id)
     \/ holds(id) /\ UNCHANGED log
  /\ UNCHANGED <<yielded, acked>>

\* The iterator yields a message of the log.
Yield(o) ==
  /\ log[o] \notin Malformed
  /\ yielded' = yielded \union {o}
  /\ UNCHANGED <<log, acked>>

\* Consumer.ack: the group's position passes delivered messages only.
Ack(S) ==
  /\ S \subseteq yielded
  /\ acked' = acked \union S
  /\ UNCHANGED <<log, yielded>>

\* A malformed message is settled without being yielded.
Discard(o) ==
  /\ log[o] \in Malformed
  /\ acked' = acked \union {o}
  /\ UNCHANGED <<log, yielded>>

Next == \/ \E id \in Ids : Publish(id)
        \/ \E o \in Offsets : Yield(o) \/ Discard(o)
        \/ \E S \in SUBSET Offsets : Ack(S)

vars == <<log, yielded, acked>>
Spec == Init /\ [][Next]_vars
=============================================================================
