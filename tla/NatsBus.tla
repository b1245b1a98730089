------------------------------- MODULE NatsBus -------------------------------
(***************************************************************************)
(* NatsProducer and NatsConsumer over one JetStream stream: the durable    *)
(* pull consumers of one group (or the ordered consumer of a positional    *)
(* reader), the fetch loops that fill the bounded in-process queue, the    *)
(* iterator that empties it, ack() and close(), all tasks of one event     *)
(* loop, and the consumers of the group that follow one another.           *)
(*                                                                         *)
(* A delivery is <<offset, number of the delivery>>.  The server is        *)
(* external: it keeps `log`, the ids its duplicate window remembers, how   *)
(* often it delivered an offset, and which offsets it will deliver again.  *)
(***************************************************************************)
EXTENDS Integers, Sequences, Functions

CONSTANTS Ids, Malformed,
          Partitions,       \* the claimed partitions, one durable each
          PartitionOf,      \* id -> the partition of its subject
          FETCH_BATCH, QUEUE_CAPACITY,
          MaxLog,           \* bound: appended messages
          MaxFault,         \* bound: failed calls, crashes, closes and deliveries
                            \*   in hand that outlast ack_wait
          MaxLapse          \* bound: lapses of the duplicate window

ASSUME NatsAssumption ==
  /\ PartitionOf \in [Ids -> Partitions]
  /\ QUEUE_CAPACITY \in Nat \ {0}
  /\ {MaxLog, MaxFault, MaxLapse} \subseteq Nat

VARIABLES log, yielded, acked, mode,
          window,           \* the ids the stream still deduplicates
          count,            \* offset -> deliveries so far
          due,              \* delivered offsets that will be delivered again
          late,             \* acknowledgements that timed out and may yet arrive
          life,             \* "new", "bound", "open", "closing", "naking", "closed"
          arriving,         \* loop -> deliveries it has not been given yet
          pump,             \* loop -> "off", "fetch", "failing" or "done"
          batch,            \* loop -> what it still has to queue
          queue, unqueued, retained,
          hand,             \* the malformed deliveries the iterator discards
          ended,            \* how the iterator ended
          acking,           \* the offsets an ack() call still has to confirm
          naks,             \* what close() still has to give back
          reached,          \* offsets that reached this consumer's loops
          kept,             \* those close() or term() failed to give back
          faults, lapses,
          newest            \* loop -> the highest first delivery yielded

stream   == <<log, window, lapses>>
server   == <<count, due, acked, late>>
fetching == <<arriving, pump, batch>>
holding  == <<queue, unqueued, retained, hand>>
reading  == <<yielded, newest, ended>>
closing  == <<life, naks, kept, reached>>
vars == <<stream, server, fetching, holding, reading, closing, mode, acking, faults>>

FAILED == <<0, 1>>
CLOSED == <<0, 2>>

Offsets == 1..Len(log)
Loops == IF mode = "durable" THEN Partitions ELSE {0}
loop_of(o) == IF mode = "durable" THEN PartitionOf[log[o]] ELSE 0
Each(x) == [p \in Partitions \union {0} |-> x]
Fault == faults < MaxFault /\ faults' = faults + 1

\* Deliveries among the items of the queue.
Msgs(s) == {s[i] : i \in DOMAIN s} \ {FAILED, CLOSED}

\* What this consumer has of the server's deliveries.
Held == Msgs(queue) \union unqueued \union retained \union hand \union naks
        \union UNION {Msgs(arriving[p]) \union Msgs(batch[p]) : p \in Loops}

NatsInit ==
  /\ log = <<>> /\ yielded = {} /\ acked = {}
  /\ mode \in {"durable", "positional"}
  /\ window = {} /\ count = <<>> /\ due = {} /\ late = {} /\ lapses = 0
  /\ life = "new" /\ arriving = Each(<<>>) /\ pump = Each("off") /\ batch = Each(<<>>)
  /\ queue = <<>> /\ unqueued = {} /\ retained = {} /\ hand = {} /\ ended = "no"
  /\ acking = <<>> /\ naks = {} /\ kept = {} /\ reached = {} /\ faults = 0 /\ newest = Each(0)

-----------------------------------------------------------------------------
(* The stream *)

\* NatsProducer.publish; the stream drops an id its window remembers.
publish(id) ==
  /\ id \notin window => Len(log) < MaxLog
  /\ log' = IF id \in window THEN log ELSE Append(log, id)
  /\ count' = IF id \in window THEN count ELSE Append(count, 0)
  /\ window' = window \union {id}
  /\ UNCHANGED <<lapses, due, acked, late, fetching, holding, reading, closing, mode,
                 acking, faults>>

\* External: the duplicate window forgets an id.
Lapse(id) ==
  /\ id \in window /\ lapses < MaxLapse
  /\ window' = window \ {id}
  /\ lapses' = lapses + 1
  /\ UNCHANGED <<log, server, fetching, holding, reading, closing, mode, acking, faults>>

\* External: a pull is answered with the next new message of the durable or
\* with one to deliver again; an ordered consumer is pushed the next message.
Deliver(p, o) ==
  /\ life = "open" /\ pump[p] = "fetch"
  /\ batch[p] = <<>> /\ Len(arriving[p]) < FETCH_BATCH
  /\ loop_of(o) = p
  /\ \/ o \in due
     \/ count[o] = 0 /\ \A q \in 1..o - 1 : loop_of(q) = p => count[q] > 0
  /\ count' = [count EXCEPT ![o] = @ + 1]
  /\ due' = due \ {o}
  /\ arriving' = [arriving EXCEPT ![p] = Append(@, <<o, count[o] + 1>>)]
  /\ UNCHANGED <<stream, acked, late, pump, batch, holding, reading, closing, mode, acking,
                 faults>>

\* External: ack_wait runs out on a delivery nobody settled: one this consumer
\* still has (bounded), or one that no live consumer has.
AckWait(o) ==
  /\ mode = "durable" /\ count[o] > 0 /\ o \notin acked \union due
  /\ IF \E m \in Held : m[1] = o THEN Fault ELSE UNCHANGED faults
  /\ due' = due \union {o}
  /\ UNCHANGED <<stream, count, acked, late, fetching, holding, reading, closing, mode,
                 acking>>

-----------------------------------------------------------------------------
(* subscribe() *)

\* _bind_durables or _open_positional: the consumers exist on the broker.
Bind ==
  /\ life = "new"
  /\ life' = "bound"
  /\ UNCHANGED <<stream, server, fetching, holding, reading, naks, kept, reached, mode, acking,
                 faults>>

\* The listener is told; only then do the loops start.
Assigned ==
  /\ life = "bound"
  /\ life' = "open"
  /\ pump' = [p \in DOMAIN pump |-> IF p \in Loops THEN "fetch" ELSE "off"]
  /\ UNCHANGED <<stream, server, arriving, batch, holding, reading, naks, kept, reached, mode, acking,
                 faults>>

\* on_assigned raised: the subscriptions are dropped, as if never called.
AssignFails ==
  /\ life = "bound" /\ Fault
  /\ life' = "new"
  /\ UNCHANGED <<stream, server, fetching, holding, reading, naks, kept, reached, mode, acking>>

-----------------------------------------------------------------------------
(* The fetch loops *)

\* fetch() or next_msg() returns what has arrived.
Fetch(p) ==
  /\ life = "open" /\ pump[p] = "fetch" /\ batch[p] = <<>> /\ arriving[p] # <<>>
  /\ batch' = [batch EXCEPT ![p] = arriving[p]]
  /\ arriving' = [arriving EXCEPT ![p] = <<>>]
  /\ reached' = reached \union {m[1] : m \in Msgs(arriving[p])}
  /\ UNCHANGED <<stream, server, pump, holding, reading, life, naks, kept, mode, acking,
                 faults>>

\* Mutant: the newest of the batch is queued first.
Put_newest(p) ==
  /\ pump[p] = "fetch" /\ batch[p] # <<>> /\ life = "open"
  /\ Len(queue) < QUEUE_CAPACITY
  /\ queue' = Append(queue, batch[p][Len(batch[p])])
  /\ batch' = [batch EXCEPT ![p] = SubSeq(@, 1, Len(@) - 1)]
  /\ UNCHANGED <<stream, server, arriving, pump, unqueued, retained, hand, reading, closing,
                 mode, acking, faults>>

\* Mutant: a queued message is not counted as queued.
Put_uncounted(p) ==
  /\ pump[p] = "fetch" /\ batch[p] # <<>> /\ life = "open"
  /\ Len(queue) < QUEUE_CAPACITY
  /\ queue' = Append(queue, Head(batch[p]))
  /\ UNCHANGED <<stream, server, fetching, unqueued, retained, hand, reading, closing, mode,
                 acking, faults>>

\* `await self._queue.put(msg)`.
Put(p) ==
  /\ pump[p] = "fetch" /\ batch[p] # <<>> /\ life = "open"
  /\ Len(queue) < QUEUE_CAPACITY
  /\ queue' = Append(queue, Head(batch[p]))
  /\ batch' = [batch EXCEPT ![p] = Tail(@)]
  /\ UNCHANGED <<stream, server, arriving, pump, unqueued, retained, hand, reading, closing,
                 mode, acking, faults>>

\* The fetch raises: the loop ends once it has queued the failure.
FetchFails(p) ==
  /\ life = "open" /\ pump[p] = "fetch" /\ batch[p] = <<>> /\ Fault
  /\ pump' = [pump EXCEPT ![p] = "failing"]
  /\ UNCHANGED <<stream, server, arriving, batch, holding, reading, closing, mode, acking>>

\* Mutant: the loop ends without a word.
PutFailed_silent(p) ==
  /\ pump[p] = "failing" /\ life = "open"
  /\ pump' = [pump EXCEPT ![p] = "done"]
  /\ UNCHANGED <<stream, server, arriving, batch, holding, reading, closing, mode, acking,
                 faults>>

PutFailed(p) ==
  /\ pump[p] = "failing" /\ life = "open"
  /\ Len(queue) < QUEUE_CAPACITY
  /\ queue' = Append(queue, FAILED)
  /\ pump' = [pump EXCEPT ![p] = "done"]
  /\ UNCHANGED <<stream, server, arriving, batch, unqueued, retained, hand, reading, closing,
                 mode, acking, faults>>

\* Mutant: the remainder of a cancelled batch is dropped.
Cancelled_drops(p) ==
  /\ life = "closing" /\ pump[p] \in {"fetch", "failing"}
  /\ pump' = [pump EXCEPT ![p] = "done"]
  /\ batch' = [batch EXCEPT ![p] = <<>>]
  /\ UNCHANGED <<stream, server, arriving, holding, reading, closing, mode, acking, faults>>

\* CancelledError in the loop: a pull loop leaves what it had not queued.
Cancelled(p) ==
  /\ life = "closing" /\ pump[p] \in {"fetch", "failing"}
  /\ pump' = [pump EXCEPT ![p] = "done"]
  /\ batch' = [batch EXCEPT ![p] = <<>>]
  /\ unqueued' = IF mode = "durable" THEN unqueued \union Msgs(batch[p]) ELSE unqueued
  /\ UNCHANGED <<stream, server, arriving, queue, retained, hand, reading, closing, mode,
                 acking, faults>>

-----------------------------------------------------------------------------
(* The iterator *)

\* The most recent delivery of a message is the one to acknowledge.
retain(m) == {r \in retained : r[1] # m[1]} \union {m}

\* _consume takes the next item: the sentinels end it, a malformed message is
\* discarded, and anything else is retained and yielded.
Take ==
  LET m == Head(queue)
      o == m[1]
  IN  /\ ended = "no" /\ hand = {} /\ queue # <<>>
      /\ queue' = Tail(queue)
      /\ CASE m \in {FAILED, CLOSED} ->
                /\ ended' = IF m = FAILED THEN "failed" ELSE "closed"
                /\ UNCHANGED <<hand, retained, yielded, newest>>
           [] m \notin {FAILED, CLOSED} /\ log[o] \in Malformed ->
                /\ hand' = IF mode = "durable" THEN {m} ELSE {}
                /\ UNCHANGED <<retained, yielded, newest, ended>>
           [] OTHER ->
                /\ retained' = IF mode = "durable" THEN retain(m) ELSE retained
                /\ yielded' = yielded \union {o}
                /\ newest' = IF m[2] = 1 THEN [newest EXCEPT ![loop_of(o)] = o] ELSE newest
                /\ UNCHANGED <<hand, ended>>
      /\ UNCHANGED <<stream, server, fetching, unqueued, closing, mode, acking, faults>>

\* msg.term(), whose failure is suppressed.
Discard ==
  /\ hand # {}
  /\ hand' = {}
  /\ \/ /\ acked' = acked \union {m[1] : m \in hand}
        /\ due' = due \ acked'
        /\ UNCHANGED <<faults, kept>>
     \/ /\ Fault
        /\ kept' = kept \union {m[1] : m \in hand}
        /\ UNCHANGED <<acked, due>>
  /\ UNCHANGED <<stream, count, late, fetching, queue, unqueued, retained, reading, life,
                 naks, reached, mode, acking>>

-----------------------------------------------------------------------------
(* ack() *)

\* Mutant: acknowledging a message acknowledges what lies below it.
AckCall_cumulative(S) ==
  LET below == {q \in Offsets : \E o \in S : q <= o}
  IN  /\ life = "open" /\ mode = "durable" /\ acking = <<>>
      /\ S # {} /\ \A o \in S : \E m \in retained : m[1] = o
      /\ \E n \in Offsets : acking' \in Bijection(1..n, below)
      /\ UNCHANGED <<stream, server, fetching, holding, reading, closing, mode, faults>>

\* The whole batch is checked against what is retained; then each is confirmed
\* once, one after another, in the order the caller named them.
AckCall(S) ==
  /\ life = "open" /\ mode = "durable" /\ acking = <<>>
  /\ S # {} /\ \A o \in S : \E m \in retained : m[1] = o
  /\ \E n \in Offsets : acking' \in Bijection(1..n, S)
  /\ UNCHANGED <<stream, server, fetching, holding, reading, closing, mode, faults>>

\* The server settles the offset ack_sync is waiting on.
Settle ==
  /\ acking # <<>> /\ Head(acking) \notin acked
  /\ acked' = acked \union {Head(acking)}
  /\ due' = due \ acked'
  /\ UNCHANGED <<stream, count, late, fetching, holding, reading, closing, mode, acking,
                 faults>>

\* The confirmation arrives: `del self._retained[key]`, a KeyError that ends the
\* call when close() has taken what was retained.
Confirmed ==
  /\ acking # <<>> /\ Head(acking) \in acked
  /\ IF \E m \in retained : m[1] = Head(acking)
     THEN /\ retained' = {m \in retained : m[1] # Head(acking)}
          /\ acking' = Tail(acking)
     ELSE acking' = <<>> /\ UNCHANGED retained
  /\ UNCHANGED <<stream, server, fetching, queue, unqueued, hand, reading, closing, mode,
                 faults>>

\* No confirmation in time: the call raises, the message stays retained, and the
\* acknowledgement may still reach the server.
AckTimeout ==
  /\ acking # <<>> /\ Fault
  /\ late' = late \union {Head(acking)}
  /\ acking' = <<>>
  /\ UNCHANGED <<stream, count, due, acked, fetching, holding, reading, closing, mode>>

LateAck(o) ==
  /\ o \in late
  /\ late' = late \ {o}
  /\ acked' = acked \union {o}
  /\ due' = due \ {o}
  /\ UNCHANGED <<stream, count, fetching, holding, reading, closing, mode, acking, faults>>

-----------------------------------------------------------------------------
(* close() *)

\* The instance is closed and its loops are cancelled.
Close ==
  /\ life \in {"new", "open"}
  /\ IF ended = "failed" THEN UNCHANGED faults ELSE Fault
  /\ life' = "closing"
  /\ UNCHANGED <<stream, server, fetching, holding, reading, naks, kept, reached, mode, acking>>

\* The loops have ended: what they left, the queue and what was retained are
\* taken over, the subscriptions dropped and the connection flushed.
Drain ==
  /\ life = "closing" /\ \A p \in Loops : pump[p] \in {"off", "done"}
  /\ naks' = IF mode = "durable" THEN Msgs(queue) \union unqueued \union retained ELSE {}
  /\ queue' = <<>> /\ unqueued' = {} /\ retained' = {}
  /\ life' = "naking"
  /\ UNCHANGED <<stream, server, fetching, hand, reading, kept, reached, mode, acking, faults>>

\* msg.nak(), whose failure is suppressed; nothing is due of a settled message.
Nak(m) ==
  /\ life = "naking" /\ m \in naks
  /\ naks' = naks \ {m}
  /\ \/ /\ due' = IF m[1] \in acked THEN due ELSE due \union {m[1]}
        /\ UNCHANGED <<faults, kept>>
     \/ /\ Fault
        /\ kept' = kept \union {m[1]}
        /\ UNCHANGED due
  /\ UNCHANGED <<stream, count, acked, late, fetching, holding, reading, life, reached,
                 mode, acking>>

\* put_nowait(_Closed()): it would raise on a full queue.
CloseEnd ==
  /\ life = "naking" /\ naks = {} /\ Len(queue) < QUEUE_CAPACITY
  /\ queue' = Append(queue, CLOSED)
  /\ life' = "closed"
  /\ UNCHANGED <<stream, server, fetching, unqueued, retained, hand, reading, naks, kept,
                 reached, mode, acking, faults>>

\* A fresh consumer of the group, after a close or in place of one that crashed.
Renew ==
  /\ \/ life = "closed" /\ ended # "no" /\ UNCHANGED faults
     \/ life # "new" /\ Fault
  /\ life' = "new" /\ arriving' = Each(<<>>) /\ pump' = Each("off") /\ batch' = Each(<<>>)
  /\ queue' = <<>> /\ unqueued' = {} /\ retained' = {} /\ hand' = {} /\ ended' = "no"
  /\ acking' = <<>> /\ naks' = {} /\ kept' = {} /\ reached' = {}
  /\ late' = IF acking = <<>> THEN late ELSE late \union {Head(acking)}
  /\ IF mode = "durable" THEN UNCHANGED <<count, newest>>
     ELSE count' = [o \in Offsets |-> 0] /\ newest' = Each(0)
  /\ UNCHANGED <<stream, due, acked, yielded, mode>>

-----------------------------------------------------------------------------
\* Everything but the environment's choices: publishing, faults, closing.
Progress ==
  \/ \E o \in Offsets : (\E p \in Loops : Deliver(p, o)) \/ AckWait(o)
  \/ \E p \in Loops : Fetch(p) \/ Put(p) \/ PutFailed(p) \/ Cancelled(p)
  \/ \E S \in SUBSET {m[1] : m \in retained} : AckCall(S)
  \/ Bind \/ Assigned \/ Take \/ Discard \/ Settle \/ Confirmed
  \/ ended = "failed" /\ Close
  \/ Drain \/ CloseEnd \/ (\E m \in naks : Nak(m))
  \/ Renew

NatsNext ==
  \/ Progress
  \/ \E id \in Ids : publish(id) \/ Lapse(id)
  \/ \E p \in Loops : FetchFails(p)
  \/ AssignFails \/ AckTimeout \/ Close
  \/ \E o \in late : LateAck(o)

NatsSpec == NatsInit /\ [][NatsNext]_vars

-----------------------------------------------------------------------------
(* What is checked *)

\* _pump_pull and close(): "Each `Msg` is in exactly one of: yielded and
\* retained, queued, or here."  A delivery is in one place at a time, from the
\* loop that received it to the negative acknowledgement that returns it.
OnePlace ==
  LET In(m, name, p, s) == {<<name, p, i>> : i \in {i \in DOMAIN s : s[i] = m}}
      Places(m) ==
        In(m, "queue", 0, queue)
        \union UNION {In(m, "arriving", p, arriving[p]) \union In(m, "batch", p, batch[p]) : p \in Loops}
        \union {<<"set", 0, i>> : i \in {i \in 1..4 : m \in <<unqueued, retained, hand, naks>>[i]}}
  IN  \A m \in Held : \E place \in Places(m) : Places(m) = {place}

\* close(): every delivery that reached the loops and was not acknowledged is
\* deliverable again at once, unless giving it back failed or the server had
\* delivered it again against a pull that never came back to its loop.
ReturnedAtClose ==
  life = "closed" /\ mode = "durable" =>
    reached \subseteq acked \union due \union kept
      \union {m[1] : m \in hand \union UNION {Msgs(arriving[p]) : p \in Loops}}

\* close() always ends the iterator: its sentinel fits into the queue, and
\* nothing takes it but the iterator.
CloseEndsIterator ==
  /\ life = "naking" => Len(queue) < QUEUE_CAPACITY
  /\ life = "closed" /\ ended = "no" => queue # <<>> /\ queue[Len(queue)] = CLOSED

\* What close() leaves: nothing withheld from the group, nobody waiting.
CloseSound == ReturnedAtClose /\ CloseEndsIterator

\* subscribe(): the first deliveries of a partition are yielded in stream
\* order, and a positional reader misses no message.
FirstInOrder ==
  [][\A p \in Loops : newest'[p] # newest[p] /\ life' # "new" =>
       /\ newest'[p] > newest[p]
       /\ mode = "positional" =>
            \A o \in newest[p] + 1..newest'[p] - 1 : log[o] \in Malformed]_vars

\* Both transports keep hammertime.bus.interface's contract.
Contract == INSTANCE MessageBus
KeepsContract == Contract!Spec
=============================================================================
