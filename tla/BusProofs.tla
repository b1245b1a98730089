------------------------------ MODULE BusProofs ------------------------------
(***************************************************************************)
(* The JetStream transport keeps the contract of the bus interface, and    *)
(* close() withholds nothing from the group and ends the iterator: for any *)
(* messages, partitions, batch size and queue capacity, and any number of  *)
(* faults.                                                                 *)
(***************************************************************************)
EXTENDS NatsBus, TLAPS

USE DEF stream, server, fetching, holding, reading, closing

Tasks == Partitions \union {0}
Delivery == (Nat \ {0}) \X (Nat \ {0})

\* The type of what the proofs reason about.
NatsTypeOK ==
  /\ log \in Seq(Ids) /\ window \subseteq Ids
  /\ mode \in {"durable", "positional"}
  /\ life \in {"new", "bound", "open", "closing", "naking", "closed"}
  /\ arriving \in [Tasks -> Seq(Delivery)] /\ batch \in [Tasks -> Seq(Delivery)]
  /\ pump \in [Tasks -> {"off", "fetch", "failing", "done"}]
  /\ queue \in Seq(Delivery \union {FAILED, CLOSED})
  /\ {unqueued, retained, hand, naks} \subseteq SUBSET Delivery
  /\ ended \in {"no", "failed", "closed"}
  /\ count \in Seq(Nat) /\ Len(count) = Len(log)
  /\ acking \in Seq(Offsets)

\* What the contract rests on: whatever is deduplicated, held, retained or about
\* to be acknowledged is a message of the log, and was yielded if it must be.
Logged ==
  /\ \A id \in window : \E o \in Offsets : log[o] = id
  /\ yielded \union acked \union due \subseteq Offsets /\ late \subseteq yielded
  /\ \A m \in Held : m[1] \in Offsets
  /\ \A m \in retained : m[1] \in yielded
  /\ \A i \in 1 .. Len(acking) : acking[i] \in yielded
  /\ \A m \in hand : hand = {m} /\ log[m[1]] \in Malformed

\* What reached a durable consumer is settled, deliverable, given up or held.
Accounted ==
  mode = "durable" =>
    \A o \in reached : o \in acked \union due \union kept \/ \E m \in Held : m[1] = o

\* A loop that does not fetch has nothing left to queue; once they have all
\* ended and close() has taken over, nothing but its sentinel is queued.
Ended ==
  /\ \A p \in Loops : pump[p] # "fetch" => batch[p] = <<>>
  /\ life \in {"naking", "closed"} =>
       unqueued = {} /\ retained = {} /\ \A p \in Loops : pump[p] \in {"off", "done"}
  /\ life = "naking" => queue = <<>>
  /\ life # "naking" => naks = {}
  /\ life = "closed" => queue = <<CLOSED>> \/ (queue = <<>> /\ ended # "no")

NatsInv == NatsTypeOK /\ Logged /\ Accounted /\ Ended

-----------------------------------------------------------------------------
(* Deliveries in a queue *)

LEMMA SentinelsApart == FAILED \notin Delivery /\ CLOSED \notin Delivery /\ FAILED # CLOSED
BY DEF FAILED, CLOSED, Delivery

LEMMA MsgsEmpty == Msgs(<<>>) = {}
BY DEF Msgs

LEMMA MsgsAppend ==
  ASSUME NEW S, NEW s \in Seq(S), NEW x \in S
  PROVE  Msgs(Append(s, x)) = Msgs(s) \union ({x} \ {FAILED, CLOSED})
<1>1. /\ DOMAIN Append(s, x) = DOMAIN s \union {Len(s) + 1}
      /\ \A i \in DOMAIN s : Append(s, x)[i] = s[i]
      /\ Append(s, x)[Len(s) + 1] = x
  OBVIOUS
<1> QED BY <1>1, Zenon DEF Msgs

LEMMA MsgsSentinel ==
  ASSUME NEW s \in Seq(Delivery \union {FAILED, CLOSED}), NEW x \in {FAILED, CLOSED}
  PROVE  Msgs(Append(s, x)) = Msgs(s)
<1>1. Msgs(Append(s, x)) = Msgs(s) \union ({x} \ {FAILED, CLOSED})
  BY MsgsAppend
<1> QED BY <1>1, Zenon

LEMMA TailIs ==
  ASSUME NEW S, NEW s \in Seq(S), s # <<>>
  PROVE  /\ Len(s) \in Nat \ {0} /\ Head(s) = s[1] /\ Head(s) \in S
         /\ Tail(s) \in Seq(S) /\ Len(Tail(s)) = Len(s) - 1
         /\ \A i \in 1 .. Len(s) - 1 : Tail(s)[i] = s[i + 1]
<1>1. Len(s) \in Nat \ {0} OBVIOUS
<1>2. Head(s) = s[1] /\ Head(s) \in S BY <1>1
<1>3. Tail(s) \in Seq(S) OBVIOUS
<1>4. Len(Tail(s)) = Len(s) - 1 BY <1>1
<1>5. \A i \in 1 .. Len(s) - 1 : Tail(s)[i] = s[i + 1] BY <1>1
<1> QED BY <1>1, <1>2, <1>3, <1>4, <1>5, Zenon

LEMMA MsgsTail ==
  ASSUME NEW S, NEW s \in Seq(S), s # <<>>
  PROVE  /\ Head(s) \in S /\ Tail(s) \in Seq(S)
         /\ Msgs(s) = Msgs(Tail(s)) \union ({Head(s)} \ {FAILED, CLOSED})
<1>1. /\ Head(s) \in S /\ Tail(s) \in Seq(S) /\ Len(Tail(s)) = Len(s) - 1
      /\ \A i \in 1 .. Len(s) - 1 : Tail(s)[i] = s[i + 1]
  BY TailIs, Zenon
<1>2. Len(s) \in Nat \ {0} /\ Head(s) = s[1] BY TailIs, Zenon
<1>3. DOMAIN s = 1 .. Len(s) /\ DOMAIN Tail(s) = 1 .. Len(s) - 1 BY <1>1
<1>4. ASSUME NEW i \in DOMAIN s, i # 1 PROVE i - 1 \in DOMAIN Tail(s) /\ s[i] = Tail(s)[i - 1]
  BY <1>1, <1>2, <1>3, <1>4
<1>5. ASSUME NEW i \in DOMAIN Tail(s) PROVE i + 1 \in DOMAIN s /\ s[i + 1] = Tail(s)[i]
  BY <1>1, <1>2, <1>3, <1>5
<1>6. 1 \in DOMAIN s BY <1>2, <1>3
<1>7. {s[i] : i \in DOMAIN s} = {Tail(s)[i] : i \in DOMAIN Tail(s)} \union {s[1]}
  <2>1. ASSUME NEW i \in DOMAIN s
        PROVE  s[i] \in {Tail(s)[j] : j \in DOMAIN Tail(s)} \union {s[1]}
    BY <1>4, Zenon
  <2>2. ASSUME NEW i \in DOMAIN Tail(s) PROVE Tail(s)[i] \in {s[j] : j \in DOMAIN s}
    BY <1>5, Zenon
  <2> QED BY <2>1, <2>2, <1>6, Zenon
<1>8. Msgs(s) = Msgs(Tail(s)) \union ({Head(s)} \ {FAILED, CLOSED}) BY <1>2, <1>7, Zenon DEF Msgs
<1> QED BY <1>1, <1>8, Zenon

LEMMA MsgsType ==
  ASSUME NEW s \in Seq(Delivery \union {FAILED, CLOSED}) PROVE Msgs(s) \subseteq Delivery
BY DEF Msgs

LEMMA DeliveriesQueue == Seq(Delivery) \subseteq Seq(Delivery \union {FAILED, CLOSED})
OBVIOUS

-----------------------------------------------------------------------------
(* Types *)

LEMMA TypeInit == NatsInit => NatsTypeOK
BY DEF NatsInit, NatsTypeOK, Each, Tasks, Offsets

\* The loops are tasks; each is the loop of its partition's messages.
LEMMA LoopsAreTasks == Loops \subseteq Tasks
BY Zenon DEF Loops, Tasks

LEMMA ServerTypeStep ==
  ASSUME NatsTypeOK,
         \/ \E id \in Ids : publish(id) \/ Lapse(id)
         \/ \E o \in Offsets : (\E p \in Loops : Deliver(p, o)) \/ AckWait(o)
         \/ \E o \in late : LateAck(o)
         \/ Bind \/ Assigned \/ AssignFails
  PROVE  NatsTypeOK'
<1> USE DEF NatsTypeOK
<1>1. ASSUME NEW id \in Ids, publish(id) PROVE NatsTypeOK'
  <2>1. log' \in Seq(Ids) /\ count' \in Seq(Nat) /\ Len(count') = Len(log')
    BY <1>1 DEF publish
  <2>2. Len(log) \in Nat /\ Len(log') \in Nat /\ Len(log') >= Len(log) BY <1>1 DEF publish
  <2>3. Offsets \subseteq Offsets' BY <2>2 DEF Offsets
  <2>4. acking \in Seq(Offsets') BY <2>3
  <2> QED BY <1>1, <2>1, <2>4, Zenon DEF publish
<1>2. ASSUME NEW id \in Ids, Lapse(id) PROVE NatsTypeOK' BY <1>2, Zenon DEF Lapse, Offsets
<1>3. ASSUME NEW o \in Offsets, NEW p \in Loops, Deliver(p, o) PROVE NatsTypeOK'
  <2>1. p \in Tasks BY LoopsAreTasks, Zenon
  <2>2. o \in Nat \ {0} /\ count[o] + 1 \in Nat \ {0} BY DEF Offsets
  <2>3. <<o, count[o] + 1>> \in Delivery BY <2>2, Zenon DEF Delivery
  <2>4. arriving' \in [Tasks -> Seq(Delivery)] BY <1>3, <2>1, <2>3 DEF Deliver
  <2>5. count' \in Seq(Nat) /\ Len(count') = Len(count) BY <1>3, <2>2 DEF Deliver, Offsets
  <2> QED BY <1>3, <2>4, <2>5, Zenon DEF Deliver, Offsets
<1>4. ASSUME NEW o \in Offsets, AckWait(o) PROVE NatsTypeOK' BY <1>4, Zenon DEF AckWait, Offsets
<1>5. ASSUME NEW o \in late, LateAck(o) PROVE NatsTypeOK' BY <1>5, Zenon DEF LateAck, Offsets
<1>6. CASE Bind BY <1>6, Zenon DEF Bind, Offsets
<1>7. CASE Assigned BY <1>7, Zenon DEF Assigned, Offsets
<1>8. CASE AssignFails BY <1>8, Zenon DEF AssignFails, Offsets
<1> QED BY <1>1, <1>2, <1>3, <1>4, <1>5, <1>6, <1>7, <1>8, Zenon

LEMMA LoopTypeStep ==
  ASSUME NatsTypeOK,
         \/ \E p \in Loops : Fetch(p) \/ Put(p) \/ PutFailed(p) \/ Cancelled(p) \/ FetchFails(p)
         \/ Take \/ Discard
  PROVE  NatsTypeOK'
<1> USE DEF NatsTypeOK
<1>1. ASSUME NEW p \in Loops, Fetch(p) PROVE NatsTypeOK'
  BY <1>1, LoopsAreTasks, Zenon DEF Fetch, Offsets
<1>2. ASSUME NEW p \in Loops, Put(p) PROVE NatsTypeOK'
  <2>1. p \in Tasks /\ batch[p] \in Seq(Delivery) /\ batch[p] # <<>>
    BY <1>2, LoopsAreTasks, Zenon DEF Put
  <2>2. Head(batch[p]) \in Delivery /\ Tail(batch[p]) \in Seq(Delivery) BY <2>1, MsgsTail, Zenon
  <2> QED BY <1>2, <2>1, <2>2 DEF Put, Offsets
<1>3. ASSUME NEW p \in Loops, PutFailed(p) PROVE NatsTypeOK'
  <2>1. queue' \in Seq(Delivery \union {FAILED, CLOSED}) BY <1>3 DEF PutFailed
  <2>2. pump' \in [Tasks -> {"off", "fetch", "failing", "done"}] BY <1>3, Zenon DEF PutFailed
  <2> QED BY <1>3, <2>1, <2>2, Zenon DEF PutFailed, Offsets
<1>4. ASSUME NEW p \in Loops, Cancelled(p) PROVE NatsTypeOK'
  <2>1. p \in Tasks /\ batch[p] \in Seq(Delivery \union {FAILED, CLOSED})
    BY LoopsAreTasks, DeliveriesQueue, Zenon
  <2>2. Msgs(batch[p]) \subseteq Delivery BY <2>1, MsgsType, Zenon
  <2>3. unqueued' \subseteq Delivery BY <1>4, <2>2, Zenon DEF Cancelled
  <2>e. <<>> \in Seq(Delivery) OBVIOUS
  <2>4. batch' \in [Tasks -> Seq(Delivery)] BY <1>4, <2>e, Zenon DEF Cancelled
  <2>5. pump' \in [Tasks -> {"off", "fetch", "failing", "done"}] BY <1>4, Zenon DEF Cancelled
  <2> QED BY <1>4, <2>3, <2>4, <2>5, Zenon DEF Cancelled, Offsets
<1>5. ASSUME NEW p \in Loops, FetchFails(p) PROVE NatsTypeOK'
  BY <1>5, Zenon DEF FetchFails, Offsets
<1>6. CASE Take
  <2>1. /\ Tail(queue) \in Seq(Delivery \union {FAILED, CLOSED})
        /\ Head(queue) \in Delivery \union {FAILED, CLOSED}
    BY <1>6, MsgsTail, Zenon DEF Take
  <2>2. retained' \subseteq Delivery /\ hand' \subseteq Delivery
        /\ ended' \in {"no", "failed", "closed"}
    BY <1>6, <2>1, Zenon DEF Take, retain
  <2> QED BY <1>6, <2>1, <2>2, Zenon DEF Take, Offsets
<1>7. CASE Discard BY <1>7, Zenon DEF Discard, Offsets
<1> QED BY <1>1, <1>2, <1>3, <1>4, <1>5, <1>6, <1>7, Zenon

LEMMA CallIsSeq ==
  ASSUME NEW n \in Nat, NEW T, NEW f \in [1 .. n -> T] PROVE f \in Seq(T) /\ Len(f) = n
OBVIOUS

LEMMA CallNames ==
  ASSUME NEW S, AckCall(S) PROVE \E n \in Offsets : acking' \in [1 .. n -> S]
BY Zenon DEF AckCall, Bijection, Injection

LEMMA AckTypeStep ==
  ASSUME NatsTypeOK, Logged,
         \/ \E S \in SUBSET {m[1] : m \in retained} : AckCall(S)
         \/ Settle \/ Confirmed \/ AckTimeout \/ Close \/ Drain \/ CloseEnd \/ Renew
         \/ \E m \in naks : Nak(m)
  PROVE  NatsTypeOK'
<1> USE DEF NatsTypeOK
<1>1. ASSUME NEW S \in SUBSET {m[1] : m \in retained}, AckCall(S) PROVE NatsTypeOK'
  <2>1. S \subseteq Offsets BY DEF Logged, Held
  <2>2. PICK n \in Offsets : acking' \in [1 .. n -> S] BY <1>1, CallNames, Zenon
  <2>3. n \in Nat BY DEF Offsets
  <2>5. acking' \in Seq(Offsets)
    <3>1. acking' \in [1 .. n -> Offsets] BY <2>1, <2>2, Zenon
    <3> QED BY <2>3, <3>1, CallIsSeq, Zenon
  <2> QED BY <1>1, <2>5, Zenon DEF AckCall, Offsets
<1>2. CASE Settle BY <1>2, Zenon DEF Settle, Offsets
<1>3. CASE Confirmed
  <2>1. acking # <<>> /\ Tail(acking) \in Seq(Offsets) /\ <<>> \in Seq(Offsets)
    BY <1>3, MsgsTail DEF Confirmed
  <2>2. acking' \in Seq(Offsets) BY <1>3, <2>1, Zenon DEF Confirmed
  <2> QED BY <1>3, <2>2, Zenon DEF Confirmed, Offsets
<1>4. CASE AckTimeout BY <1>4 DEF AckTimeout, Offsets
<1>5. CASE Close BY <1>5, Zenon DEF Close, Offsets
<1>6. CASE Drain
  <2>1. naks' \subseteq Delivery BY <1>6, MsgsType, Zenon DEF Drain
  <2> QED BY <1>6, <2>1 DEF Drain, Offsets
<1>7. CASE CloseEnd
  <2>1. queue' \in Seq(Delivery \union {FAILED, CLOSED}) BY <1>7 DEF CloseEnd
  <2> QED BY <1>7, <2>1, Zenon DEF CloseEnd, Offsets
<1>8. CASE Renew
  <2>1. count' \in Seq(Nat) /\ Len(count') = Len(log) BY <1>8 DEF Renew, Offsets
  <2>2. /\ arriving' \in [Tasks -> Seq(Delivery)] /\ batch' \in [Tasks -> Seq(Delivery)]
        /\ pump' \in [Tasks -> {"off", "fetch", "failing", "done"}]
    BY <1>8 DEF Renew, Each, Tasks
  <2> QED BY <1>8, <2>1, <2>2 DEF Renew, Offsets
<1>9. ASSUME NEW m \in naks, Nak(m) PROVE NatsTypeOK' BY <1>9 DEF Nak, Offsets
<1> QED BY <1>1, <1>2, <1>3, <1>4, <1>5, <1>6, <1>7, <1>8, <1>9, Zenon

LEMMA NatsTypeStep ==
  ASSUME NatsTypeOK, Logged, [NatsNext]_vars
  PROVE  NatsTypeOK'
<1>1. CASE UNCHANGED vars BY <1>1, Zenon DEF vars, NatsTypeOK, Offsets
<1> QED BY <1>1, ServerTypeStep, LoopTypeStep, AckTypeStep, Zenon DEF NatsNext, Progress

-----------------------------------------------------------------------------
(* What is held *)

\* What one loop has.
Has(p) == Msgs(arriving[p]) \union Msgs(batch[p])

LEMMA HeldIs ==
  /\ Held = Msgs(queue) \union unqueued \union retained \union hand \union naks
            \union UNION {Has(p) : p \in Loops}
  /\ Held' = Msgs(queue') \union unqueued' \union retained' \union hand' \union naks'
             \union UNION {Has(p)' : p \in Loops'}
BY Zenon DEF Held, Has

\* A step that changes the loops of one partition only.
LEMMA OneLoop ==
  ASSUME NatsTypeOK, NEW p \in Loops, UNCHANGED mode,
         \A q \in Loops \ {p} : arriving'[q] = arriving[q] /\ batch'[q] = batch[q]
  PROVE  /\ UNION {Has(q) : q \in Loops} = Has(p) \union UNION {Has(q) : q \in Loops \ {p}}
         /\ UNION {Has(q)' : q \in Loops'} = Has(p)' \union UNION {Has(q) : q \in Loops \ {p}}
<1>1. Loops' = Loops BY Zenon DEF Loops
<1>2. \A q \in Loops \ {p} : Has(q)' = Has(q) BY Zenon DEF Has
<1> QED BY <1>1, <1>2, Zenon

\* The server hands a delivery over; everything else only moves or drops one.
LEMMA DeliverHolds ==
  ASSUME NatsTypeOK, NEW p \in Loops, NEW o \in Offsets, Deliver(p, o)
  PROVE  Held' = Held \union {<<o, count[o] + 1>>}
<1>1. p \in Tasks BY LoopsAreTasks, Zenon
<1>2. o \in Nat \ {0} /\ count[o] + 1 \in Nat \ {0} BY DEF NatsTypeOK, Offsets
<1>3. <<o, count[o] + 1>> \in Delivery BY <1>2, Zenon DEF Delivery
<1>4. arriving[p] \in Seq(Delivery) /\ arriving'[p] = Append(arriving[p], <<o, count[o] + 1>>)
      /\ batch'[p] = batch[p]
  BY <1>1, Zenon DEF NatsTypeOK, Deliver
<1>5. Msgs(arriving'[p]) = Msgs(arriving[p]) \union {<<o, count[o] + 1>>}
  BY <1>3, <1>4, MsgsAppend, SentinelsApart
<1>6. Has(p)' = Has(p) \union {<<o, count[o] + 1>>} BY <1>4, <1>5, Zenon DEF Has
<1>7. \A q \in Loops \ {p} : arriving'[q] = arriving[q] /\ batch'[q] = batch[q]
  BY LoopsAreTasks, Zenon DEF NatsTypeOK, Deliver
<1>8. UNCHANGED <<mode, queue, unqueued, retained, hand, naks>> BY Zenon DEF Deliver
<1> QED BY <1>6, <1>7, <1>8, OneLoop, HeldIs, Zenon

\* The steps that leave what is held where it is.
held == <<mode, queue, unqueued, retained, hand, naks, arriving, batch>>

LEMMA HeldSame == ASSUME UNCHANGED held PROVE Held' = Held
BY DEF held, Held, Msgs, Loops

\* What a loop receives, queues or leaves over is moved, not lost.
LEMMA LoopHolds ==
  ASSUME NatsTypeOK, NEW p \in Loops, Fetch(p) \/ Put(p) \/ PutFailed(p) \/ Cancelled(p)
  PROVE  Held' \subseteq Held /\ (mode = "durable" => Held' = Held)
<1>t. /\ p \in Tasks /\ arriving[p] \in Seq(Delivery) /\ batch[p] \in Seq(Delivery)
      /\ queue \in Seq(Delivery \union {FAILED, CLOSED})
  BY LoopsAreTasks, Zenon DEF NatsTypeOK
<1>o. \A q \in Loops \ {p} : arriving'[q] = arriving[q] /\ batch'[q] = batch[q]
  BY LoopsAreTasks, Zenon DEF NatsTypeOK, Fetch, Put, PutFailed, Cancelled
<1>m. UNCHANGED <<mode, retained, hand, naks>> BY Zenon DEF Fetch, Put, PutFailed, Cancelled
<1>1. CASE Fetch(p)
  <2>1. batch[p] = <<>> /\ batch'[p] = arriving[p] /\ arriving'[p] = <<>>
        /\ UNCHANGED <<queue, unqueued>>
    BY <1>1, <1>t, Zenon DEF Fetch, NatsTypeOK
  <2>2. Has(p)' = Has(p) BY <2>1, MsgsEmpty, Zenon DEF Has
  <2> QED BY <1>o, <1>m, <2>1, <2>2, OneLoop, HeldIs, Zenon
<1>2. CASE Put(p)
  <2>1. /\ batch[p] # <<>> /\ batch'[p] = Tail(batch[p]) /\ arriving'[p] = arriving[p]
        /\ queue' = Append(queue, Head(batch[p])) /\ UNCHANGED unqueued
    BY <1>2, <1>t, Zenon DEF Put, NatsTypeOK
  <2>2. Head(batch[p]) \in Delivery
        /\ Msgs(batch[p]) = Msgs(batch'[p]) \union {Head(batch[p])}
    <3>1. Head(batch[p]) \in Delivery
          /\ Msgs(batch[p]) = Msgs(Tail(batch[p])) \union ({Head(batch[p])} \ {FAILED, CLOSED})
      BY <1>t, <2>1, MsgsTail, Zenon
    <3> QED BY <2>1, <3>1, SentinelsApart, Zenon
  <2>3. Msgs(queue') = Msgs(queue) \union {Head(batch[p])}
    BY <1>t, <2>1, <2>2, MsgsAppend, SentinelsApart
  <2>4. Has(p) = Has(p)' \union {Head(batch[p])} BY <2>1, <2>2, Zenon DEF Has
  <2> QED BY <1>o, <1>m, <2>1, <2>3, <2>4, OneLoop, HeldIs, Zenon
<1>3. CASE PutFailed(p)
  <2>1. Msgs(queue') = Msgs(queue) BY <1>3, <1>t, MsgsSentinel, Zenon DEF PutFailed
  <2>2. UNCHANGED <<unqueued, arriving, batch>> BY <1>3, Zenon DEF PutFailed
  <2>3. Has(p)' = Has(p) BY <2>2, Zenon DEF Has
  <2> QED BY <1>o, <1>m, <2>1, <2>2, <2>3, OneLoop, HeldIs, Zenon
<1>4. CASE Cancelled(p)
  <2>1. /\ batch'[p] = <<>> /\ arriving'[p] = arriving[p] /\ UNCHANGED queue
        /\ unqueued' = IF mode = "durable" THEN unqueued \union Msgs(batch[p]) ELSE unqueued
    BY <1>4, <1>t, Zenon DEF Cancelled, NatsTypeOK
  <2>2. Has(p) = Has(p)' \union Msgs(batch[p]) BY <2>1, MsgsEmpty, Zenon DEF Has
  <2> QED BY <1>o, <1>m, <2>1, <2>2, OneLoop, HeldIs
<1> QED BY <1>1, <1>2, <1>3, <1>4, Zenon

\* Something of every offset that was held is held still, or it is settled,
\* deliverable or given up.
Answered(M) ==
  \A m \in M : (\E n \in Held' : n[1] = m[1]) \/ m[1] \in acked' \union due' \union kept'

\* The iterator, ack() and close() drop only what is answered for.
LEMMA ReaderHolds ==
  ASSUME NatsTypeOK, Ended,
         Take \/ Discard \/ Confirmed \/ Drain \/ CloseEnd \/ (\E m \in naks : Nak(m))
  PROVE  Held' \subseteq Held /\ (mode = "durable" => Answered(Held))
<1>t. queue \in Seq(Delivery \union {FAILED, CLOSED}) BY Zenon DEF NatsTypeOK
<1>l. UNCHANGED <<mode, arriving, batch>>
  BY Zenon DEF Take, Discard, Confirmed, Drain, CloseEnd, Nak
<1>u. UNION {Has(p)' : p \in Loops'} = UNION {Has(p) : p \in Loops} BY <1>l, Zenon DEF Has, Loops
<1>1. CASE Take
  <2>1. queue # <<>> /\ queue' = Tail(queue) /\ hand = {} /\ UNCHANGED <<unqueued, naks>>
    BY <1>1, Zenon DEF Take
  <2>2. Msgs(queue) = Msgs(queue') \union ({Head(queue)} \ {FAILED, CLOSED})
    BY <1>t, <2>1, MsgsTail, Zenon
  <2>3. CASE Head(queue) \in {FAILED, CLOSED}
    <3>1. UNCHANGED <<hand, retained>> BY <1>1, <2>3, Zenon DEF Take
    <3> QED BY <1>u, <2>1, <2>2, <2>3, <3>1, HeldIs, Zenon DEF Answered
  <2>4. CASE Head(queue) \notin {FAILED, CLOSED} /\ log[Head(queue)[1]] \in Malformed
    <3>1. hand' = (IF mode = "durable" THEN {Head(queue)} ELSE {}) /\ UNCHANGED retained
      BY <1>1, <2>4, Zenon DEF Take
    <3> QED BY <1>u, <2>1, <2>2, <2>4, <3>1, HeldIs DEF Answered
  <2>5. CASE Head(queue) \notin {FAILED, CLOSED} /\ log[Head(queue)[1]] \notin Malformed
    <3>1. retained' = (IF mode = "durable" THEN retain(Head(queue)) ELSE retained)
          /\ UNCHANGED hand
      BY <1>1, <2>5, Zenon DEF Take
    <3>2. Held' \subseteq Held
      BY <1>u, <2>1, <2>2, <2>5, <3>1, HeldIs DEF retain
    <3>3. ASSUME mode = "durable", NEW m \in Held PROVE \E n \in Held' : n[1] = m[1]
      <4>1. Head(queue) \in Held' BY <3>1, <3>3, HeldIs, Zenon DEF retain
      <4>2. CASE m[1] = Head(queue)[1] BY <4>1, <4>2, Zenon
      <4>3. CASE m[1] # Head(queue)[1]
        <5>1. m \in Held' BY <1>u, <2>1, <2>2, <3>1, <3>3, <4>3, HeldIs, Zenon DEF retain
        <5> QED BY <5>1, Zenon
      <4> QED BY <4>2, <4>3, Zenon
    <3> QED BY <3>2, <3>3, Zenon DEF Answered
  <2> QED BY <2>3, <2>4, <2>5, Zenon
<1>2. CASE Discard
  <2>1. hand' = {} /\ UNCHANGED <<queue, unqueued, retained, naks>> BY <1>2, Zenon DEF Discard
  <2>2. \A m \in hand : m[1] \in acked' \union kept' BY <1>2, Zenon DEF Discard
  <2> QED BY <1>u, <2>1, <2>2, HeldIs, Zenon DEF Answered
<1>3. CASE Confirmed
  <2>1. UNCHANGED <<queue, unqueued, hand, naks, acked>> /\ retained' \subseteq retained
    BY <1>3, Zenon DEF Confirmed
  <2>2. \A m \in retained \ retained' : m[1] \in acked' BY <1>3, Zenon DEF Confirmed
  <2> QED BY <1>u, <2>1, <2>2, HeldIs, Zenon DEF Answered
<1>4. CASE Drain
  <2>1. /\ queue' = <<>> /\ unqueued' = {} /\ retained' = {} /\ UNCHANGED hand /\ naks = {}
        /\ naks' = IF mode = "durable" THEN Msgs(queue) \union unqueued \union retained ELSE {}
    BY <1>4, Zenon DEF Drain, Ended
  <2> QED BY <1>u, <2>1, MsgsEmpty, HeldIs, Zenon DEF Answered
<1>5. CASE CloseEnd
  <2>1. Msgs(queue') = Msgs(queue) BY <1>5, <1>t, MsgsSentinel, Zenon DEF CloseEnd
  <2>2. UNCHANGED <<unqueued, retained, hand, naks>> BY <1>5, Zenon DEF CloseEnd
  <2> QED BY <1>u, <2>1, <2>2, HeldIs, Zenon DEF Answered
<1>6. ASSUME NEW m \in naks, Nak(m) PROVE Held' \subseteq Held /\ Answered(Held)
  <2>1. naks' = naks \ {m} /\ UNCHANGED <<queue, unqueued, retained, hand>> BY <1>6, Zenon DEF Nak
  <2>2. m[1] \in acked' \union due' \union kept' BY <1>6, Zenon DEF Nak
  <2> QED BY <1>u, <2>1, <2>2, HeldIs, Zenon DEF Answered
<1> QED BY <1>1, <1>2, <1>3, <1>4, <1>5, <1>6, Zenon

\* A step that neither delivers, moves nor drops anything.
Still ==
  \/ \E id \in Ids : publish(id) \/ Lapse(id)
  \/ \E o \in Offsets : AckWait(o)
  \/ \E p \in Loops : FetchFails(p)
  \/ \E S \in SUBSET {m[1] : m \in retained} : AckCall(S)
  \/ Bind \/ Assigned \/ AssignFails \/ Settle \/ AckTimeout \/ Close
  \/ \E o \in late : LateAck(o)
  \/ UNCHANGED vars

LEMMA StillHolds == ASSUME Still PROVE UNCHANGED held
BY Zenon
DEF Still, held, publish, Lapse, AckWait, FetchFails, AckCall, Bind, Assigned, AssignFails,
       Settle, AckTimeout, Close, LateAck, vars

LEMMA NatsSteps ==
  ASSUME [NatsNext]_vars
  PROVE  \/ Still \/ Renew
         \/ \E p \in Loops, o \in Offsets : Deliver(p, o)
         \/ \E p \in Loops : Fetch(p) \/ Put(p) \/ PutFailed(p) \/ Cancelled(p)
         \/ Take \/ Discard \/ Confirmed \/ Drain \/ CloseEnd \/ (\E m \in naks : Nak(m))
BY Zenon DEF NatsNext, Progress, Still

LEMMA RenewHolds == ASSUME Renew PROVE Held' = {}
<1>1. \A p \in Loops' : Has(p)' = {} BY MsgsEmpty, Zenon DEF Renew, Has, Each, Loops
<1> QED BY <1>1, HeldIs, MsgsEmpty, Zenon DEF Renew

\* Nothing is held but what was, or what is being delivered.
LEMMA HeldNext ==
  ASSUME NatsTypeOK, Ended, [NatsNext]_vars
  PROVE  \A n \in Held' : n \in Held \/ \E p \in Loops, o \in Offsets :
                                           Deliver(p, o) /\ n = <<o, count[o] + 1>>
<1>1. CASE Still BY <1>1, StillHolds, HeldSame, Zenon
<1>2. CASE Renew BY <1>2, RenewHolds, Zenon
<1>3. CASE \E p \in Loops, o \in Offsets : Deliver(p, o) BY <1>3, DeliverHolds, Zenon
<1>4. CASE \E p \in Loops : Fetch(p) \/ Put(p) \/ PutFailed(p) \/ Cancelled(p)
  BY <1>4, LoopHolds, Zenon
<1>5. CASE Take \/ Discard \/ Confirmed \/ Drain \/ CloseEnd \/ (\E m \in naks : Nak(m))
  BY <1>5, ReaderHolds, Zenon
<1> QED BY <1>1, <1>2, <1>3, <1>4, <1>5, NatsSteps, Zenon

-----------------------------------------------------------------------------
(* close() *)

LEMMA AccountedStep ==
  ASSUME NatsTypeOK, Accounted, Ended, [NatsNext]_vars
  PROVE  Accounted'
<1> SUFFICES ASSUME mode' = "durable", NEW o \in reached'
             PROVE  o \in acked' \union due' \union kept' \/ \E m \in Held' : m[1] = o
  BY Zenon DEF Accounted
<1>1. CASE Still
  <2>1. Held' = Held /\ mode = "durable" BY <1>1, StillHolds, HeldSame, Zenon DEF held
  <2>2. UNCHANGED <<reached, kept>> /\ acked \union due \subseteq acked' \union due'
    BY <1>1, Zenon
    DEF Still, publish, Lapse, AckWait, FetchFails, AckCall, Bind, Assigned, AssignFails,
        Settle, AckTimeout, Close, LateAck, vars
  <2> QED BY <2>1, <2>2, Zenon DEF Accounted
<1>2. CASE Renew BY <1>2, Zenon DEF Renew
<1>3. ASSUME NEW p \in Loops, NEW q \in Offsets, Deliver(p, q)
      PROVE  o \in acked' \union due' \union kept' \/ \E m \in Held' : m[1] = o
  <2>1. <<q, count[q] + 1>> \in Held' /\ Held \subseteq Held' BY <1>3, DeliverHolds, Zenon
  <2>2. UNCHANGED <<mode, reached, kept, acked>> /\ due' = due \ {q} BY <1>3, Zenon DEF Deliver
  <2>3. <<q, count[q] + 1>>[1] = q BY Zenon
  <2> QED BY <2>1, <2>2, <2>3, Zenon DEF Accounted
<1>4. ASSUME NEW p \in Loops, Fetch(p) \/ Put(p) \/ PutFailed(p) \/ Cancelled(p)
      PROVE  o \in acked' \union due' \union kept' \/ \E m \in Held' : m[1] = o
  <2>1. UNCHANGED <<mode, kept, acked, due>> BY <1>4, Zenon DEF Fetch, Put, PutFailed, Cancelled
  <2>2. Held' = Held BY <1>4, <2>1, LoopHolds, Zenon
  <2>3. reached' \subseteq reached \union {m[1] : m \in Msgs(arriving[p])}
    BY <1>4, Zenon DEF Fetch, Put, PutFailed, Cancelled
  <2>4. Msgs(arriving[p]) \subseteq Held BY DEF Held
  <2> QED BY <2>1, <2>2, <2>3, <2>4, Zenon DEF Accounted
<1>5. CASE Take \/ Discard \/ Confirmed \/ Drain \/ CloseEnd \/ (\E m \in naks : Nak(m))
  <2>1. /\ UNCHANGED <<mode, reached>>
        /\ acked \union due \union kept \subseteq acked' \union due' \union kept'
    BY <1>5, Zenon DEF Take, Discard, Confirmed, Drain, CloseEnd, Nak
  <2>2. Answered(Held) BY <1>5, <2>1, ReaderHolds, Zenon
  <2> QED BY <2>1, <2>2, Zenon DEF Accounted, Answered
<1> QED BY <1>1, <1>2, <1>3, <1>4, <1>5, NatsSteps, Zenon

LEMMA EndedStep ==
  ASSUME NatsTypeOK, Ended, [NatsNext]_vars
  PROVE  Ended'
<1> USE DEF Ended
<1>t. /\ batch \in [Tasks -> Seq(Delivery)] /\ Loops \subseteq Tasks
      /\ pump \in [Tasks -> {"off", "fetch", "failing", "done"}]
      /\ queue \in Seq(Delivery \union {FAILED, CLOSED})
  BY LoopsAreTasks, Zenon DEF NatsTypeOK
<1>l. ASSUME UNCHANGED mode PROVE Loops' = Loops BY <1>l, Zenon DEF Loops
<1>1. CASE Still
  <2>1. CASE UNCHANGED <<mode, pump, batch, unqueued, retained, queue, naks, ended, life>>
    BY <2>1, <1>l, Zenon
  <2>2. CASE Assigned BY <2>2, <1>l, <1>t, Zenon DEF Assigned
  <2>3. CASE \E p \in Loops : FetchFails(p) BY <2>3, <1>l, <1>t, Zenon DEF FetchFails
  <2>4. CASE Bind \/ AssignFails \/ Close BY <2>4, <1>l, Zenon DEF Bind, AssignFails, Close
  <2> QED
    BY <1>1, <2>1, <2>2, <2>3, <2>4, Zenon
    DEF Still, publish, Lapse, AckWait, AckCall, Settle, AckTimeout, LateAck, vars
<1>2. CASE Renew BY <1>2, <1>l, <1>t, Zenon DEF Renew, Each, Tasks, Loops
<1>3. CASE \E p \in Loops, o \in Offsets : Deliver(p, o) BY <1>3, <1>l, Zenon DEF Deliver
<1>4. ASSUME NEW p \in Loops, Fetch(p) \/ Put(p) \/ PutFailed(p) \/ Cancelled(p) PROVE Ended'
  <2>1. CASE Fetch(p) BY <2>1, <1>l, <1>t, Zenon DEF Fetch
  <2>2. CASE Put(p) BY <2>2, <1>l, <1>t, Zenon DEF Put
  <2>3. CASE PutFailed(p) BY <2>3, <1>l, <1>t, Zenon DEF PutFailed
  <2>4. CASE Cancelled(p) BY <2>4, <1>l, <1>t, Zenon DEF Cancelled
  <2> QED BY <1>4, <2>1, <2>2, <2>3, <2>4, Zenon
<1>5. CASE Take
  <2>1. UNCHANGED <<mode, pump, batch, unqueued, naks, life>> BY <1>5, Zenon DEF Take
  <2>2. queue # <<>> /\ queue' = Tail(queue) /\ ended = "no" BY <1>5, Zenon DEF Take
  <2>3. ASSUME life = "closed"
        PROVE  queue' = <<>> /\ ended' # "no" /\ UNCHANGED retained
    <3>1. queue = <<CLOSED>> BY <2>2, <2>3, Zenon
    <3>2. Head(queue) = CLOSED /\ Tail(queue) = <<>> BY <3>1
    <3> QED BY <1>5, <2>2, <3>2, Zenon DEF Take
  <2> QED BY <1>l, <2>1, <2>2, <2>3, Zenon
<1>6. CASE Discard BY <1>6, <1>l, Zenon DEF Discard
<1>7. CASE Confirmed BY <1>7, <1>l, Zenon DEF Confirmed
<1>8. CASE Drain BY <1>8, <1>l, Zenon DEF Drain
<1>9. CASE CloseEnd
  <2>1. queue' = <<CLOSED>> BY <1>9 DEF CloseEnd
  <2> QED BY <1>9, <1>l, <2>1, Zenon DEF CloseEnd
<1>10. CASE \E m \in naks : Nak(m) BY <1>10, <1>l, Zenon DEF Nak
<1> QED BY <1>1, <1>2, <1>3, <1>4, <1>5, <1>6, <1>7, <1>8, <1>9, <1>10, NatsSteps, Zenon

-----------------------------------------------------------------------------
(* The contract *)

LEMMA LoggedStep ==
  ASSUME NatsTypeOK, Logged, Ended, [NatsNext]_vars
  PROVE  Logged'
<1>t. /\ log \in Seq(Ids) /\ queue \in Seq(Delivery \union {FAILED, CLOSED})
      /\ acking \in Seq(Offsets)
  BY Zenon DEF NatsTypeOK
<1>a. acking # <<>> => Head(acking) \in yielded
  <2>1. acking # <<>> => Head(acking) = acking[1] /\ 1 \in 1 .. Len(acking) BY <1>t
  <2> QED BY <2>1, Zenon DEF Logged
<1>b. acking # <<>> => \A i \in 1 .. Len(Tail(acking)) : Tail(acking)[i] \in yielded
  <2> SUFFICES ASSUME acking # <<>>, NEW i \in 1 .. Len(Tail(acking))
               PROVE  Tail(acking)[i] \in yielded
    BY Zenon
  <2>1. Len(Tail(acking)) = Len(acking) - 1 /\ Tail(acking)[i] = acking[i + 1]
    BY <1>t, TailIs, Zenon
  <2>2. i + 1 \in 1 .. Len(acking) BY <1>t, <2>1
  <2> QED BY <2>1, <2>2, Zenon DEF Logged
<1>1. ASSUME NEW id \in Ids, publish(id) PROVE Logged'
  <2>1. Len(log) \in Nat /\ Len(log') \in Nat /\ Len(log') >= Len(log)
    BY <1>1, <1>t DEF publish
  <2>2. Offsets \subseteq Offsets' /\ \A o \in Offsets : log'[o] = log[o]
    BY <1>1, <1>t, <2>1 DEF publish, Offsets
  <2>3. \E o \in Offsets' : log'[o] = id
    <3>1. CASE id \in window BY <3>1, <1>1, Zenon DEF publish, Logged, Offsets
    <3>2. CASE id \notin window BY <3>2, <1>1, <1>t DEF publish, Offsets
    <3> QED BY <3>1, <3>2, Zenon
  <2>4. Held' = Held /\ hand \subseteq Held BY <1>1, StillHolds, HeldSame, Zenon DEF Still, Held
  <2>5. \A i \in window' : \E o \in Offsets' : log'[o] = i
    BY <1>1, <2>2, <2>3, Zenon DEF publish, Logged
  <2> QED BY <1>1, <2>2, <2>4, <2>5, Zenon DEF publish, Logged
<1>2. ASSUME log' = log, window' \subseteq window,
             (yielded' \union acked' \union due') \subseteq Offsets, late' \subseteq yielded',
             yielded \subseteq yielded',
             \A m \in Held' : m \in Held \/ m[1] \in Offsets,
             \A m \in retained' : m \in retained \/ m[1] \in yielded',
             acking' = acking \/ \A i \in 1 .. Len(acking') : acking'[i] \in yielded,
             hand' \in {hand, {}}
      PROVE  Logged'
  <2>1. Offsets' = Offsets BY <1>2, Zenon DEF Offsets
  <2> QED BY <1>2, <2>1, Zenon DEF Logged
<1>h. \A m \in Held' : m \in Held \/ m[1] \in Offsets BY HeldNext
<1>3. CASE Take
  <2>1. queue # <<>> /\ UNCHANGED <<log, window, acked, due, late, acking>>
    BY <1>3, Zenon DEF Take
  <2>2. Head(queue) \notin {FAILED, CLOSED} => Head(queue) \in Held
    BY <1>t, <2>1, MsgsTail DEF Held
  <2>3. yielded' \subseteq Offsets /\ yielded \subseteq yielded'
    BY <1>3, <2>2 DEF Take, Logged
  <2>4. \A m \in retained' : m \in retained \/ m[1] \in yielded' BY <1>3, Zenon DEF Take, retain
  <2>5. \A m \in hand' : hand' = {m} /\ log[m[1]] \in Malformed
    BY <1>3, Zenon DEF Take, Logged
  <2>6. Offsets' = Offsets BY <2>1, Zenon DEF Offsets
  <2> QED BY <1>h, <2>1, <2>3, <2>4, <2>5, <2>6, Zenon DEF Logged
<1>4. CASE Discard
  <2>1. hand \subseteq Held BY Zenon DEF Held
  <2>2. acked' \subseteq Offsets /\ due' \subseteq due BY <1>4, <2>1 DEF Discard, Logged
  <2> QED BY <1>2, <1>4, <1>h, <2>2, Zenon DEF Discard, Logged
<1>5. ASSUME NEW S \in SUBSET {m[1] : m \in retained}, AckCall(S) PROVE Logged'
  <2>1. S \subseteq Offsets BY DEF Logged, Held
  <2>2. PICK n \in Offsets : acking' \in [1 .. n -> S] BY <1>5, CallNames, Zenon
  <2>3. \A i \in DOMAIN acking' : acking'[i] \in yielded BY <2>2 DEF Logged
  <2>4. acking' \in Seq(Offsets) BY <1>5, AckTypeStep, Zenon DEF NatsTypeOK, AckCall, Offsets
  <2>5. \A i \in 1 .. Len(acking') : acking'[i] \in yielded BY <2>3, <2>4
  <2> QED BY <1>2, <1>5, <1>h, <2>5, Zenon DEF AckCall, Logged
<1>6. CASE Settle
  <2>1. UNCHANGED <<log, window, yielded, late, retained, acking, hand>> BY <1>6, Zenon DEF Settle
  <2>2. acked' \union due' \subseteq Offsets BY <1>6, <1>a DEF Settle, Logged
  <2> QED BY <1>2, <1>h, <2>1, <2>2, Zenon DEF Logged
<1>7. CASE Confirmed
  <2>1. \A i \in 1 .. Len(acking') : acking'[i] \in yielded BY <1>7, <1>b DEF Confirmed
  <2>2. UNCHANGED <<log, window, yielded, acked, due, late, hand>> /\ retained' \subseteq retained
    BY <1>7, Zenon DEF Confirmed
  <2> QED BY <1>2, <1>h, <2>1, <2>2, Zenon DEF Logged
<1>8. CASE AckTimeout
  <2>1. UNCHANGED <<log, window, yielded, acked, due, retained, hand>> /\ acking' = <<>>
    BY <1>8, Zenon DEF AckTimeout
  <2>2. late' \subseteq yielded BY <1>8, <1>a, Zenon DEF AckTimeout, Logged
  <2>3. \A i \in 1 .. Len(acking') : acking'[i] \in yielded BY <2>1
  <2> QED BY <1>2, <1>h, <2>1, <2>2, <2>3, Zenon DEF Logged
<1>9. ASSUME NEW o \in late, LateAck(o) PROVE Logged'
  <2>1. UNCHANGED <<log, window, yielded, retained, acking, hand>> BY <1>9, Zenon DEF LateAck
  <2>2. acked' \union due' \subseteq Offsets /\ late' \subseteq yielded
    BY <1>9, Zenon DEF LateAck, Logged
  <2> QED BY <1>2, <1>h, <2>1, <2>2, Zenon DEF Logged
<1>10. CASE Renew BY <1>2, <1>10, <1>a, <1>h DEF Renew, Logged
<1>11. CASE UNCHANGED <<log, yielded, acked, late, retained, acking, hand>>
            /\ window' \subseteq window /\ due' \subseteq Offsets
  BY <1>2, <1>11, <1>h, Zenon DEF Logged
<1>12. CASE \/ \E id \in Ids : Lapse(id)
            \/ \E o \in Offsets : (\E p \in Loops : Deliver(p, o)) \/ AckWait(o)
            \/ \E p \in Loops : Fetch(p) \/ Put(p) \/ PutFailed(p) \/ Cancelled(p) \/ FetchFails(p)
            \/ Bind \/ Assigned \/ AssignFails \/ Close \/ CloseEnd \/ UNCHANGED vars
  BY <1>11, <1>12, Zenon
  DEF Lapse, Deliver, AckWait, Fetch, Put, PutFailed, Cancelled, FetchFails, Bind, Assigned,
      AssignFails, Close, CloseEnd, vars, Logged
<1>13. CASE Drain BY <1>2, <1>13, <1>h, Zenon DEF Drain, Logged
<1>14. ASSUME NEW m \in naks, Nak(m) PROVE Logged'
  <2>1. m[1] \in Offsets BY Zenon DEF Logged, Held
  <2> QED BY <1>11, <1>14, <2>1, Zenon DEF Nak, Logged
<1> QED
  BY <1>1, <1>3, <1>4, <1>5, <1>6, <1>7, <1>8, <1>9, <1>10, <1>12, <1>13, <1>14, Zenon
  DEF NatsNext, Progress

LEMMA NatsInvStep == NatsInv /\ [NatsNext]_vars => NatsInv'
BY NatsTypeStep, LoggedStep, AccountedStep, EndedStep, Zenon DEF NatsInv

LEMMA NatsInvInit == NatsInit => NatsInv
<1> SUFFICES ASSUME NatsInit PROVE NatsInv BY Zenon
<1>1. NatsTypeOK BY TypeInit, Zenon
<1>2. Held = {} BY MsgsEmpty DEF NatsInit, Held, Each, Loops
<1>3. Logged BY <1>2 DEF NatsInit, Logged
<1>4. Accounted BY Zenon DEF NatsInit, Accounted
<1>5. Ended BY Zenon DEF NatsInit, Ended, Each, Loops
<1> QED BY <1>1, <1>3, <1>4, <1>5, Zenon DEF NatsInv

\* close() withholds nothing from the group and ends the iterator, whatever was
\* in flight in the loops, the queue and an ack() call when it was called, and
\* whichever calls failed (_pump_pull, _consume, ack, close).
THEOREM CloseWithholdsNothing == NatsSpec => []CloseSound
<1>1. NatsInv => CloseSound
  <2> SUFFICES ASSUME NatsInv PROVE CloseSound BY Zenon
  <2> USE DEF NatsInv, Ended
  <2>1. CloseEndsIterator
    <3>1. life = "naking" => Len(queue) < QUEUE_CAPACITY BY NatsAssumption
    <3>2. life = "closed" /\ ended = "no" => queue = <<CLOSED>> BY Zenon
    <3>3. <<CLOSED>> # <<>> /\ <<CLOSED>>[Len(<<CLOSED>>)] = CLOSED BY Zenon
    <3> QED BY <3>1, <3>2, <3>3, Zenon DEF CloseEndsIterator
  <2>2. ASSUME life = "closed", mode = "durable" PROVE ReturnedAtClose
    <3>1. Msgs(<<CLOSED>>) = {} BY DEF Msgs
    <3>2. Msgs(queue) = {} BY <2>2, <3>1, MsgsEmpty, Zenon
    <3>3. \A p \in Loops : Msgs(batch[p]) = {} BY <2>2, MsgsEmpty, Zenon
    <3>4. Held = hand \union UNION {Msgs(arriving[p]) : p \in Loops}
      BY <2>2, <3>2, <3>3 DEF Held
    <3> QED BY <2>2, <3>4 DEF Accounted, ReturnedAtClose
  <2> QED BY <2>1, <2>2, Zenon DEF CloseSound, ReturnedAtClose
<1> QED BY <1>1, NatsInvInit, NatsInvStep, PTL DEF NatsSpec

\* Every step of the transport is a step of the contract, or none of its business.
LEMMA ContractStep ==
  ASSUME NatsInv, [NatsNext]_vars
  PROVE  [Contract!Next]_(Contract!vars)
<1> USE DEF NatsInv
<1>v. ASSUME UNCHANGED <<log, yielded, acked>> PROVE UNCHANGED Contract!vars
  BY <1>v, Zenon DEF Contract!vars
<1>o. Contract!Offsets = Offsets BY Zenon DEF Contract!Offsets, Offsets
<1>y. yielded \subseteq Offsets BY Zenon DEF Logged
<1>1. ASSUME NEW id \in Ids, publish(id) PROVE Contract!Next
  <2>1. Contract!Publish(id)
    BY <1>1, Zenon
    DEF publish, Logged, Offsets, Contract!Publish, Contract!holds, Contract!Offsets
  <2> QED BY <2>1, Zenon DEF Contract!Next
<1>2. CASE Take
  <2>1. queue # <<>> /\ queue \in Seq(Delivery \union {FAILED, CLOSED})
    BY <1>2, Zenon DEF Take, NatsTypeOK
  <2>2. Head(queue) \notin {FAILED, CLOSED} => Head(queue)[1] \in Offsets
    BY <2>1, MsgsTail DEF Held, Logged
  <2>3. UNCHANGED <<log, acked>> BY <1>2, Zenon DEF Take
  <2>4. CASE Head(queue) \notin {FAILED, CLOSED} /\ log[Head(queue)[1]] \notin Malformed
    <3>1. Contract!Yield(Head(queue)[1]) BY <1>2, <2>3, <2>4, Zenon DEF Take, Contract!Yield
    <3> QED BY <3>1, <2>2, <2>4, <1>o, Zenon DEF Contract!Next
  <2>5. CASE Head(queue) \in {FAILED, CLOSED} \/ log[Head(queue)[1]] \in Malformed
    BY <1>2, <1>v, <2>3, <2>5, Zenon DEF Take
  <2> QED BY <2>4, <2>5, Zenon
<1>3. CASE Discard
  <2>1. PICK m \in hand : hand = {m} /\ log[m[1]] \in Malformed BY <1>3, Zenon DEF Discard, Logged
  <2>2. m[1] \in Offsets BY Zenon DEF Held, Logged
  <2>3. UNCHANGED <<log, yielded>> /\ acked' \in {acked, acked \union {m[1]}}
    BY <1>3, <2>1, Zenon DEF Discard
  <2>4. CASE acked' = acked \union {m[1]}
    BY <1>o, <2>1, <2>2, <2>3, <2>4, Zenon DEF Contract!Next, Contract!Discard
  <2> QED BY <1>v, <2>3, <2>4, Zenon
<1>4. ASSUME NEW o \in yielded, acked' = acked \union {o}, UNCHANGED <<log, yielded>>
      PROVE  Contract!Next
  <2>1. Contract!Ack({o}) BY <1>4, Zenon DEF Contract!Ack
  <2>2. {o} \in SUBSET Contract!Offsets BY <1>o, <1>y, Zenon
  <2> QED BY <2>1, <2>2, Zenon DEF Contract!Next
<1>5. CASE Settle
  <2>1. acking \in Seq(Offsets) /\ acking # <<>> BY <1>5, Zenon DEF Settle, NatsTypeOK
  <2>2. Head(acking) = acking[1] /\ 1 \in 1 .. Len(acking) BY <2>1
  <2>3. Head(acking) \in yielded BY <2>2, Zenon DEF Logged
  <2> QED BY <1>4, <1>5, <2>3, Zenon DEF Settle
<1>6. ASSUME NEW o \in late, LateAck(o) PROVE Contract!Next
  BY <1>4, <1>6, Zenon DEF LateAck, Logged
<1>7. CASE UNCHANGED <<log, yielded, acked>> BY <1>7, <1>v, Zenon
<1> QED
  BY <1>1, <1>2, <1>3, <1>5, <1>6, <1>7, Zenon
  DEF NatsNext, Progress, Lapse, Deliver, AckWait, Fetch, Put, PutFailed, Cancelled, FetchFails,
      AckCall, Bind, Assigned, AssignFails, Confirmed, AckTimeout, Close, Drain, CloseEnd, Nak,
      Renew, vars

\* The JetStream transport implements the contract of the bus interface: what is
\* yielded is in the log, and what is settled was yielded or is malformed, through
\* every redelivery, lapse of the duplicate window, late acknowledgement, failed
\* call, close and crash (NatsProducer, NatsConsumer).
THEOREM NatsKeepsContract == NatsSpec => KeepsContract
<1>1. NatsInit => Contract!Init BY Zenon DEF NatsInit, Contract!Init
<1> QED
  BY <1>1, ContractStep, NatsInvInit, NatsInvStep, PTL
  DEF NatsSpec, KeepsContract, Contract!Spec
=============================================================================
