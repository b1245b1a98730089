---------------------- MODULE AggregatorDeliveryProofs ----------------------
(***************************************************************************)
(* What a window counts and what is acknowledged, under every fault,       *)
(* stalls included: for any number of processes, IPs and observations.     *)
(***************************************************************************)
EXTENDS AggregatorOwnerProofs, TLAPS

USE DEF consumer, store, logs, window, claims, config, history

\* A process whose consumer loop still handles messages.
Handling(i) == st[i] \in {"run", "sweepFailed"}

\* The observation a process is handling.
InHand(i) == IF job[i].kind = "observation" THEN {job[i].off} ELSE {}

\* A process that has not claimed the shard yet has fetched nothing.
Unused(i) ==
  st[i] \in {"off", "leased"} =>
    queue[i] = <<>> /\ applied[i] = {} /\ \A o \in Offsets : holder[o] # i

\* What a window counted is behind the handled position, or in hand.
Counted(i) == Handling(i) => \A o \in applied[i] : o < pos[i] \/ o \in InHand(i)

CountInv == \A i \in Inst : Unused(i) /\ Counted(i)

\* What a handling process was sent and has not settled, it still has.
Sent(i) ==
  Handling(i) => \A o \in Offsets :
    js[o] = "out" /\ holder[o] = i =>
      o \in settled \/ o \in InHand(i) \/ \E n \in 1 .. Len(queue[i]) : queue[i][n] = o

\* A queued observation comes after every earlier one that is not settled.
Queued(i) ==
  Handling(i) => \A n \in 1 .. Len(queue[i]) : \A o \in Offsets :
    o < queue[i][n] =>
      o \in settled \/ o \in InHand(i) \/ \E m \in 1 .. n - 1 : queue[i][m] = o

\* Everything before the observation in hand, and everything below the handled
\* position or waiting for its acknowledgement, is settled.
Behind(i) ==
  /\ \A o \in Offsets : (\E p \in InHand(i) : o < p) => o \in settled
  /\ \A o \in Offsets : o < pos[i] => o \in settled
  /\ handled[i] \subseteq settled

SettleInv == AckedMeansSettled /\ \A i \in Inst : Sent(i) /\ Queued(i) /\ Behind(i)

-----------------------------------------------------------------------------
(* Frames *)

deliveries == <<js, holder, queue, pos, handled, applied, settled>>

\* The steps that fetch, handle, settle or acknowledge, and the end of a process.
Moves(i) ==
  \/ \E o \in Offsets : Fetch(i, o)
  \/ HandleMessage(i) \/ Divert(i) \/ FinishObservation(i)
  \/ Commit(i) \/ (\E acks \in SUBSET handled[i] : CommitFails(i, acks))
  \/ Shutdown(i) \/ Crash(i)

\* No other step of a process touches a delivery; an observation in hand is
\* dropped only by a process that will handle no more.
LEMMA QuietFrame ==
  ASSUME TypeOK, NEW i \in Inst, Process(i), ~Moves(i),
         ~ \E v \in 1 .. MaxVersion : Load(i, v)
  PROVE  /\ UNCHANGED deliveries
         /\ st'[i] \in {"off", "leased"} => st[i] \in {"off", "leased"}
         /\ Handling(i)' => Handling(i) /\ InHand(i)' = InHand(i)
         /\ InHand(i)' \subseteq InHand(i)
<1> USE DEF deliveries, Handling, InHand
<1>t. st \in [Inst -> Status] /\ job \in [Inst -> JobType] /\ \A k \in Inst : JobOK(job[k])
  BY Zenon DEF TypeOK, ProcessOK
<1>n. NoJob.kind = "none" BY Zenon DEF NoJob
<1>1. CASE Acquire(i) BY <1>1, <1>t, Zenon DEF Acquire
<1>2. CASE LoadFails(i) BY <1>2, <1>t, Zenon DEF LoadFails
<1>3. CASE BeginStop(i) BY <1>3, <1>t, Zenon DEF BeginStop
<1>4. CASE \E v \in 1 .. MaxVersion : ApplyConfig(i, v)
  BY <1>4, <1>t, <1>n DEF ApplyConfig, CanPoll, StartJob, NoJob
<1>5. CASE Sweep(i)
  <2>1. CASE RenewFails(i) BY <2>1, <1>t, Zenon DEF RenewFails
  <2>2. CASE \E dropped \in SUBSET hot[i] : Maintain(i, dropped)
    BY <2>2, <1>t, <1>n DEF Maintain, CanSweep, StartJob, NoJob
  <2> QED BY <1>5, <2>1, <2>2, Zenon DEF Sweep
<1>6. CASE WarmElapse(i) BY <1>6, Zenon DEF WarmElapse
<1>7. CASE \E ip \in IPs : Unchanged(i, ip) BY <1>7, <1>t DEF Unchanged, JobType
<1>8. CASE \E ip \in IPs : Edge(i, ip) BY <1>8, <1>t DEF Edge, JobType
<1>9. CASE Persist(i) BY <1>9, <1>t, Zenon DEF Persist, JobType
<1>10. CASE Publish(i) BY <1>10, <1>t DEF Publish, JobType
<1>11. CASE PersistFails(i) \/ PublishFails(i) \/ DivertFails(i)
  <2>1. Raise(i) /\ UNCHANGED deliveries
    BY <1>11, Zenon DEF PersistFails, PublishFails, DivertFails
  <2> QED BY <2>1, <1>t, <1>n, Zenon DEF Raise
<1>12. CASE FinishExpiry(i)
  <2>1. job[i].kind = "expiry" /\ UNCHANGED <<deliveries, st>>
    BY <1>12, Zenon DEF FinishExpiry, Done
  <2>2. job'[i].kind \in {"none", "warmup"}
    BY <1>12, <1>t, <1>n, Zenon DEF FinishExpiry, StartJob, NoJob
  <2> QED BY <2>1, <2>2, Zenon
<1>13. CASE FinishWarmup(i) BY <1>13, <1>t, <1>n, Zenon DEF FinishWarmup, Done
<1>14. CASE FinishConfig(i) BY <1>14, <1>t, <1>n, Zenon DEF FinishConfig, Done
<1> QED
  BY <1>1, <1>2, <1>3, <1>4, <1>5, <1>6, <1>7, <1>8, <1>9, <1>10, <1>11, <1>12, <1>13,
     <1>14, Zenon DEF Process, Moves, JobStep, Failure

\* A step of one process takes nothing from another, settles no less than before,
\* and sends nothing to another.
LEMMA PeersFrame ==
  ASSUME TypeOK, NEW i \in Inst, Process(i)
  PROVE  /\ settled \subseteq settled'
         /\ \A k \in Inst \ {i} :
              /\ queue'[k] = queue[k] /\ pos'[k] = pos[k]
              /\ handled'[k] = handled[k] /\ applied'[k] = applied[k]
              /\ \A o \in Offsets : holder'[o] = k => holder[o] = k
              /\ \A o \in Offsets : holder'[o] = k /\ js'[o] = "out" => js[o] = "out"
<1>t. /\ queue \in [Inst -> Seq(Offsets)] /\ pos \in [Inst -> Nat]
      /\ handled \in [Inst -> SUBSET Offsets] /\ applied \in [Inst -> SUBSET Offsets]
      /\ js \in [Offsets -> {"new", "out", "back", "acked"}]
      /\ holder \in [Offsets -> Inst \cup {None}]
  BY Zenon DEF TypeOK, ClaimsOK, WindowOK, ConsumerOK
<1>1. CASE \E o \in Offsets : Fetch(i, o) BY <1>1, <1>t DEF Fetch
<1>2. CASE HandleMessage(i)
  BY <1>2, <1>t, Zenon
  DEF HandleMessage, HandleRedelivered, HandleMalformed, HandleDivert, HandleApply, mark_handled
<1>3. CASE Divert(i) BY <1>3, <1>t, Zenon DEF Divert, mark_handled
<1>4. CASE FinishObservation(i) BY <1>4, <1>t, Zenon DEF FinishObservation, mark_handled
<1>5. CASE Commit(i) BY <1>5, <1>t, Zenon DEF Commit, Acked
<1>6. CASE \E acks \in SUBSET handled[i] : CommitFails(i, acks)
  BY <1>6, <1>t, Zenon DEF CommitFails, Acked
<1>7. CASE Shutdown(i) BY <1>7, <1>t DEF Shutdown, Stop, Close, Acked
<1>8. CASE Crash(i) BY <1>8, <1>t, Zenon DEF Crash
<1>9. CASE \E v \in 1 .. MaxVersion : Load(i, v) BY <1>9, Zenon DEF Load
<1>10. CASE ~Moves(i) /\ ~ \E v \in 1 .. MaxVersion : Load(i, v)
  BY <1>10, QuietFrame, Zenon DEF deliveries
<1> QED
  BY <1>1, <1>2, <1>3, <1>4, <1>5, <1>6, <1>7, <1>8, <1>9, <1>10, Zenon DEF Moves

-----------------------------------------------------------------------------
(* No observation is counted twice *)

LEMMA CountPeer ==
  ASSUME TypeOK, CountInv, NEW i \in Inst, Process(i), NEW k \in Inst, k # i
  PROVE  Unused(k)' /\ Counted(k)'
BY PeersFrame, OthersFrame DEF CountInv, Unused, Counted, Handling, InHand

\* Starting, finishing and refusing an observation keep the window's account.
LEMMA CountStep ==
  ASSUME TypeOK, JobsHaveWindow, CountInv, NEW i \in Inst, Process(i)
  PROVE  Unused(i)' /\ Counted(i)'
<1> USE DEF Unused, Counted, Handling
<1>t. /\ st \in [Inst -> Status] /\ job \in [Inst -> JobType]
      /\ queue \in [Inst -> Seq(Offsets)] /\ pos \in [Inst -> Nat]
      /\ applied \in [Inst -> SUBSET Offsets]
      /\ holder \in [Offsets -> Inst \cup {None}] /\ JobOK(job[i])
  BY Zenon DEF TypeOK, ProcessOK, ClaimsOK, WindowOK, ConsumerOK
<1>i. Unused(i) /\ Counted(i) BY Zenon DEF CountInv
<1>b. job[i].step # "eval" \/ job[i].kind # "none" => st[i] \in Owning \ {"leased"}
  BY BusyHasWindow, Zenon DEF HasWindow
<1>o. \A o \in Offsets : o \in Nat BY DEF Offsets
<1>1. CASE \E o \in Offsets : Fetch(i, o)
  BY <1>1, <1>t, <1>i, Zenon DEF Fetch, InHand, Alive, Owning
<1>2. CASE HandleMessage(i)
  <2>1. CanHandle(i) /\ queue[i] # <<>> /\ UNCHANGED <<st, holder>> /\ InHand(i) = {}
    BY <1>2
    DEF HandleMessage, HandleRedelivered, HandleMalformed, HandleDivert, HandleApply,
        CanHandle, InHand, NoJob
  <2>2. Unused(i)' BY <2>1, Zenon DEF CanHandle
  <2>3. \A o \in applied[i] : o < pos[i] BY <2>1, <1>i, Zenon DEF CanHandle
  <2>h. Head(queue[i]) \in Nat BY <2>1, <1>t, <1>o
  <2>4. CASE HandleRedelivered(i) \/ HandleMalformed(i)
    <3>1. pos'[i] \in Nat /\ pos'[i] >= pos[i] /\ applied' = applied
      BY <2>4, <1>t, <2>h DEF HandleRedelivered, HandleMalformed, mark_handled
    <3>2. \A o \in applied[i] : o < pos'[i] BY <2>3, <3>1, <1>t, <1>o
    <3> QED BY <2>2, <3>1, <3>2, Zenon
  <2>5. CASE HandleDivert(i) BY <2>5, <2>2, <2>3, Zenon DEF HandleDivert
  <2>6. CASE HandleApply(i)
    <3>1. InHand(i)' = {Head(queue[i])}
      BY <2>6, <1>t, Zenon DEF HandleApply, StartJob, NoJob, InHand
    <3>2. applied'[i] = applied[i] \cup {Head(queue[i])} /\ UNCHANGED pos
      BY <2>6, <1>t, Zenon DEF HandleApply
    <3> QED BY <2>2, <2>3, <3>1, <3>2, Zenon
  <2> QED BY <1>2, <2>4, <2>5, <2>6, Zenon DEF HandleMessage
<1>3. CASE Divert(i) \/ FinishObservation(i)
  <2>1. /\ mark_handled(i, job[i].off) /\ UNCHANGED <<st, holder, queue, applied>>
        /\ job[i].kind = "observation"
    BY <1>3, <1>t, Zenon DEF Divert, FinishObservation, Done, JobOK
  <2>2. st[i] \notin {"off", "leased"} BY <2>1, <1>b, Zenon DEF Owning
  <2>3. job[i].off \in Nat BY <2>1, <1>o, Zenon DEF TypeOK, ProcessOK, JobOK
  <2>4. job[i].off < pos'[i] /\ pos'[i] >= pos[i] /\ pos'[i] \in Nat
    BY <2>1, <2>3, <1>t DEF mark_handled
  <2>5. Handling(i) => \A o \in applied[i] : o < pos[i] \/ o = job[i].off
    BY <1>i, <2>1, Zenon DEF InHand
  <2>6. ASSUME Handling(i), NEW o \in applied[i] PROVE o < pos'[i]
    <3>1. o \in Nat /\ pos[i] \in Nat BY <1>t, <1>o, Zenon
    <3> QED BY <2>4, <2>5, <2>6, <3>1
  <2> QED BY <2>1, <2>2, <2>6, Zenon
<1>4. CASE Commit(i) BY <1>4, <1>i, Zenon DEF Commit, InHand
<1>5. CASE \E acks \in SUBSET handled[i] : CommitFails(i, acks)
  BY <1>5, <1>i, <1>t, Zenon DEF CommitFails, CanHandle, InHand
<1>6. CASE Shutdown(i) BY <1>6, <1>i, <1>t, Zenon DEF Shutdown, Stop, Close
<1>7. CASE Crash(i) BY <1>7, <1>t, Zenon DEF Crash
<1>8. CASE \E v \in 1 .. MaxVersion : Load(i, v) BY <1>8, <1>i, <1>t, Zenon DEF Load
<1>9. CASE ~Moves(i) /\ ~ \E v \in 1 .. MaxVersion : Load(i, v)
  BY <1>9, <1>i, QuietFrame, Zenon DEF deliveries
<1> QED BY <1>1, <1>2, <1>3, <1>4, <1>5, <1>6, <1>7, <1>8, <1>9, Zenon DEF Moves

LEMMA CountInvStep ==
  ASSUME TypeOK, JobsHaveWindow, CountInv, [Next]_vars
  PROVE  CountInv'
<1>1. ASSUME NEW i \in Inst, Process(i) PROVE CountInv'
  BY <1>1, CountStep, CountPeer, Zenon DEF CountInv
<1>2. CASE UNCHANGED <<st, job, queue, applied, pos, holder>>
  BY <1>2, Zenon DEF CountInv, Unused, Counted, Handling, InHand
<1> QED BY <1>1, <1>2, Zenon DEF Next, AckWait, LeaseLapse, PublishDoc, vars

\* Whatever is redelivered, in whatever order and to whichever process, a window
\* counts an observation once (the handled position in _handle).
THEOREM CountedOnce == Spec => NoDoubleApply
<1>1. Init => CountInv /\ JobsHaveWindow
  BY LeaseInit, ConstantsAssumption DEF Init, CountInv, Unused, Counted, Handling
<1>2. ASSUME TypeOK, JobsHaveWindow, CountInv, [Next]_vars
      PROVE  [\A i \in Inst : job[i] = NoJob /\ job'[i].kind = "observation"
                /\ job'[i].step = "eval" => job'[i].off \notin applied[i]]_vars
  <2> SUFFICES ASSUME Next, NEW i \in Inst, job[i] = NoJob, job'[i].kind = "observation",
                      job'[i].step = "eval"
               PROVE  job'[i].off \notin applied[i]
    BY <1>2, Zenon
  <2>t. /\ job \in [Inst -> JobType] /\ queue \in [Inst -> Seq(Offsets)]
        /\ pos \in [Inst -> Nat] /\ applied \in [Inst -> SUBSET Offsets]
    BY <1>2, Zenon DEF TypeOK, ProcessOK, ClaimsOK, WindowOK
  <2>n. NoJob.kind = "none" /\ NoJob.step = "eval" BY Zenon DEF NoJob
  <2>1. PICK k \in Inst : Process(k)
    BY <2>n, Zenon DEF Next, AckWait, LeaseLapse, PublishDoc
  <2>2. k = i BY <1>2, <2>1, <2>n, OthersFrame, Zenon
  <2>3. InHand(i) = {} /\ InHand(i)' # {} BY <2>n, Zenon DEF InHand
  <2>4. HandleMessage(i)
    <3>1. CASE ~Moves(i) /\ ~ \E v \in 1 .. MaxVersion : Load(i, v)
      BY <1>2, <2>1, <2>2, <2>3, <3>1, QuietFrame, Zenon
    <3>2. CASE \E v \in 1 .. MaxVersion : Load(i, v) BY <3>2, <2>n, Zenon DEF Load
    <3>3. CASE Moves(i)
      BY <3>3, <2>n, <2>t, Zenon
      DEF Moves, Fetch, Divert, FinishObservation, Commit, CommitFails, Shutdown, Stop,
          Close, Crash
    <3> QED BY <3>1, <3>2, <3>3, Zenon
  <2>5. HandleApply(i)
    <3>1. CASE HandleRedelivered(i) \/ HandleMalformed(i)
      BY <3>1, <2>n, Zenon DEF HandleRedelivered, HandleMalformed
    <3>2. CASE HandleDivert(i)
      BY <3>2, <2>t, Zenon DEF HandleDivert, StartJob, NoJob
    <3> QED BY <2>4, <3>1, <3>2, Zenon DEF HandleMessage
  <2>6. job'[i].off = Head(queue[i]) /\ Head(queue[i]) >= pos[i] /\ Handling(i)
    BY <2>5, <2>t, Zenon DEF HandleApply, StartJob, NoJob, CanHandle, Handling
  <2>7. \A o \in applied[i] : o \in Nat /\ o < pos[i]
    BY <1>2, <2>3, <2>6, <2>t DEF CountInv, Counted, Offsets
  <2> QED BY <2>6, <2>7, <2>t
<1> QED
  BY <1>1, <1>2, CountInvStep, JobsHaveWindowStep, Typed, PTL DEF Spec, NoDoubleApply

-----------------------------------------------------------------------------
(* Acknowledged means settled *)

LEMMA SettlePeer ==
  ASSUME TypeOK, SettleInv, NEW i \in Inst, Process(i), NEW k \in Inst, k # i
  PROVE  Sent(k)' /\ Queued(k)' /\ Behind(k)'
<1>1. Sent(k) /\ Queued(k) /\ Behind(k) BY Zenon DEF SettleInv
<1>2. Handling(k)' = Handling(k) /\ InHand(k)' = InHand(k)
  BY OthersFrame, Zenon DEF Handling, InHand
<1>f. /\ settled \subseteq settled'
      /\ queue'[k] = queue[k] /\ pos'[k] = pos[k] /\ handled'[k] = handled[k]
      /\ \A o \in Offsets : holder'[o] = k => holder[o] = k
      /\ \A o \in Offsets : holder'[o] = k /\ js'[o] = "out" => js[o] = "out"
  <2>1. k \in Inst \ {i} BY Zenon
  <2> QED BY <2>1, PeersFrame, Zenon
<1>3. Sent(k)' BY <1>1, <1>2, <1>f, Zenon DEF Sent
<1>4. Queued(k)' BY <1>1, <1>2, <1>f DEF Queued
<1>5. Behind(k)' BY <1>1, <1>2, <1>f, Zenon DEF Behind
<1> QED BY <1>3, <1>4, <1>5, Zenon

\* Nothing is acknowledged but what was handled.
LEMMA AckedStep ==
  ASSUME TypeOK, SettleInv, NEW i \in Inst, Process(i)
  PROVE  AckedMeansSettled'
<1> SUFFICES ASSUME NEW o \in Offsets, js'[o] = "acked", js[o] # "acked" PROVE o \in settled'
  BY PeersFrame, Zenon DEF SettleInv, AckedMeansSettled
<1>1. handled[i] \subseteq settled BY Zenon DEF SettleInv, Behind
<1>t. js \in [Offsets -> {"new", "out", "back", "acked"}] BY Zenon DEF TypeOK, ConsumerOK
<1>2. CASE \E p \in Offsets : Fetch(i, p) BY <1>2, <1>t DEF Fetch
<1>3. CASE Commit(i) BY <1>1, <1>3, Zenon DEF Commit, Acked
<1>4. CASE \E acks \in SUBSET handled[i] : CommitFails(i, acks)
  BY <1>1, <1>4, Zenon DEF CommitFails, Acked
<1>5. CASE Shutdown(i) BY <1>1, <1>5, Zenon DEF Shutdown, Stop, Close, Acked
<1>6. CASE UNCHANGED js BY <1>6, Zenon
<1> QED
  BY <1>2, <1>3, <1>4, <1>5, <1>6, QuietFrame, Zenon
  DEF Moves, deliveries, HandleMessage, HandleRedelivered, HandleMalformed, HandleDivert,
      HandleApply, Divert, FinishObservation, Crash, Load

\* A message fetched while the durable delivers in order comes after every
\* earlier one the process still has.
LEMMA FetchSettle ==
  ASSUME InOrder, TypeOK, SettleInv, NEW i \in Inst, NEW o \in Offsets, Fetch(i, o)
  PROVE  Sent(i)' /\ Queued(i)' /\ Behind(i)'
<1>t. /\ queue \in [Inst -> Seq(Offsets)] /\ js \in [Offsets -> {"new", "out", "back", "acked"}]
      /\ holder \in [Offsets -> Inst \cup {None}]
  BY Zenon DEF TypeOK, ClaimsOK, ConsumerOK
<1>i. Sent(i) /\ Queued(i) /\ Behind(i) /\ AckedMeansSettled BY Zenon DEF SettleInv
<1>1. UNCHANGED <<pos, handled, settled, st, job>> BY Zenon DEF Fetch
<1>2. Handling(i)' = Handling(i) /\ InHand(i)' = InHand(i) BY <1>1, Zenon DEF Handling, InHand
<1>3. /\ queue'[i] \in Seq(Offsets) /\ Len(queue'[i]) = Len(queue[i]) + 1
      /\ \A n \in 1 .. Len(queue[i]) : queue'[i][n] = queue[i][n]
      /\ queue'[i][Len(queue[i]) + 1] = o
  BY <1>t DEF Fetch
<1>l. Len(queue[i]) \in Nat BY <1>t
<1>4. Behind(i)' BY <1>i, <1>1, <1>2, Zenon DEF Behind
<1>5. Sent(i)'
  <2> SUFFICES ASSUME Handling(i), NEW p \in Offsets, js'[p] = "out", holder'[p] = i
               PROVE  \/ p \in settled \/ p \in InHand(i)
                      \/ \E n \in 1 .. Len(queue'[i]) : queue'[i][n] = p
    BY <1>1, <1>2, Zenon DEF Sent
  <2>1. CASE p = o BY <2>1, <1>3, <1>l
  <2>2. CASE p # o
    <3>1. js[p] = "out" /\ holder[p] = i BY <2>2, <1>t, Zenon DEF Fetch
    <3> QED BY <3>1, <1>i, <1>3, <1>l DEF Sent
  <2> QED BY <2>1, <2>2, Zenon
<1>6. Queued(i)'
  <2> SUFFICES ASSUME Handling(i), NEW n \in 1 .. Len(queue'[i]), NEW p \in Offsets,
                      p < queue'[i][n]
               PROVE  \/ p \in settled \/ p \in InHand(i)
                      \/ \E m \in 1 .. n - 1 : queue'[i][m] = p
    BY <1>1, <1>2, Zenon DEF Queued
  <2>1. CASE n \in 1 .. Len(queue[i])
    <3>1. \/ p \in settled \/ p \in InHand(i) \/ \E m \in 1 .. n - 1 : queue[i][m] = p
      BY <2>1, <1>i, <1>3, Zenon DEF Queued
    <3>2. \A m \in 1 .. n - 1 : m \in 1 .. Len(queue[i]) BY <2>1, <1>l
    <3> QED BY <3>1, <3>2, <1>3, Zenon
  <2>2. CASE n = Len(queue[i]) + 1
    <3>0. queue'[i][n] = o BY <2>2, <1>3, Zenon
    <3>1. p \in 1 .. o - 1 BY <3>0 DEF Offsets
    <3>2. js[p] = "acked" \/ (js[p] = "out" /\ holder[p] = i) BY <3>1, Zenon DEF Fetch
    <3>3. \/ p \in settled \/ p \in InHand(i) \/ \E m \in 1 .. Len(queue[i]) : queue[i][m] = p
      BY <3>2, <1>i, Zenon DEF AckedMeansSettled, Sent
    <3> QED BY <2>2, <3>3, <1>3, <1>l
  <2> QED BY <2>1, <2>2, <1>3, <1>l
<1> QED BY <1>4, <1>5, <1>6, Zenon

LEMMA TailIs ==
  ASSUME NEW S, NEW s \in Seq(S), s # <<>>
  PROVE  /\ Len(s) \in Nat \ {0} /\ Head(s) = s[1] /\ Head(s) \in S
         /\ Len(Tail(s)) = Len(s) - 1
         /\ \A n \in 1 .. Len(Tail(s)) : Tail(s)[n] = s[n + 1]
<1>1. Len(s) \in Nat \ {0} OBVIOUS
<1>2. Head(s) = s[1] /\ Head(s) \in S BY <1>1
<1>3. Len(Tail(s)) = Len(s) - 1 BY <1>1
<1>4. \A n \in 1 .. Len(Tail(s)) : Tail(s)[n] = s[n + 1] BY <1>1, <1>3
<1> QED BY <1>1, <1>2, <1>3, <1>4, Zenon

\* What taking the head of the queue leaves.
LEMMA Popped ==
  ASSUME TypeOK, NEW i \in Inst, queue[i] # <<>>, queue' = [queue EXCEPT ![i] = Tail(@)]
  PROVE  /\ Len(queue[i]) \in Nat \ {0} /\ Len(queue'[i]) = Len(queue[i]) - 1
         /\ \A n \in 1 .. Len(queue'[i]) : queue'[i][n] = queue[i][n + 1]
         /\ queue[i][1] = Head(queue[i]) /\ Head(queue[i]) \in Offsets
         /\ \A n \in 1 .. Len(queue[i]) : queue[i][n] \in Offsets
<1>1. queue[i] \in Seq(Offsets) /\ queue'[i] = Tail(queue[i]) BY Zenon DEF TypeOK, ClaimsOK
<1>2. Head(queue[i]) = queue[i][1] /\ Len(queue[i]) \in Nat \ {0} BY <1>1, TailIs, Zenon
<1>3. /\ Head(queue[i]) \in Offsets /\ Len(queue'[i]) = Len(queue[i]) - 1
      /\ \A n \in 1 .. Len(queue'[i]) : queue'[i][n] = queue[i][n + 1]
  <2>1. /\ Head(queue[i]) \in Offsets /\ Len(Tail(queue[i])) = Len(queue[i]) - 1
        /\ \A n \in 1 .. Len(Tail(queue[i])) : Tail(queue[i])[n] = queue[i][n + 1]
    BY <1>1, TailIs, Zenon
  <2> QED BY <1>1, <2>1, Zenon
<1>4. \A n \in 1 .. Len(queue[i]) : queue[i][n] \in Offsets BY <1>1
<1> QED BY <1>2, <1>3, <1>4, Zenon

\* The head is settled or in hand once it is taken, and everything earlier is
\* settled; so the rest of the queue is as it was.
LEMMA PopSettle ==
  ASSUME TypeOK, SettleInv, NEW i \in Inst, Handling(i), InHand(i) = {}, queue[i] # <<>>,
         queue' = [queue EXCEPT ![i] = Tail(@)], UNCHANGED <<st, js, holder>>,
         settled \subseteq settled', Head(queue[i]) \in settled' \cup InHand(i)'
  PROVE  Sent(i)' /\ Queued(i)' /\ \A o \in Offsets : o < Head(queue[i]) => o \in settled
<1>i. Sent(i) /\ Queued(i) BY Zenon DEF SettleInv
<1>p. /\ Len(queue[i]) \in Nat \ {0} /\ Len(queue'[i]) = Len(queue[i]) - 1
      /\ \A n \in 1 .. Len(queue'[i]) : queue'[i][n] = queue[i][n + 1]
      /\ queue[i][1] = Head(queue[i]) /\ Head(queue[i]) \in Offsets
  BY Popped, Zenon
<1>1. \A o \in Offsets : o < Head(queue[i]) => o \in settled BY <1>i, <1>p DEF Queued
<1>2. ASSUME NEW o \in Offsets, js[o] = "out", holder[o] = i
      PROVE  o \in settled' \/ o \in InHand(i)' \/ \E n \in 1 .. Len(queue'[i]) : queue'[i][n] = o
  <2>1. o \in settled \/ \E n \in 1 .. Len(queue[i]) : queue[i][n] = o
    BY <1>2, <1>i, Zenon DEF Sent
  <2>2. ASSUME NEW n \in 1 .. Len(queue[i]), queue[i][n] = o, n # 1
        PROVE  n - 1 \in 1 .. Len(queue'[i]) /\ queue'[i][n - 1] = o
    BY <2>2, <1>p
  <2> QED BY <2>1, <2>2, <1>p, Zenon
<1>3. ASSUME NEW n \in 1 .. Len(queue'[i]), NEW o \in Offsets, o < queue'[i][n]
      PROVE  o \in settled' \/ o \in InHand(i)' \/ \E m \in 1 .. n - 1 : queue'[i][m] = o
  <2>1. n + 1 \in 1 .. Len(queue[i]) /\ o < queue[i][n + 1] BY <1>3, <1>p
  <2>2. o \in settled \/ \E m \in 1 .. n : queue[i][m] = o
    BY <2>1, <1>i, <1>p DEF Queued
  <2>3. ASSUME NEW m \in 1 .. n, queue[i][m] = o, m # 1
        PROVE  m - 1 \in 1 .. n - 1 /\ queue'[i][m - 1] = o
    BY <2>1, <2>3, <1>p
  <2> QED BY <2>2, <2>3, <1>p, Zenon
<1> QED BY <1>1, <1>2, <1>3, Zenon DEF Sent, Queued

\* Marking a message handled keeps everything behind the position settled.
LEMMA MarkSettle ==
  ASSUME TypeOK, SettleInv, NEW i \in Inst, NEW o \in Offsets, mark_handled(i, o),
         settled \subseteq settled', o \in settled',
         \A p \in Offsets : p < o => p \in settled, InHand(i)' = {}
  PROVE  Behind(i)'
<1>1. Behind(i) BY Zenon DEF SettleInv
<1>2. pos[i] \in Nat /\ handled[i] \in SUBSET Offsets BY Zenon DEF TypeOK, ClaimsOK
<1>3. pos'[i] \in {pos[i], o + 1} /\ handled'[i] = handled[i] \cup {o}
  BY Zenon DEF mark_handled, TypeOK, ClaimsOK
<1>4. \A p \in Offsets : p < o + 1 => p < o \/ p = o BY DEF Offsets
<1> QED BY <1>1, <1>3, <1>4, Zenon DEF Behind

LEMMA HandleSettle ==
  ASSUME TypeOK, SettleInv, NEW i \in Inst, HandleMessage(i)
  PROVE  Sent(i)' /\ Queued(i)' /\ Behind(i)'
<1>t. job \in [Inst -> JobType] /\ Behind(i) BY Zenon DEF TypeOK, ProcessOK, SettleInv
<1>1. /\ Handling(i) /\ InHand(i) = {} /\ queue[i] # <<>>
      /\ queue' = [queue EXCEPT ![i] = Tail(@)] /\ UNCHANGED <<st, js, holder>>
  <2>1. /\ CanHandle(i) /\ queue[i] # <<>> /\ queue' = [queue EXCEPT ![i] = Tail(@)]
        /\ UNCHANGED <<st, js, holder>>
    BY Zenon DEF HandleMessage, HandleRedelivered, HandleMalformed, HandleDivert, HandleApply
  <2>2. Handling(i) /\ job[i] = NoJob BY <2>1, Zenon DEF CanHandle, Handling
  <2>3. NoJob.kind = "none" BY Zenon DEF NoJob
  <2>4. InHand(i) = {} BY <2>2, <2>3, Zenon DEF InHand
  <2> QED BY <2>1, <2>2, <2>4, Zenon
<1>2. Head(queue[i]) \in Offsets BY <1>1, Popped, Zenon
<1>3. CASE HandleRedelivered(i) \/ HandleMalformed(i)
  <2>1. /\ mark_handled(i, Head(queue[i])) /\ UNCHANGED job /\ settled \subseteq settled'
        /\ Head(queue[i]) \in settled'
    BY <1>2, <1>3, <1>t, Zenon DEF HandleRedelivered, HandleMalformed, Behind
  <2>2. InHand(i)' = {} BY <1>1, <2>1, Zenon DEF InHand
  <2>3. Sent(i)' /\ Queued(i)' /\ \A o \in Offsets : o < Head(queue[i]) => o \in settled
    BY <1>1, <2>1, PopSettle, Zenon
  <2> QED BY <1>2, <2>1, <2>2, <2>3, MarkSettle, Zenon
<1>4. CASE HandleDivert(i) \/ HandleApply(i)
  <2>1. UNCHANGED <<settled, pos, handled>> BY <1>4, Zenon DEF HandleDivert, HandleApply
  <2>2. InHand(i)' = {Head(queue[i])}
    BY <1>4, <1>t, Zenon DEF HandleDivert, HandleApply, StartJob, NoJob, InHand
  <2>3. Sent(i)' /\ Queued(i)' /\ \A o \in Offsets : o < Head(queue[i]) => o \in settled
    BY <1>1, <2>1, <2>2, PopSettle, Zenon
  <2> QED BY <1>t, <2>1, <2>2, <2>3, Zenon DEF Behind
<1> QED BY <1>3, <1>4, Zenon DEF HandleMessage

LEMMA FinishSettle ==
  ASSUME TypeOK, SettleInv, NEW i \in Inst, Divert(i) \/ FinishObservation(i)
  PROVE  Sent(i)' /\ Queued(i)' /\ Behind(i)'
<1>t. job \in [Inst -> JobType] /\ JobOK(job[i]) BY Zenon DEF TypeOK, ProcessOK
<1>1. /\ mark_handled(i, job[i].off) /\ job' = [job EXCEPT ![i] = NoJob]
      /\ settled' = settled \cup {job[i].off} /\ UNCHANGED <<st, js, holder, queue>>
      /\ job[i].kind = "observation" /\ job[i].off \in Offsets
  BY <1>t, Zenon DEF Divert, FinishObservation, Done, JobOK
<1>2. InHand(i) = {job[i].off} /\ InHand(i)' = {} BY <1>1, <1>t, Zenon DEF InHand, NoJob
<1>3. Sent(i) /\ Queued(i) /\ Behind(i) BY Zenon DEF SettleInv
<1>4. \A p \in Offsets : p < job[i].off => p \in settled BY <1>2, <1>3, Zenon DEF Behind
<1>5. Behind(i)' BY <1>1, <1>2, <1>4, MarkSettle, Zenon
<1>6. Sent(i)' BY <1>1, <1>2, <1>3, Zenon DEF Sent, Handling
<1>7. Queued(i)' BY <1>1, <1>2, <1>3, Zenon DEF Queued, Handling
<1> QED BY <1>5, <1>6, <1>7, Zenon

LEMMA SettleStep ==
  ASSUME InOrder, TypeOK, JobsHaveWindow, CountInv, SettleInv, NEW i \in Inst, Process(i)
  PROVE  Sent(i)' /\ Queued(i)' /\ Behind(i)'
<1>t. /\ st \in [Inst -> Status] /\ job \in [Inst -> JobType]
      /\ handled \in [Inst -> SUBSET Offsets]
  BY Zenon DEF TypeOK, ProcessOK, ClaimsOK
<1>i. Sent(i) /\ Queued(i) /\ Behind(i) BY Zenon DEF SettleInv
<1>1. CASE \E o \in Offsets : Fetch(i, o) BY <1>1, FetchSettle, Zenon
<1>2. CASE HandleMessage(i) BY <1>2, HandleSettle, Zenon
<1>3. CASE Divert(i) \/ FinishObservation(i) BY <1>3, FinishSettle, Zenon
<1>4. CASE Commit(i) \/ (\E acks \in SUBSET handled[i] : CommitFails(i, acks)) \/ Shutdown(i)
  <2>1. /\ UNCHANGED <<settled, pos, holder, job>> /\ handled'[i] \subseteq handled[i]
        /\ Handling(i)' => Handling(i) /\ UNCHANGED queue
        /\ \A o \in Offsets : js'[o] = "out" => js[o] = "out"
    BY <1>4, <1>t, Zenon
    DEF Commit, CommitFails, CanHandle, Shutdown, Stop, Close, Acked, Handling
  <2>2. InHand(i)' = InHand(i) BY <2>1, Zenon DEF InHand
  <2> QED BY <1>i, <2>1, <2>2 DEF Sent, Queued, Behind
<1>5. CASE Crash(i)
  <2>1. ~Handling(i)' /\ InHand(i)' = {} /\ UNCHANGED <<settled, pos, handled>>
    BY <1>5, <1>t, Zenon DEF Crash, Handling, InHand, NoJob
  <2> QED BY <1>i, <2>1, Zenon DEF Sent, Queued, Behind
<1>6. CASE \E v \in 1 .. MaxVersion : Load(i, v)
  <2>1. UNCHANGED <<deliveries, job>> /\ st[i] = "leased" BY <1>6, Zenon DEF Load, deliveries
  <2>2. queue[i] = <<>> /\ \A o \in Offsets : holder[o] # i BY <2>1, Zenon DEF CountInv, Unused
  <2>3. UNCHANGED <<js, holder, queue, pos, handled, settled>> BY <2>1, Zenon DEF deliveries
  <2>4. InHand(i)' = InHand(i) BY <2>1, Zenon DEF InHand
  <2>5. Behind(i)' BY <1>i, <2>3, <2>4, Zenon DEF Behind
  <2>6. Sent(i)' BY <2>2, <2>3, Zenon DEF Sent
  <2>7. Queued(i)' BY <2>2, <2>3 DEF Queued
  <2> QED BY <2>5, <2>6, <2>7, Zenon
<1>7. CASE ~Moves(i) /\ ~ \E v \in 1 .. MaxVersion : Load(i, v)
  <2>1. /\ UNCHANGED <<js, holder, queue, pos, handled, settled>>
        /\ Handling(i)' => Handling(i) /\ InHand(i)' = InHand(i)
        /\ InHand(i)' \subseteq InHand(i)
    BY <1>7, QuietFrame, Zenon DEF deliveries
  <2>2. Behind(i)' BY <1>i, <2>1, Zenon DEF Behind
  <2>3. Sent(i)' BY <1>i, <2>1, Zenon DEF Sent
  <2>4. Queued(i)' BY <1>i, <2>1, Zenon DEF Queued
  <2> QED BY <2>2, <2>3, <2>4
<1> QED BY <1>1, <1>2, <1>3, <1>4, <1>5, <1>6, <1>7, Zenon DEF Moves

LEMMA SettleInvStep ==
  ASSUME InOrder, TypeOK, JobsHaveWindow, CountInv, SettleInv, [Next]_vars
  PROVE  SettleInv'
<1>1. ASSUME NEW i \in Inst, Process(i) PROVE SettleInv'
  BY <1>1, AckedStep, SettleStep, SettlePeer, Zenon DEF SettleInv
<1>2. CASE \E o \in Offsets : AckWait(o)
  <2>1. \A o \in Offsets : js'[o] # "back" => js'[o] = js[o]
    BY <1>2, Zenon DEF AckWait, TypeOK, ConsumerOK
  <2>2. UNCHANGED <<holder, queue, pos, handled, settled, st, job>> BY <1>2, Zenon DEF AckWait
  <2>3. \A k \in Inst : Handling(k)' = Handling(k) /\ InHand(k)' = InHand(k)
    BY <2>2, Zenon DEF Handling, InHand
  <2>4. AckedMeansSettled' BY <2>1, <2>2, Zenon DEF SettleInv, AckedMeansSettled
  <2>5. ASSUME NEW k \in Inst PROVE Sent(k)' /\ Queued(k)' /\ Behind(k)'
    <3>1. Sent(k) /\ Queued(k) /\ Behind(k) BY Zenon DEF SettleInv
    <3>2. Sent(k)' BY <2>1, <2>2, <2>3, <3>1, Zenon DEF Sent
    <3>3. Queued(k)' BY <2>2, <2>3, <3>1 DEF Queued
    <3>4. Behind(k)' BY <2>2, <2>3, <3>1, Zenon DEF Behind
    <3> QED BY <3>2, <3>3, <3>4, Zenon
  <2> QED BY <2>4, <2>5, Zenon DEF SettleInv
<1>3. CASE UNCHANGED <<deliveries, st, job>>
  <2>1. UNCHANGED <<js, holder, queue, pos, handled, settled, st, job>>
    BY <1>3, Zenon DEF deliveries
  <2>2. \A k \in Inst : Handling(k)' = Handling(k) /\ InHand(k)' = InHand(k)
    BY <2>1, Zenon DEF Handling, InHand
  <2>3. AckedMeansSettled' BY <2>1, Zenon DEF SettleInv, AckedMeansSettled
  <2>4. ASSUME NEW k \in Inst PROVE Sent(k)' /\ Queued(k)' /\ Behind(k)'
    <3>1. Sent(k) /\ Queued(k) /\ Behind(k) BY DEF SettleInv
    <3>2. Sent(k)' BY <2>1, <2>2, <3>1, Zenon DEF Sent
    <3>3. Queued(k)' BY <2>1, <2>2, <3>1, Zenon DEF Queued
    <3>4. Behind(k)' BY <2>1, <2>2, <3>1, Zenon DEF Behind
    <3> QED BY <3>2, <3>3, <3>4
  <2> QED BY <2>3, <2>4 DEF SettleInv
<1> QED BY <1>1, <1>2, <1>3, Zenon DEF Next, LeaseLapse, PublishDoc, vars, deliveries

\* While the durable delivers in order, nothing is acknowledged that no process
\* counted and published, diverted or found malformed: through every crash,
\* failed call, failed acknowledgement, stall and handover (commit_handled,
\* mark_handled, _handle, stop).
THEOREM NothingLost == ASSUME InOrder PROVE Spec => []AckedMeansSettled
<1>1. Init => CountInv /\ JobsHaveWindow /\ SettleInv
  <2> SUFFICES ASSUME Init PROVE CountInv /\ JobsHaveWindow /\ SettleInv BY Zenon
  <2>1. CountInv /\ JobsHaveWindow
    BY LeaseInit, ConstantsAssumption, Zenon DEF Init, CountInv, Unused, Counted, Handling
  <2>2. AckedMeansSettled BY Zenon DEF Init, AckedMeansSettled
  <2>3. ASSUME NEW i \in Inst PROVE Sent(i) /\ Queued(i) /\ Behind(i)
    BY DEF Init, Sent, Queued, Behind, Handling, InHand, NoJob, Offsets
  <2> QED BY <2>1, <2>2, <2>3, Zenon DEF SettleInv
<1>2. SettleInv => AckedMeansSettled BY Zenon DEF SettleInv
<1> QED
  BY <1>1, <1>2, SettleInvStep, CountInvStep, JobsHaveWindowStep, Typed, PTL DEF Spec
=============================================================================
