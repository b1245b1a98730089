----------------------- MODULE AggregatorWorkerProofs -----------------------
(***************************************************************************)
(* Theorems about AggregatorWorker, for any number of processes, IPs,      *)
(* observations and configuration versions: type correctness, one lemma    *)
(* per group of actions; and what is written before it is published,       *)
(* under every fault, stalls included.                                     *)
(***************************************************************************)
EXTENDS AggregatorWorker, TLAPS

USE DEF consumer, store, logs, window, claims, config, history

-----------------------------------------------------------------------------
(* Type correctness *)

LEMMA NoJobOK == JobOK(NoJob)
BY Zenon DEF JobOK, NoJob, JobType

\* A job just started is well typed.
LEMMA StartedJobOK ==
  ASSUME NEW kind \in {"observation", "expiry", "warmup", "config"},
         NEW step \in {"eval", "divert"}, NEW o \in Offsets \cup {0}, NEW todo \in SUBSET IPs,
         kind = "observation" => o \in Offsets, step = "divert" => kind = "observation"
  PROVE  JobOK([NoJob EXCEPT !.kind = kind, !.step = step, !.off = o, !.todo = todo])
BY Zenon DEF JobOK, NoJob, JobType

\* Setting one process's job to a well-typed one.
LEMMA SetJob ==
  ASSUME ProcessOK, NEW i \in Inst, NEW j, JobOK(j), job' = [job EXCEPT ![i] = j],
         st' \in [Inst -> Status]
  PROVE  ProcessOK'
BY Zenon DEF ProcessOK, JobOK

\* Setting one process's status.
LEMMA SetStatus ==
  ASSUME ProcessOK, NEW i \in Inst, NEW s \in Status, st' = [st EXCEPT ![i] = s], UNCHANGED job
  PROVE  ProcessOK'
BY Zenon DEF ProcessOK, JobOK

LEMMA MarkHandledType ==
  ASSUME ClaimsOK, NEW i \in Inst, NEW o \in Offsets, mark_handled(i, o),
         queue' \in [Inst -> Seq(Offsets)]
  PROVE  ClaimsOK'
<1>1. o + 1 \in Nat BY DEF Offsets
<1>2. pos' \in [Inst -> Nat] BY <1>1, Zenon DEF ClaimsOK, mark_handled
<1>3. handled' \in [Inst -> SUBSET Offsets] BY Zenon DEF ClaimsOK, mark_handled
<1> QED BY <1>2, <1>3, Zenon DEF ClaimsOK

LEMMA TailType ==
  ASSUME ClaimsOK, NEW i \in Inst, queue[i] # <<>>
  PROVE  /\ Head(queue[i]) \in Offsets
         /\ [queue EXCEPT ![i] = Tail(@)] \in [Inst -> Seq(Offsets)]
BY DEF ClaimsOK

LEMMA AckedType ==
  ASSUME ConsumerOK, NEW O, js' = Acked(O), UNCHANGED holder
  PROVE  ConsumerOK'
BY Zenon DEF ConsumerOK, Acked

LEMMA RecordType ==
  ASSUME StoreOK, NEW j, JobOK(j), j.ip \in IPs, record_transition(j), UNCHANGED lease
  PROVE  StoreOK'
BY DEF StoreOK, JobOK, JobType, record_transition

LEMMA AppendType ==
  ASSUME LogsOK, NEW j, JobOK(j), j.ip \in IPs, append(j), UNCHANGED recon
  PROVE  LogsOK'
BY DEF LogsOK, JobOK, JobType, append, EventId

LEMMA RaiseType ==
  ASSUME ProcessOK, NEW i \in Inst, Raise(i)
  PROVE  ProcessOK'
BY NoJobOK, Zenon DEF ProcessOK, Raise, JobOK, Status, Alive, Owning

\* The type invariant holds initially.
LEMMA InitTypeOK == Init => TypeOK
BY ConstantsAssumption, NoJobOK
DEF Init, TypeOK, ConsumerOK, StoreOK, LogsOK, WindowOK, ClaimsOK, ConfigOK, HistoryOK,
    ProcessOK, JobOK, Status

\* The groups of variables an action leaves alone keep their types.
LEMMA Frames ==
  ASSUME TypeOK
  PROVE  /\ UNCHANGED consumer => ConsumerOK'
         /\ UNCHANGED store => StoreOK'
         /\ UNCHANGED logs => LogsOK'
         /\ UNCHANGED window => WindowOK'
         /\ UNCHANGED claims => ClaimsOK'
         /\ UNCHANGED config => ConfigOK'
         /\ UNCHANGED history => HistoryOK'
         /\ UNCHANGED <<st, job>> => ProcessOK'
BY Zenon DEF TypeOK, ConsumerOK, StoreOK, LogsOK, WindowOK, ClaimsOK, ConfigOK, HistoryOK,
       ProcessOK, JobOK

LEMMA ServerTypes ==
  ASSUME TypeOK
  PROVE  /\ \A o \in Offsets : AckWait(o) => TypeOK'
         /\ LeaseLapse => TypeOK'
         /\ PublishDoc => TypeOK'
<1>1. \A o \in Offsets : AckWait(o) => TypeOK'
  BY Frames, Zenon DEF TypeOK, AckWait, ConsumerOK
<1>2. LeaseLapse => TypeOK'
  BY Frames, Zenon DEF TypeOK, LeaseLapse, StoreOK
<1>3. PublishDoc => TypeOK'
  BY Frames DEF TypeOK, PublishDoc, ConfigOK
<1> QED BY <1>1, <1>2, <1>3, Zenon

LEMMA OwnershipTypes ==
  ASSUME TypeOK, NEW i \in Inst
  PROVE  /\ Acquire(i) => TypeOK'
         /\ \A v \in 1 .. MaxVersion : Load(i, v) => TypeOK'
         /\ LoadFails(i) => TypeOK'
         /\ BeginStop(i) => TypeOK'
         /\ \A acks \in SUBSET handled[i] : Stop(i, acks) => TypeOK'
         /\ \A O \in SUBSET Offsets : Close(i, O) => TypeOK'
         /\ Crash(i) => TypeOK'
<1>s. \A x \in {"leased", "run", "stop", "closing", "dead"} :
        st' = [st EXCEPT ![i] = x] /\ UNCHANGED job => ProcessOK'
  BY SetStatus, Zenon DEF TypeOK, Status, Alive, Owning
<1>1. Acquire(i) => TypeOK'
  BY Frames, <1>s, Zenon DEF TypeOK, Acquire, StoreOK
<1>2. ASSUME NEW v \in 1 .. MaxVersion, Load(i, v) PROVE TypeOK'
  BY <1>2, Frames, <1>s DEF TypeOK, Load, StoreOK, WindowOK, ConfigOK
<1>3. LoadFails(i) => TypeOK'
  BY Frames, <1>s, Zenon DEF TypeOK, LoadFails, StoreOK
<1>4. BeginStop(i) => TypeOK'
  BY Frames, <1>s, Zenon DEF TypeOK, BeginStop
<1>5. ASSUME NEW acks \in SUBSET handled[i], Stop(i, acks) PROVE TypeOK'
  BY <1>5, Frames, <1>s, AckedType, Zenon DEF TypeOK, Stop, StoreOK
<1>6. ASSUME NEW O \in SUBSET Offsets, Close(i, O) PROVE TypeOK'
  BY <1>6, Frames, <1>s DEF TypeOK, Close, ConsumerOK, ClaimsOK
<1>7. ASSUME Crash(i) PROVE TypeOK'
  <2>1. ProcessOK' BY <1>7, SetJob, NoJobOK, Zenon DEF TypeOK, Crash, ProcessOK, Status
  <2>2. LostRemoval(job[i]) \in SUBSET IPs BY Zenon DEF TypeOK, ProcessOK, JobOK, LostRemoval
  <2> QED BY <1>7, <2>1, <2>2, Frames DEF TypeOK, Crash, ClaimsOK, HistoryOK
<1> QED BY <1>1, <1>2, <1>3, <1>4, <1>5, <1>6, <1>7, Zenon

LEMMA ConsumingTypes ==
  ASSUME TypeOK, NEW i \in Inst
  PROVE  /\ \A o \in Offsets : Fetch(i, o) => TypeOK'
         /\ HandleRedelivered(i) => TypeOK'
         /\ HandleMalformed(i) => TypeOK'
         /\ HandleDivert(i) => TypeOK'
         /\ HandleApply(i) => TypeOK'
         /\ Commit(i) => TypeOK'
         /\ \A acks \in SUBSET handled[i] : CommitFails(i, acks) => TypeOK'
<1>1. ASSUME NEW o \in Offsets, Fetch(i, o) PROVE TypeOK'
  <2>1. ConsumerOK' BY <1>1, Zenon DEF TypeOK, Fetch, ConsumerOK
  <2>2. ClaimsOK' BY <1>1 DEF TypeOK, Fetch, ClaimsOK
  <2> QED BY <1>1, <2>1, <2>2, Frames, Zenon DEF TypeOK, Fetch
<1>2. ASSUME HandleRedelivered(i) PROVE TypeOK'
  <2>1. ClaimsOK' BY <1>2, TailType, MarkHandledType, Zenon DEF TypeOK, HandleRedelivered
  <2> QED BY <1>2, <2>1, Frames, Zenon DEF TypeOK, HandleRedelivered
<1>3. ASSUME HandleMalformed(i) PROVE TypeOK'
  <2>1. ClaimsOK' BY <1>3, TailType, MarkHandledType, Zenon DEF TypeOK, HandleMalformed
  <2> QED BY <1>3, <2>1, TailType, Frames, Zenon DEF TypeOK, HandleMalformed, HistoryOK
<1>4. ASSUME HandleDivert(i) PROVE TypeOK'
  <2> DEFINE o == Head(queue[i])
  <2>1. o \in Offsets /\ queue' \in [Inst -> Seq(Offsets)]
    BY <1>4, TailType, Zenon DEF TypeOK, HandleDivert
  <2>2. ProcessOK'
    BY <1>4, <2>1, SetJob, StartedJobOK, Zenon DEF TypeOK, HandleDivert, StartJob, ProcessOK
  <2>3. ClaimsOK' BY <1>4, <2>1, Zenon DEF TypeOK, HandleDivert, ClaimsOK
  <2> QED BY <1>4, <2>2, <2>3, Frames, Zenon DEF TypeOK, HandleDivert
<1>5. ASSUME HandleApply(i) PROVE TypeOK'
  <2> DEFINE o == Head(queue[i])
  <2>1. o \in Offsets /\ queue' \in [Inst -> Seq(Offsets)]
    BY <1>5, TailType, Zenon DEF TypeOK, HandleApply
  <2>2. {IpOf[o]} \in SUBSET IPs BY <2>1, ConstantsAssumption
  <2>3. ProcessOK'
    BY <1>5, <2>1, <2>2, SetJob, StartedJobOK, Zenon DEF TypeOK, HandleApply, StartJob, ProcessOK
  <2>4. ClaimsOK' BY <1>5, <2>1, Zenon DEF TypeOK, HandleApply, ClaimsOK
  <2>5. WindowOK' BY <1>5, <2>1, Zenon DEF TypeOK, HandleApply, WindowOK
  <2> QED BY <1>5, <2>3, <2>4, <2>5, Frames, Zenon DEF TypeOK, HandleApply
<1>6. Commit(i) => TypeOK'
  BY Frames, AckedType, Zenon DEF TypeOK, Commit, ClaimsOK
<1>7. ASSUME NEW acks \in SUBSET handled[i], CommitFails(i, acks) PROVE TypeOK'
  <2>1. ProcessOK'
    BY <1>7, SetStatus, Zenon DEF TypeOK, CommitFails, Status, Alive, Owning
  <2> QED BY <1>7, <2>1, Frames, AckedType, Zenon DEF TypeOK, CommitFails
<1> QED BY <1>1, <1>2, <1>3, <1>4, <1>5, <1>6, <1>7, Zenon

LEMMA PeriodicTypes ==
  ASSUME TypeOK, NEW i \in Inst
  PROVE  /\ \A dropped \in SUBSET hot[i] : Maintain(i, dropped) => TypeOK'
         /\ RenewFails(i) => TypeOK'
         /\ WarmElapse(i) => TypeOK'
         /\ \A v \in 1 .. MaxVersion : ApplyConfig(i, v) => TypeOK'
<1>1. ASSUME NEW dropped \in SUBSET hot[i], Maintain(i, dropped) PROVE TypeOK'
  <2>1. dropped \in SUBSET IPs BY Zenon DEF TypeOK, WindowOK
  <2>2. ProcessOK'
    BY <1>1, <2>1, SetJob, StartedJobOK, Zenon DEF TypeOK, Maintain, StartJob, ProcessOK
  <2> QED BY <1>1, <2>2, Frames, Zenon DEF TypeOK, Maintain, StoreOK
<1>2. ASSUME RenewFails(i) PROVE TypeOK'
  <2>1. ProcessOK'
    BY <1>2, SetStatus, Zenon DEF TypeOK, RenewFails, Status, Alive, Owning
  <2> QED BY <1>2, <2>1, Frames, Zenon DEF TypeOK, RenewFails
<1>3. WarmElapse(i) => TypeOK'
  BY Frames, Zenon DEF TypeOK, WarmElapse, WindowOK
<1>4. ASSUME NEW v \in 1 .. MaxVersion, ApplyConfig(i, v) PROVE TypeOK'
  <2>1. Tracked(i) \in SUBSET IPs
    BY ConstantsAssumption DEF TypeOK, WindowOK, Tracked
  <2>2. ProcessOK'
    BY <1>4, <2>1, SetJob, StartedJobOK, Zenon DEF TypeOK, ApplyConfig, StartJob, ProcessOK
  <2> QED BY <1>4, <2>2, Frames DEF TypeOK, ApplyConfig, ConfigOK
<1> QED BY <1>1, <1>2, <1>3, <1>4, Zenon

LEMMA JobTypes ==
  ASSUME TypeOK, NEW i \in Inst
  PROVE  /\ \A ip \in IPs : Unchanged(i, ip) \/ Edge(i, ip) => TypeOK'
         /\ Persist(i) => TypeOK'
         /\ PersistFails(i) => TypeOK'
         /\ Publish(i) => TypeOK'
         /\ PublishFails(i) => TypeOK'
<1>j. JobOK(job[i]) /\ job[i] \in JobType BY Zenon DEF TypeOK, ProcessOK
<1>1. ASSUME NEW ip \in IPs, Unchanged(i, ip) PROVE TypeOK'
  <2>1. ProcessOK' BY <1>1 DEF TypeOK, Unchanged, ProcessOK, JobOK, JobType
  <2> QED BY <1>1, <2>1, Frames, Zenon DEF TypeOK, Unchanged
<1>2. ASSUME NEW ip \in IPs, Edge(i, ip) PROVE TypeOK'
  <2> DEFINE j == [job[i] EXCEPT !.step = "persist", !.ip = ip, !.seq = seq[i],
                                 !.to = IF ip \in hot[i] THEN "COLD" ELSE "HOT"]
  <2>j. JobOK(j) BY <1>2, <1>j, Zenon DEF TypeOK, Edge, Evaluating, WindowOK, JobOK, JobType
  <2>1. ProcessOK'
    <3>1. job' = [job EXCEPT ![i] = j] BY <1>2, Zenon DEF Edge, TypeOK, ProcessOK
    <3> QED BY <1>2, <2>j, <3>1, SetJob, Zenon DEF TypeOK, Edge, ProcessOK
  <2>2. WindowOK' BY <1>2 DEF TypeOK, Edge, WindowOK
  <2> QED BY <1>2, <2>1, <2>2, Frames, Zenon DEF TypeOK, Edge
<1>3. ASSUME Persist(i) PROVE TypeOK'
  <2>1. ProcessOK' BY <1>3 DEF TypeOK, Persist, ProcessOK, JobOK, JobType
  <2>2. StoreOK' BY <1>3, <1>j, RecordType, Zenon DEF TypeOK, Persist, JobOK
  <2> QED BY <1>3, <2>1, <2>2, Frames, Zenon DEF TypeOK, Persist
<1>4. ASSUME PersistFails(i) PROVE TypeOK'
  <2>1. ProcessOK' BY <1>4, RaiseType, Zenon DEF TypeOK, PersistFails
  <2>2. job[i].ip \in IPs BY <1>4, <1>j, Zenon DEF PersistFails, JobOK
  <2>3. StoreOK'
    BY <1>4, <1>j, <2>2, RecordType, Frames, Zenon DEF TypeOK, PersistFails
  <2>4. HistoryOK' BY <1>4, <2>2, Zenon DEF TypeOK, PersistFails, HistoryOK
  <2> QED BY <1>4, <2>1, <2>3, <2>4, Frames, Zenon DEF TypeOK, PersistFails
<1>5. ASSUME Publish(i) PROVE TypeOK'
  <2>1. job[i].ip \in IPs BY <1>5, <1>j, Zenon DEF Publish, JobOK
  <2> DEFINE j == [job[i] EXCEPT !.step = "eval", !.todo = @ \ {job[i].ip}, !.ip = None,
                                 !.to = "COLD", !.seq = 0]
  <2>j. JobOK(j) BY <1>5, <1>j, Zenon DEF JobOK, JobType
  <2>2. ProcessOK'
    <3>1. job' = [job EXCEPT ![i] = j] BY <1>5, Zenon DEF Publish, TypeOK, ProcessOK
    <3> QED BY <1>5, <2>j, <3>1, SetJob, Zenon DEF TypeOK, Publish, ProcessOK
  <2>3. LogsOK' BY <1>5, <1>j, <2>1, AppendType, Zenon DEF TypeOK, Publish
  <2>4. WindowOK' BY <1>5, <2>1, Zenon DEF TypeOK, Publish, WindowOK
  <2>5. HistoryOK' BY <1>5, <2>1, Zenon DEF TypeOK, Publish, HistoryOK
  <2> QED BY <1>5, <2>2, <2>3, <2>4, <2>5, Frames, Zenon DEF TypeOK, Publish
<1>6. ASSUME PublishFails(i) PROVE TypeOK'
  <2>1. ProcessOK' BY <1>6, RaiseType, Zenon DEF TypeOK, PublishFails
  <2>2. job[i].ip \in IPs BY <1>6, <1>j, Zenon DEF PublishFails, JobOK
  <2>3. LogsOK'
    BY <1>6, <1>j, <2>2, AppendType, Frames, Zenon DEF TypeOK, PublishFails
  <2>4. HistoryOK' BY <1>6, <2>2, Zenon DEF TypeOK, PublishFails, HistoryOK, LostRemoval
  <2> QED BY <1>6, <2>1, <2>3, <2>4, Frames, Zenon DEF TypeOK, PublishFails
<1> QED BY <1>1, <1>2, <1>3, <1>4, <1>5, <1>6, Zenon

LEMMA FinishTypes ==
  ASSUME TypeOK, NEW i \in Inst
  PROVE  /\ Divert(i) => TypeOK'
         /\ DivertFails(i) => TypeOK'
         /\ FinishObservation(i) => TypeOK'
         /\ FinishExpiry(i) => TypeOK'
         /\ FinishWarmup(i) => TypeOK'
         /\ FinishConfig(i) => TypeOK'
<1>j. JobOK(job[i]) BY Zenon DEF TypeOK, ProcessOK
<1>n. job' = [job EXCEPT ![i] = NoJob] /\ UNCHANGED st => ProcessOK'
  BY SetJob, NoJobOK, Zenon DEF TypeOK, ProcessOK
<1>q. UNCHANGED queue => queue' \in [Inst -> Seq(Offsets)] BY Zenon DEF TypeOK, ClaimsOK
<1>1. ASSUME Divert(i) PROVE TypeOK'
  <2>1. job[i].off \in Offsets BY <1>1, <1>j, Zenon DEF Divert, JobOK
  <2>2. ClaimsOK' BY <1>1, <1>q, <2>1, MarkHandledType, Zenon DEF TypeOK, Divert
  <2> QED BY <1>1, <1>n, <2>1, <2>2, Frames, Zenon DEF TypeOK, Divert, LogsOK, HistoryOK
<1>2. ASSUME DivertFails(i) PROVE TypeOK'
  <2>1. job[i].off \in Offsets BY <1>2, <1>j, Zenon DEF DivertFails, JobOK
  <2>2. ProcessOK' BY <1>2, RaiseType, Zenon DEF TypeOK, DivertFails
  <2> QED BY <1>2, <2>1, <2>2, Frames, Zenon DEF TypeOK, DivertFails, LogsOK
<1>3. ASSUME FinishObservation(i) PROVE TypeOK'
  <2>1. job[i].off \in Offsets BY <1>3, <1>j, Zenon DEF FinishObservation, Done, JobOK
  <2>2. ClaimsOK' BY <1>3, <1>q, <2>1, MarkHandledType, Zenon DEF TypeOK, FinishObservation
  <2> QED BY <1>3, <1>n, <2>1, <2>2, Frames, Zenon DEF TypeOK, FinishObservation, HistoryOK
<1>4. ASSUME FinishExpiry(i) PROVE TypeOK'
  <2>1. inherited[i] \cap hot[i] \in SUBSET IPs BY Zenon DEF TypeOK, WindowOK
  <2>2. ProcessOK'
    BY <1>4, <1>n, <2>1, SetJob, StartedJobOK, Zenon
    DEF TypeOK, FinishExpiry, StartJob, ProcessOK
  <2>3. WindowOK' BY <1>4, Zenon DEF TypeOK, FinishExpiry, WindowOK
  <2> QED BY <1>4, <2>2, <2>3, Frames, Zenon DEF TypeOK, FinishExpiry
<1>5. FinishWarmup(i) => TypeOK'
  BY <1>n, Frames, Zenon DEF TypeOK, FinishWarmup
<1>6. FinishConfig(i) => TypeOK'
  BY <1>n, Frames, Zenon DEF TypeOK, FinishConfig, ConfigOK
<1> QED BY <1>1, <1>2, <1>3, <1>4, <1>5, <1>6, Zenon

\* Every step of every process keeps the types.
LEMMA NextTypeOK == TypeOK /\ [Next]_vars => TypeOK'
<1> SUFFICES ASSUME TypeOK, [Next]_vars PROVE TypeOK'
  BY Zenon
<1>1. ASSUME NEW i \in Inst, Process(i) PROVE TypeOK'
  BY <1>1, OwnershipTypes, ConsumingTypes, PeriodicTypes, JobTypes, FinishTypes, Zenon
  DEF Process, Shutdown, HandleMessage, Sweep, JobStep, Failure
<1>2. CASE UNCHANGED vars
  BY <1>2, Frames, Zenon DEF TypeOK, vars
<1> QED BY <1>1, <1>2, ServerTypes, Zenon DEF Next

\* The state keeps its types in every behaviour (worker.py, assignment.py).
THEOREM Typed == Spec => []TypeOK
BY InitTypeOK, NextTypeOK, PTL DEF Spec

-----------------------------------------------------------------------------
(* Frames: what the steps that write nothing durable leave alone *)

\* The steps of a process other than taking a transition through evaluate(),
\* record_transition() and publish(), loading a window and crashing.
Calm(i) ==
  \/ Acquire(i) \/ LoadFails(i) \/ BeginStop(i) \/ Shutdown(i)
  \/ \E o \in Offsets : Fetch(i, o)
  \/ HandleMessage(i) \/ Commit(i) \/ Sweep(i) \/ WarmElapse(i)
  \/ \E acks \in SUBSET handled[i] : CommitFails(i, acks)
  \/ \E v \in 1 .. MaxVersion : ApplyConfig(i, v)
  \/ \E ip \in IPs : Unchanged(i, ip)
  \/ Divert(i) \/ DivertFails(i)
  \/ FinishObservation(i) \/ FinishExpiry(i) \/ FinishWarmup(i) \/ FinishConfig(i)

durable == <<storeHot, storeSeq, ids, told, lost, hot, seq, torn>>

LEMMA Steps ==
  ASSUME NEW i \in Inst, Process(i)
  PROVE  \/ Calm(i) \/ Crash(i)
         \/ \E v \in 1 .. MaxVersion : Load(i, v)
         \/ \E ip \in IPs : Edge(i, ip)
         \/ Persist(i) \/ PersistFails(i) \/ Publish(i) \/ PublishFails(i)
BY Zenon DEF Process, Calm, JobStep, Failure

\* A calm step writes nothing durable, and neither abandons a transition nor
\* gets one ready.
LEMMA CalmFrame ==
  ASSUME TypeOK, NEW i \in Inst, Calm(i)
  PROVE  /\ UNCHANGED durable
         /\ job[i].step \in {"persist", "publish"} => job'[i] = job[i]
         /\ job'[i].step \in {"persist", "publish"} => job'[i] = job[i]
<1> USE DEF durable
<1>j. job \in [Inst -> JobType] BY Zenon DEF TypeOK, ProcessOK
<1>n. NoJob.step = "eval" BY Zenon DEF NoJob
<1>1. CASE Acquire(i) BY <1>1, Zenon DEF Acquire
<1>2. CASE LoadFails(i) BY <1>2, Zenon DEF LoadFails
<1>3. CASE BeginStop(i) BY <1>3, Zenon DEF BeginStop
<1>4. CASE Shutdown(i) BY <1>4, Zenon DEF Shutdown, Stop, Close
<1>5. CASE \E o \in Offsets : Fetch(i, o) BY <1>5, Zenon DEF Fetch
<1>6. CASE HandleMessage(i)
  BY <1>6, <1>j, <1>n, Zenon
  DEF HandleMessage, HandleRedelivered, HandleMalformed, HandleDivert, HandleApply,
      CanHandle, StartJob, NoJob
<1>7. CASE Commit(i) BY <1>7, Zenon DEF Commit
<1>8. CASE Sweep(i)
  BY <1>8, <1>j, <1>n, Zenon DEF Sweep, RenewFails, Maintain, CanSweep, StartJob, NoJob
<1>9. CASE WarmElapse(i) BY <1>9, Zenon DEF WarmElapse
<1>10. CASE \E acks \in SUBSET handled[i] : CommitFails(i, acks) BY <1>10, Zenon DEF CommitFails
<1>11. CASE \E v \in 1 .. MaxVersion : ApplyConfig(i, v)
  BY <1>11, <1>j, <1>n DEF ApplyConfig, CanPoll, StartJob, NoJob
<1>12. CASE \E ip \in IPs : Unchanged(i, ip)
  BY <1>12, <1>j DEF Unchanged, Evaluating, JobType
<1>13. CASE Divert(i) BY <1>13, <1>j, <1>n, Zenon DEF Divert
<1>14. CASE DivertFails(i) BY <1>14, <1>j, <1>n, Zenon DEF DivertFails, Raise
<1>15. CASE FinishObservation(i) BY <1>15, <1>j, <1>n, Zenon DEF FinishObservation, Done
<1>16. CASE FinishExpiry(i) BY <1>16, <1>j, <1>n, Zenon DEF FinishExpiry, Done, StartJob, NoJob
<1>17. CASE FinishWarmup(i) BY <1>17, <1>j, <1>n, Zenon DEF FinishWarmup, Done
<1>18. CASE FinishConfig(i) BY <1>18, <1>j, <1>n, Zenon DEF FinishConfig, Done
<1> QED
  BY <1>1, <1>2, <1>3, <1>4, <1>5, <1>6, <1>7, <1>8, <1>9, <1>10, <1>11, <1>12, <1>13,
     <1>14, <1>15, <1>16, <1>17, <1>18, Zenon DEF Calm

\* A step of one process leaves the others where they are.
LEMMA OthersFrame ==
  ASSUME TypeOK, NEW i \in Inst, Process(i), NEW k \in Inst, k # i
  PROVE  /\ st'[k] = st[k] /\ job'[k] = job[k]
         /\ hot'[k] = hot[k] /\ seq'[k] = seq[k] /\ torn'[k] = torn[k]
<1>t. /\ st \in [Inst -> Status] /\ job \in [Inst -> JobType]
      /\ hot \in [Inst -> SUBSET IPs] /\ seq \in [Inst -> Nat] /\ torn \in [Inst -> SUBSET IPs]
  BY Zenon DEF TypeOK, ProcessOK, WindowOK, HistoryOK
<1>1. CASE Calm(i)
  <2>1. hot'[k] = hot[k] /\ seq'[k] = seq[k] /\ torn'[k] = torn[k]
    BY <1>1, CalmFrame, Zenon DEF durable
  <2>2. st'[k] = st[k] /\ job'[k] = job[k]
    BY <1>1, <1>t, Zenon
    DEF Calm, Acquire, LoadFails, BeginStop, Shutdown, Stop, Close, Fetch, HandleMessage,
        HandleRedelivered, HandleMalformed, HandleDivert, HandleApply, Commit, Sweep,
        RenewFails, Maintain, WarmElapse, CommitFails, ApplyConfig, Unchanged, Divert,
        DivertFails, Raise, FinishObservation, FinishExpiry, FinishWarmup, FinishConfig,
        StartJob
  <2> QED BY <2>1, <2>2, Zenon
<1>2. CASE Crash(i) BY <1>2, <1>t, Zenon DEF Crash
<1>3. CASE \E v \in 1 .. MaxVersion : Load(i, v) BY <1>3, <1>t, Zenon DEF Load
<1>4. CASE \E ip \in IPs : Edge(i, ip) BY <1>4, <1>t DEF Edge
<1>5. CASE Persist(i) BY <1>5, <1>t, Zenon DEF Persist
<1>6. CASE PersistFails(i) BY <1>6, <1>t, Zenon DEF PersistFails, Raise
<1>7. CASE Publish(i) BY <1>7, <1>t, Zenon DEF Publish
<1>8. CASE PublishFails(i) BY <1>8, <1>t, Zenon DEF PublishFails, Raise
<1> QED BY <1>1, <1>2, <1>3, <1>4, <1>5, <1>6, <1>7, <1>8, Steps, Zenon

-----------------------------------------------------------------------------
(* Persist before publish, whatever the faults *)

LEMMA RecordRaises ==
  ASSUME TypeOK, NEW i \in Inst, record_transition(job[i])
  PROVE  storeSeq' \in Nat /\ storeSeq' >= storeSeq /\ job[i].seq < storeSeq'
BY DEF TypeOK, StoreOK, ProcessOK, JobType, record_transition

LEMMA PersistBeforePublishStep ==
  ASSUME TypeOK, PersistBeforePublish, [Next]_vars
  PROVE  PersistBeforePublish'
<1> USE DEF PersistBeforePublish, Publishing
<1>t. /\ storeSeq \in Nat /\ job \in [Inst -> JobType]
      /\ ids \in SUBSET [ip : IPs, to : {"HOT", "COLD"}, seq : Nat]
  BY Zenon DEF TypeOK, StoreOK, ProcessOK, LogsOK
<1>1. ASSUME NEW i \in Inst, Process(i) PROVE PersistBeforePublish'
  <2>o. \A k \in Inst \ {i} : job'[k] = job[k] BY <1>1, OthersFrame, Zenon
  <2>1. CASE Calm(i) BY <2>1, <2>o, CalmFrame, Zenon DEF durable
  <2>2. CASE Crash(i) BY <2>2, <2>o, <1>t, Zenon DEF Crash, NoJob
  <2>3. CASE \E v \in 1 .. MaxVersion : Load(i, v) BY <2>3, <2>o DEF Load
  <2>4. CASE \E ip \in IPs : Edge(i, ip) BY <2>4, <2>o, <1>t DEF Edge, JobType
  <2>5. CASE Persist(i)
    <3>1. job'[i].seq = job[i].seq BY <2>5, <1>t, Zenon DEF Persist, JobType
    <3>2. storeSeq' >= storeSeq /\ job[i].seq < storeSeq' /\ storeSeq' \in Nat
      BY <2>5, RecordRaises, Zenon DEF Persist
    <3>3. \A k \in Inst : job[k].seq \in Nat BY <1>t, Zenon DEF JobType
    <3>4. \A e \in ids : e.seq \in Nat BY <1>t, Zenon
    <3> QED BY <2>5, <2>o, <3>1, <3>2, <3>3, <3>4, <1>t DEF Persist
  <2>6. CASE PersistFails(i)
    <3>1. job'[i].step = "eval" BY <2>6, <1>t, Zenon DEF PersistFails, Raise, NoJob
    <3>2. storeSeq' >= storeSeq /\ storeSeq' \in Nat
      BY <2>6, RecordRaises, <1>t DEF PersistFails
    <3>3. \A k \in Inst : job[k].seq \in Nat BY <1>t DEF JobType
    <3>4. \A e \in ids : e.seq \in Nat BY <1>t
    <3> QED BY <2>6, <2>o, <3>1, <3>2, <3>3, <3>4, <1>t DEF PersistFails
  <2>7. CASE Publish(i)
    BY <2>7, <2>o, <1>t DEF Publish, append, EventId, JobType
  <2>8. CASE PublishFails(i)
    BY <2>8, <2>o, <1>t DEF PublishFails, Raise, append, EventId, NoJob
  <2> QED BY <1>1, <2>1, <2>2, <2>3, <2>4, <2>5, <2>6, <2>7, <2>8, Steps, Zenon
<1>2. CASE \E o \in Offsets : AckWait(o) BY <1>2, Zenon DEF AckWait
<1>3. CASE LeaseLapse BY <1>3, Zenon DEF LeaseLapse
<1>4. CASE PublishDoc BY <1>4, Zenon DEF PublishDoc
<1>5. CASE UNCHANGED vars BY <1>5, Zenon DEF vars
<1> QED BY <1>1, <1>2, <1>3, <1>4, <1>5, Zenon DEF Next

\* Nothing is on the hot-ip log, or about to be, before the durable counter is
\* past it: under every fault, a stalled owner included (transitions.py).
THEOREM PersistedFirst == Spec => []PersistBeforePublish
<1>1. Init => PersistBeforePublish
  BY DEF Init, PersistBeforePublish, Publishing, NoJob
<1> QED BY <1>1, PersistBeforePublishStep, Typed, PTL DEF Spec

\* The durable counter never goes back, whoever writes it (record_transition).
THEOREM CounterMonotone == Spec => SeqNeverBack
<1>1. ASSUME TypeOK, [Next]_vars PROVE [storeSeq' >= storeSeq]_storeSeq
  <2>1. ASSUME NEW i \in Inst, Process(i), storeSeq' # storeSeq PROVE storeSeq' >= storeSeq
    BY <1>1, <2>1, Steps, CalmFrame, RecordRaises, Zenon
    DEF durable, Crash, Load, Edge, Persist, PersistFails, Publish, PublishFails
  <2> QED BY <1>1, <2>1, Zenon DEF Next, AckWait, LeaseLapse, PublishDoc, vars
<1> QED BY <1>1, Typed, PTL DEF Spec, SeqNeverBack
=============================================================================
