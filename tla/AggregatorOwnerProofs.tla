----------------------- MODULE AggregatorOwnerProofs ------------------------
(***************************************************************************)
(* One owner at a time, while leases are renewed in time; and its window,  *)
(* the store and the log fit together: for any number of processes, IPs,   *)
(* observations and configuration versions.                                *)
(***************************************************************************)
EXTENDS AggregatorWorkerProofs, TLAPS

USE DEF consumer, store, logs, window, claims, config, history

-----------------------------------------------------------------------------
(* One owner at a time *)

\* A process that owns the shard holds its lease.
LeaseHeld == \A i \in Inst : st[i] \in Owning => lease = i

\* Only a process with a window has a job in hand.
JobsHaveWindow == \A i \in Inst : job[i] # NoJob => HasWindow(i)

\* A job that stands at a step with an await belongs to a process with a window.
LEMMA BusyHasWindow ==
  ASSUME JobsHaveWindow, NEW i \in Inst, job[i].step # "eval" \/ job[i].kind # "none"
  PROVE  HasWindow(i)
BY DEF JobsHaveWindow, NoJob

\* Only Acquire makes an owner, and no step takes another owner's lease away.
LEMMA LeaseFrame ==
  ASSUME TypeOK, JobsHaveWindow, NEW i \in Inst, Process(i), ~Acquire(i)
  PROVE  /\ st'[i] \in Owning => st[i] \in Owning
         /\ \A k \in Inst \ {i} : lease = k => lease' = k
         /\ st'[i] \in Owning /\ lease = i => lease' = i
<1>t. st \in [Inst -> Status] BY Zenon DEF TypeOK, ProcessOK
<1>b. job[i].step # "eval" \/ job[i].kind # "none" => st[i] \in Owning
  BY BusyHasWindow, Zenon DEF HasWindow
<1>1. CASE LoadFails(i) BY <1>1, <1>t, Zenon DEF LoadFails, Owning
<1>2. CASE BeginStop(i) BY <1>2, <1>t, Zenon DEF BeginStop, Owning
<1>3. CASE Shutdown(i) BY <1>3, <1>t, Zenon DEF Shutdown, Stop, Close, Owning
<1>4. CASE Sweep(i)
  BY <1>4, <1>t, ConstantsAssumption, Zenon DEF Sweep, RenewFails, Maintain, CanSweep, Owning
<1>5. CASE \E acks \in SUBSET handled[i] : CommitFails(i, acks)
  BY <1>5, <1>t, Zenon DEF CommitFails, CanHandle, Owning
<1>6. CASE DivertFails(i) \/ PersistFails(i) \/ PublishFails(i)
  BY <1>6, <1>b, Zenon DEF DivertFails, PersistFails, PublishFails
<1>7. CASE Crash(i)
  <2>1. st'[i] = "dead" BY <1>7, <1>t, Zenon DEF Crash
  <2> QED BY <1>7, <2>1, Zenon DEF Crash, Owning
<1>8. CASE \E v \in 1 .. MaxVersion : Load(i, v) BY <1>8, <1>t, Zenon DEF Load, Owning
<1>9. CASE UNCHANGED <<st, lease>> BY <1>9, Zenon
<1> QED
  BY <1>1, <1>2, <1>3, <1>4, <1>5, <1>6, <1>7, <1>8, <1>9, Zenon
  DEF Process, HandleMessage, HandleRedelivered, HandleMalformed, HandleDivert, HandleApply,
      Commit, Fetch, WarmElapse, ApplyConfig, JobStep, Failure, Unchanged, Edge, Persist,
      Publish, Divert, FinishObservation, FinishExpiry, FinishWarmup, FinishConfig

\* Only Load opens a window.
LEMMA CalmWindow ==
  ASSUME TypeOK, JobsHaveWindow, NEW i \in Inst, Calm(i), HasWindow(i)'
  PROVE  HasWindow(i)
<1>t. st \in [Inst -> Status] BY Zenon DEF TypeOK, ProcessOK
<1>b. job[i].step # "eval" \/ job[i].kind # "none" => HasWindow(i) BY BusyHasWindow, Zenon
<1> QED
  BY <1>t, <1>b, Zenon
  DEF Calm, Acquire, LoadFails, BeginStop, Shutdown, Stop, Close, Fetch, HandleMessage,
      HandleRedelivered, HandleMalformed, HandleDivert, HandleApply, Commit, Sweep,
      RenewFails, Maintain, CanSweep, WarmElapse, CommitFails, CanHandle, ApplyConfig,
      Unchanged, Divert, DivertFails, FinishObservation, FinishExpiry, FinishWarmup,
      FinishConfig, HasWindow, Owning

LEMMA LeaseHeldStep ==
  ASSUME "stall" \notin Faults, TypeOK, JobsHaveWindow, LeaseHeld, [Next]_vars
  PROVE  LeaseHeld'
<1> USE DEF LeaseHeld
<1>1. ASSUME NEW i \in Inst, Process(i) PROVE LeaseHeld'
  <2>o. \A k \in Inst \ {i} : st'[k] = st[k] BY <1>1, OthersFrame, Zenon
  <2>1. CASE Acquire(i)
    BY <2>1, <2>o, ConstantsAssumption, Zenon DEF Acquire
  <2>2. CASE ~Acquire(i)
    BY <1>1, <2>2, <2>o, LeaseFrame, Zenon
  <2> QED BY <2>1, <2>2, Zenon
<1>2. CASE \E o \in Offsets : AckWait(o) BY <1>2, Zenon DEF AckWait
<1>3. CASE LeaseLapse BY <1>3, Zenon DEF LeaseLapse, Gone, Owning
<1>4. CASE PublishDoc BY <1>4, Zenon DEF PublishDoc
<1>5. CASE UNCHANGED vars BY <1>5, Zenon DEF vars
<1> QED BY <1>1, <1>2, <1>3, <1>4, <1>5, Zenon DEF Next

LEMMA JobsHaveWindowStep ==
  ASSUME TypeOK, JobsHaveWindow, [Next]_vars
  PROVE  JobsHaveWindow'
<1> USE DEF JobsHaveWindow
<1>t. st \in [Inst -> Status] /\ job \in [Inst -> JobType] BY Zenon DEF TypeOK, ProcessOK
<1>1. ASSUME NEW i \in Inst, Process(i) PROVE JobsHaveWindow'
  <2>o. \A k \in Inst \ {i} : st'[k] = st[k] /\ job'[k] = job[k] BY <1>1, OthersFrame, Zenon
  <2> SUFFICES ASSUME job'[i] # NoJob PROVE HasWindow(i)'
    BY <2>o, Zenon DEF HasWindow
  <2> USE DEF HasWindow, Owning
  <2>b. job[i].step # "eval" \/ job[i].kind # "none" => HasWindow(i) BY BusyHasWindow, Zenon
  <2>1. CASE Acquire(i) BY <2>1, <1>t, Zenon DEF Acquire
  <2>2. CASE \E v \in 1 .. MaxVersion : Load(i, v) BY <2>2, <1>t, Zenon DEF Load
  <2>3. CASE LoadFails(i) BY <2>3, Zenon DEF LoadFails
  <2>4. CASE BeginStop(i) BY <2>4, <1>t, Zenon DEF BeginStop
  <2>5. CASE Shutdown(i) BY <2>5, Zenon DEF Shutdown, Stop, Close
  <2>6. CASE Sweep(i) BY <2>6, <1>t, Zenon DEF Sweep, RenewFails, Maintain, CanSweep
  <2>7. CASE \E acks \in SUBSET handled[i] : CommitFails(i, acks)
    BY <2>7, <1>t, Zenon DEF CommitFails, CanHandle
  <2>8. CASE DivertFails(i) \/ PersistFails(i) \/ PublishFails(i)
    BY <2>8, <1>t, Zenon DEF DivertFails, PersistFails, PublishFails, Raise
  <2>9. CASE Crash(i) BY <2>9, <1>t, Zenon DEF Crash
  <2>10. CASE HandleMessage(i)
    BY <2>10, Zenon
    DEF HandleMessage, HandleRedelivered, HandleMalformed, HandleDivert, HandleApply, CanHandle
  <2>11. CASE \E v \in 1 .. MaxVersion : ApplyConfig(i, v)
    BY <2>11, Zenon DEF ApplyConfig, CanPoll
  <2>12. CASE JobStep(i)
    BY <2>12, <2>b, <1>t, Zenon
    DEF JobStep, Unchanged, Evaluating, Edge, Persist, Publish, Divert, FinishObservation,
        FinishExpiry, FinishWarmup, FinishConfig, Done
  <2>13. CASE UNCHANGED <<st, job>> BY <2>13, Zenon
  <2> QED
    BY <1>1, <2>1, <2>2, <2>3, <2>4, <2>5, <2>6, <2>7, <2>8, <2>9, <2>10, <2>11, <2>12, <2>13
    DEF Process, Commit, Fetch, WarmElapse, Failure
<1>2. CASE UNCHANGED <<st, job>> BY <1>2, Zenon DEF HasWindow
<1> QED BY <1>1, <1>2, Zenon DEF Next, AckWait, LeaseLapse, PublishDoc, vars

LEMMA HeldIsSingle == LeaseHeld => OneOwner
BY Zenon DEF LeaseHeld, OneOwner

\* While one process acts, no other has a job or a window.
LEMMA Alone ==
  ASSUME JobsHaveWindow, LeaseHeld, NEW i \in Inst, NEW k \in Inst, k # i, st[i] \in Owning
  PROVE  st[k] \notin Owning /\ job[k] = NoJob
BY Zenon DEF JobsHaveWindow, LeaseHeld, HasWindow

LEMMA LeaseInit == Init => LeaseHeld /\ JobsHaveWindow
BY DEF Init, LeaseHeld, JobsHaveWindow, Owning

\* Who owns the shard holds its lease, and only a process with a window has a
\* job (on_assigned, release, the worker's lock).
THEOREM OwnersHoldLease ==
  ASSUME "stall" \notin Faults PROVE Spec => [](LeaseHeld /\ JobsHaveWindow)
<1>1. ASSUME TypeOK, LeaseHeld, JobsHaveWindow, [Next]_vars PROVE LeaseHeld' /\ JobsHaveWindow'
  BY <1>1, LeaseHeldStep, JobsHaveWindowStep, Zenon
<1> QED BY <1>1, LeaseInit, Typed, PTL DEF Spec

\* A shard has one owner at a time, through every crash, failed call, handover
\* and lapsed lease (acquire_lease, release, renew_leases).
THEOREM SingleOwner == ASSUME "stall" \notin Faults PROVE Spec => []OneOwner
BY HeldIsSingle, OwnersHoldLease, PTL

-----------------------------------------------------------------------------
(* Its window, the store and the log *)

\* The transition being published is the one in the store.
PublishingPersisted ==
  \A i \in Inst : Publishing(i) => (job[i].ip \in storeHot <=> job[i].to = "HOT")

\* An owner's counter is past every event of the log, and past the transition
\* in hand, which is past every event of the log too.
CounterAhead ==
  \A i \in Inst : HasWindow(i) =>
    /\ \A e \in ids : e.seq < seq[i]
    /\ job[i].step \in {"persist", "publish"} =>
         job[i].seq < seq[i] /\ \A e \in ids : e.seq < job[i].seq

OwnerInv ==
  /\ LeaseHeld /\ JobsHaveWindow /\ PublishingPersisted /\ CounterAhead
  /\ HotSetCurrent /\ LeakOnlyByLostRemoval

LEMMA PublishingPersistedStep ==
  ASSUME TypeOK, OwnerInv, [Next]_vars
  PROVE  PublishingPersisted'
<1> USE DEF PublishingPersisted, Publishing, OwnerInv
<1>t. storeHot \in SUBSET IPs /\ job \in [Inst -> JobType]
  BY Zenon DEF TypeOK, StoreOK, ProcessOK
<1>1. ASSUME NEW i \in Inst, Process(i) PROVE PublishingPersisted'
  <2>o. \A k \in Inst \ {i} : job'[k] = job[k] BY <1>1, OthersFrame, Zenon
  <2>a. job[i].step \in {"persist", "publish"} => \A k \in Inst \ {i} : job[k].step = "eval"
    BY Alone, BusyHasWindow, Zenon DEF HasWindow, NoJob
  <2>1. CASE Calm(i) BY <2>1, <2>o, CalmFrame, Zenon DEF durable
  <2>2. CASE Crash(i) BY <2>2, <2>o, <1>t, Zenon DEF Crash, NoJob
  <2>3. CASE \E v \in 1 .. MaxVersion : Load(i, v) BY <2>3, <2>o, Zenon DEF Load
  <2>4. CASE \E ip \in IPs : Edge(i, ip) BY <2>4, <2>o, <1>t DEF Edge, JobType
  <2>5. CASE Persist(i)
    <3>1. job'[i].ip = job[i].ip /\ job'[i].to = job[i].to
      BY <2>5, <1>t, Zenon DEF Persist, JobType
    <3>2. job[i].ip \in storeHot' <=> job[i].to = "HOT"
      BY <2>5, Zenon DEF Persist, record_transition
    <3> QED BY <2>5, <2>o, <2>a, <3>1, <3>2, Zenon DEF Persist
  <2>6. CASE PersistFails(i)
    BY <2>6, <2>o, <2>a, <1>t, Zenon DEF PersistFails, Raise, NoJob
  <2>7. CASE Publish(i) BY <2>7, <2>o, <1>t DEF Publish, JobType
  <2>8. CASE PublishFails(i) BY <2>8, <2>o, <1>t, Zenon DEF PublishFails, Raise, NoJob
  <2> QED BY <1>1, <2>1, <2>2, <2>3, <2>4, <2>5, <2>6, <2>7, <2>8, Steps, Zenon
<1>2. CASE UNCHANGED <<storeHot, job>> BY <1>2, Zenon
<1> QED BY <1>1, <1>2, Zenon DEF Next, AckWait, LeaseLapse, PublishDoc, vars

LEMMA CounterAheadStep ==
  ASSUME TypeOK, PersistBeforePublish, OwnerInv, [Next]_vars
  PROVE  CounterAhead'
<1> USE DEF OwnerInv
<1>t. /\ st \in [Inst -> Status] /\ job \in [Inst -> JobType] /\ seq \in [Inst -> Nat]
      /\ ids \in SUBSET [ip : IPs, to : {"HOT", "COLD"}, seq : Nat] /\ storeSeq \in Nat
  BY Zenon DEF TypeOK, ProcessOK, WindowOK, LogsOK, StoreOK
<1>e. /\ \A e \in ids : e.seq \in Nat
      /\ \A k \in Inst : job[k].seq \in Nat
  BY <1>t, Zenon DEF JobType
<1>1. ASSUME NEW i \in Inst, Process(i) PROVE CounterAhead'
  <2>o. \A k \in Inst \ {i} : st'[k] = st[k] /\ job'[k] = job[k] /\ seq'[k] = seq[k]
    BY <1>1, OthersFrame, Zenon
  <2>b. job[i].step # "eval" \/ job[i].kind # "none" => HasWindow(i) BY BusyHasWindow, Zenon
  <2>a. HasWindow(i) => \A k \in Inst \ {i} : ~HasWindow(k)
    BY Alone, Zenon DEF HasWindow
  <2>1. CASE Calm(i)
    <3>1. HasWindow(i)' => HasWindow(i) BY <2>1, CalmWindow, Zenon
    <3> QED BY <2>1, <2>o, <3>1, CalmFrame, Zenon DEF durable, CounterAhead, HasWindow
  <2>2. CASE Crash(i)
    <3>1. ~HasWindow(i)' BY <2>2, <1>t, Zenon DEF Crash, HasWindow, Owning
    <3> QED BY <2>2, <2>o, <3>1, Zenon DEF Crash, CounterAhead, HasWindow
  <2>3. CASE \E v \in 1 .. MaxVersion : Load(i, v)
    <3>1. \A e \in ids' : e.seq < seq'[i]
      BY <2>3, <1>t DEF Load, PersistBeforePublish
    <3>2. job'[i] = NoJob BY <2>3, Zenon DEF Load, JobsHaveWindow, HasWindow
    <3> QED BY <2>3, <2>o, <3>1, <3>2 DEF Load, CounterAhead, HasWindow, NoJob
  <2>4. CASE \E ip \in IPs : Edge(i, ip)
    <3>1. HasWindow(i) BY <2>4, <2>b, Zenon DEF Edge, Evaluating
    <3>2. seq'[i] = seq[i] + 1 /\ job'[i].seq = seq[i] /\ ids' = ids /\ seq[i] \in Nat
      BY <2>4, <1>t DEF Edge, JobType
    <3>3. job'[i].seq < seq'[i] /\ \A e \in ids' : e.seq < seq'[i] /\ e.seq < job'[i].seq
      <4>1. \A e \in ids : e.seq < seq[i] BY <3>1, Zenon DEF CounterAhead
      <4> QED BY <3>2, <4>1, <1>e
    <3>4. \A k \in Inst \ {i} : ~HasWindow(k)' BY <2>o, <2>a, <3>1, Zenon DEF HasWindow
    <3> QED BY <3>3, <3>4, Zenon DEF CounterAhead
  <2>5. CASE Persist(i)
    <3>1. HasWindow(i) BY <2>5, <2>b, Zenon DEF Persist
    <3>2. job'[i].seq = job[i].seq BY <2>5, <1>t, Zenon DEF Persist, JobType
    <3> QED BY <2>5, <2>o, <3>1, <3>2, Zenon DEF Persist, CounterAhead, HasWindow
  <2>6. CASE PersistFails(i)
    <3>1. HasWindow(i) BY <2>6, <2>b, Zenon DEF PersistFails
    <3>2. job'[i].step = "eval" BY <2>6, <1>t, Zenon DEF PersistFails, Raise, NoJob
    <3> QED BY <2>6, <2>o, <3>1, <3>2, Zenon DEF PersistFails, CounterAhead, HasWindow
  <2>7. CASE Publish(i)
    <3>1. HasWindow(i) BY <2>7, <2>b, Zenon DEF Publish
    <3>2. job'[i].step = "eval" BY <2>7, <1>t DEF Publish, JobType
    <3>3. \A e \in ids' : e.seq < seq[i]
      <4>1. ids' = ids \cup {EventId(job[i])} BY <2>7, Zenon DEF Publish, append
      <4>2. job[i].seq < seq[i] BY <2>7, <3>1, Zenon DEF Publish, CounterAhead
      <4>3. EventId(job[i]).seq = job[i].seq BY Zenon DEF EventId
      <4> QED BY <3>1, <4>1, <4>2, <4>3, Zenon DEF CounterAhead
    <3> QED BY <2>7, <2>o, <2>a, <3>1, <3>2, <3>3, Zenon DEF Publish, CounterAhead, HasWindow
  <2>8. CASE PublishFails(i)
    <3>1. HasWindow(i) BY <2>8, <2>b, Zenon DEF PublishFails
    <3>2. job'[i].step = "eval" BY <2>8, <1>t, Zenon DEF PublishFails, Raise, NoJob
    <3>3. \A e \in ids' : e.seq < seq[i]
      BY <2>8, <3>1 DEF PublishFails, append, EventId, CounterAhead
    <3> QED BY <2>8, <2>o, <2>a, <3>1, <3>2, <3>3, Zenon DEF PublishFails, CounterAhead, HasWindow
  <2> QED BY <1>1, <2>1, <2>2, <2>3, <2>4, <2>5, <2>6, <2>7, <2>8, Steps, Zenon
<1>2. CASE UNCHANGED <<ids, st, job, seq>> BY <1>2, Zenon DEF CounterAhead, HasWindow
<1> QED BY <1>1, <1>2, Zenon DEF Next, AckWait, LeaseLapse, PublishDoc, vars

LEMMA HotSetCurrentStep ==
  ASSUME TypeOK, OwnerInv, [Next]_vars
  PROVE  HotSetCurrent'
<1> USE DEF OwnerInv
<1>t. /\ st \in [Inst -> Status] /\ job \in [Inst -> JobType] /\ storeHot \in SUBSET IPs
      /\ hot \in [Inst -> SUBSET IPs] /\ torn \in [Inst -> SUBSET IPs]
  BY Zenon DEF TypeOK, ProcessOK, WindowOK, StoreOK, HistoryOK
<1>1. ASSUME NEW i \in Inst, Process(i) PROVE HotSetCurrent'
  <2>o. \A k \in Inst \ {i} : /\ st'[k] = st[k] /\ job'[k] = job[k]
                              /\ hot'[k] = hot[k] /\ torn'[k] = torn[k]
    BY <1>1, OthersFrame, Zenon
  <2>b. job[i].step # "eval" \/ job[i].kind # "none" => HasWindow(i) BY BusyHasWindow, Zenon
  <2>a. HasWindow(i) => \A k \in Inst \ {i} : ~HasWindow(k)'
    BY <2>o, Alone, Zenon DEF HasWindow
  <2>w. UNCHANGED storeHot => \A k \in Inst \ {i} : HasWindow(k)' => Agrees(k)'
    BY <2>o, Zenon DEF HotSetCurrent, HasWindow, Publishing, Agrees
  <2> SUFFICES /\ UNCHANGED storeHot \/ HasWindow(i)
               /\ HasWindow(i)' => Agrees(i)'
    BY <2>a, <2>w, Zenon DEF HotSetCurrent
  <2>1. CASE Calm(i)
    BY <2>1, CalmFrame, CalmWindow, Zenon DEF durable, HotSetCurrent, Agrees, Publishing
  <2>2. CASE Crash(i)
    <3>1. st'[i] = "dead" BY <2>2, <1>t, Zenon DEF Crash
    <3> QED BY <2>2, <3>1, Zenon DEF Crash, HasWindow, Owning
  <2>3. CASE \E v \in 1 .. MaxVersion : Load(i, v) BY <2>3, <1>t DEF Load, Agrees
  <2>4. CASE \E ip \in IPs : Edge(i, ip)
    <3>1. HasWindow(i) /\ ~Publishing(i) BY <2>4, <2>b, Zenon DEF Edge, Evaluating, Publishing
    <3> QED BY <2>4, <3>1, Zenon DEF Edge, HotSetCurrent, Agrees
  <2>5. CASE Persist(i)
    <3>1. HasWindow(i) /\ ~Publishing(i) BY <2>5, <2>b, Zenon DEF Persist, Publishing
    <3>2. Publishing(i)' /\ job'[i].ip = job[i].ip
      BY <2>5, <1>t, Zenon DEF Persist, Publishing, JobType
    <3> QED BY <2>5, <3>1, <3>2, Zenon DEF Persist, record_transition, HotSetCurrent, Agrees
  <2>6. CASE PersistFails(i)
    <3>1. HasWindow(i) /\ ~Publishing(i) BY <2>6, <2>b, Zenon DEF PersistFails, Publishing
    <3>2. \/ torn' = torn /\ storeHot' = storeHot
          \/ job[i].ip \in torn'[i] /\ torn[i] \subseteq torn'[i]
      BY <2>6, <1>t, Zenon DEF PersistFails
    <3> QED BY <2>6, <3>1, <3>2, Zenon DEF PersistFails, record_transition, HotSetCurrent, Agrees
  <2>7. CASE Publish(i)
    <3>1. HasWindow(i) BY <2>7, <2>b, Zenon DEF Publish
    <3>2. job[i].to \in {"HOT", "COLD"} BY <1>t, Zenon DEF JobType
    <3>3. hot'[i] = (IF job[i].to = "HOT" THEN hot[i] \cup {job[i].ip} ELSE hot[i] \ {job[i].ip})
      BY <2>7, <1>t, Zenon DEF Publish
    <3>4. torn'[i] = torn[i] \ {job[i].ip} BY <2>7, <1>t, Zenon DEF Publish
    <3>5. job[i].ip \in storeHot <=> job[i].to = "HOT"
      BY <2>7, Zenon DEF Publish, PublishingPersisted, Publishing
    <3>6. storeHot' = storeHot BY <2>7, Zenon DEF Publish
    <3>7. Agrees(i) BY <3>1, Zenon DEF HotSetCurrent
    <3> QED BY <3>1, <3>2, <3>3, <3>4, <3>5, <3>6, <3>7, Zenon DEF Agrees
  <2>8. CASE PublishFails(i)
    <3>1. HasWindow(i) BY <2>8, <2>b, Zenon DEF PublishFails
    <3>2. torn'[i] = torn[i] \cup {job[i].ip} BY <2>8, <1>t, Zenon DEF PublishFails
    <3> QED BY <2>8, <3>1, <3>2, Zenon DEF PublishFails, HotSetCurrent, Agrees
  <2> QED BY <1>1, <2>1, <2>2, <2>3, <2>4, <2>5, <2>6, <2>7, <2>8, Steps, Zenon
<1>2. CASE UNCHANGED <<storeHot, st, job, hot, torn>>
  BY <1>2, Zenon DEF HotSetCurrent, Agrees, HasWindow, Publishing
<1> QED BY <1>1, <1>2, Zenon DEF Next, AckWait, LeaseLapse, PublishDoc, vars

LEMMA AheadIsFresh == JobsHaveWindow /\ CounterAhead /\ TypeOK => FreshEventId
<1> SUFFICES ASSUME JobsHaveWindow, CounterAhead, TypeOK, NEW i \in Inst,
                    job[i].step \in {"persist", "publish"}
             PROVE  EventId(job[i]) \notin ids
  BY Zenon DEF FreshEventId
<1>1. HasWindow(i) BY BusyHasWindow, Zenon
<1>2. \A e \in ids : e.seq < job[i].seq BY <1>1, Zenon DEF CounterAhead
<1>3. EventId(job[i]).seq = job[i].seq BY Zenon DEF EventId
<1>4. job[i].seq \in Nat BY Zenon DEF TypeOK, ProcessOK, JobType
<1> QED BY <1>2, <1>3, <1>4

LEMMA LeakStep ==
  ASSUME TypeOK, OwnerInv, [Next]_vars
  PROVE  LeakOnlyByLostRemoval'
<1> USE DEF OwnerInv, Removing, Publishing
<1>t. job \in [Inst -> JobType] BY Zenon DEF TypeOK, ProcessOK
<1>1. ASSUME NEW i \in Inst, Process(i) PROVE LeakOnlyByLostRemoval'
  <2>o. \A k \in Inst \ {i} : job'[k] = job[k] BY <1>1, OthersFrame, Zenon
  <2> SUFFICES ASSUME NEW ip \in told', ip \notin storeHot'
               PROVE  ip \in lost' \/ Removing(ip)'
    BY DEF LeakOnlyByLostRemoval
  <2>p. ip \in told \ storeHot => ip \in lost \/ Removing(ip) BY Zenon DEF LeakOnlyByLostRemoval
  <2>1. CASE Calm(i) BY <2>1, <2>o, <2>p, CalmFrame, Zenon DEF durable
  <2>2. CASE Crash(i) BY <2>2, <2>o, <2>p, Zenon DEF Crash, LostRemoval
  <2>3. CASE \E v \in 1 .. MaxVersion : Load(i, v) BY <2>3, <2>p, Zenon DEF Load
  <2>4. CASE \E x \in IPs : Edge(i, x) BY <2>4, <2>o, <2>p, Zenon DEF Edge, Evaluating
  <2>5. CASE Persist(i)
    <3>1. /\ job'[i].step = "publish" /\ job'[i].ip = job[i].ip /\ job'[i].to = job[i].to
      BY <2>5, <1>t, Zenon DEF Persist, JobType
    <3>2. told' = told /\ lost' = lost BY <2>5, Zenon DEF Persist
    <3>3. CASE ip \in storeHot
      <4>1. ip = job[i].ip /\ job[i].to # "HOT"
        BY <2>5, <3>3, Zenon DEF Persist, record_transition
      <4>2. job[i].to = "COLD" BY <4>1, <1>t, Zenon DEF JobType
      <4> QED BY <3>1, <4>1, <4>2, Zenon
    <3>4. CASE ip \notin storeHot
      <4>1. ip \in lost \/ Removing(ip) BY <3>2, <3>4, <2>p, Zenon
      <4>2. ASSUME Removing(ip) PROVE Removing(ip)'
        <5>1. PICK k \in Inst : job[k].step = "publish" /\ job[k].ip = ip /\ job[k].to = "COLD"
          BY <4>2, Zenon
        <5>2. k # i BY <5>1, <2>5, Zenon DEF Persist
        <5> QED BY <5>1, <5>2, <2>o, Zenon
      <4> QED BY <3>2, <4>1, <4>2, Zenon
    <3> QED BY <3>3, <3>4, Zenon
  <2>6. CASE PersistFails(i)
    <3>1. told' = told /\ lost \subseteq lost' BY <2>6, Zenon DEF PersistFails
    <3>2. CASE ip \in storeHot
      <4>1. ip = job[i].ip /\ job[i].to # "HOT" /\ storeHot' # storeHot
        BY <2>6, <3>2, Zenon DEF PersistFails, record_transition
      <4>2. job[i].to = "COLD" BY <4>1, <1>t, Zenon DEF JobType
      <4> QED BY <2>6, <4>1, <4>2, Zenon DEF PersistFails
    <3>3. CASE ip \notin storeHot
      <4>1. ip \in lost \/ Removing(ip) BY <3>1, <3>3, <2>p, Zenon
      <4>2. ASSUME Removing(ip) PROVE Removing(ip)'
        <5>1. PICK k \in Inst : job[k].step = "publish" /\ job[k].ip = ip /\ job[k].to = "COLD"
          BY <4>2
        <5>2. k # i BY <5>1, <2>6, Zenon DEF PersistFails
        <5> QED BY <5>1, <5>2, <2>o
      <4> QED BY <3>1, <4>1, <4>2, Zenon
    <3> QED BY <3>2, <3>3
  <2>7. ASSUME job[i].step = "publish", append(job[i]), UNCHANGED storeHot,
               lost' = lost \ {job[i].ip}
        PROVE  ip \in lost' \/ Removing(ip)'
    <3>1. EventId(job[i]) \notin ids BY <2>7, AheadIsFresh, Zenon DEF FreshEventId
    <3>2. job[i].ip \in storeHot <=> job[i].to = "HOT" BY <2>7, Zenon DEF PublishingPersisted
    <3>3. ip # job[i].ip /\ ip \in told BY <2>7, <3>1, <3>2, Zenon DEF append
    <3> QED BY <2>7, <2>o, <2>p, <3>3, Zenon
  <2>8. CASE Publish(i) BY <2>7, <2>8, Zenon DEF Publish
  <2>9. CASE PublishFails(i)
    BY <2>7, <2>9, <2>o, <2>p, Zenon DEF PublishFails, LostRemoval
  <2> QED BY <1>1, <2>1, <2>2, <2>3, <2>4, <2>5, <2>6, <2>8, <2>9, Steps, Zenon
<1>2. CASE UNCHANGED <<told, storeHot, lost, job>> BY <1>2 DEF LeakOnlyByLostRemoval
<1> QED BY <1>1, <1>2, Zenon DEF Next, AckWait, LeaseLapse, PublishDoc, vars

LEMMA OwnerInvInit == Init => OwnerInv
<1> SUFFICES ASSUME Init PROVE OwnerInv BY Zenon
<1>1. LeaseHeld /\ JobsHaveWindow BY LeaseInit, Zenon
<1>2. \A i \in Inst : ~HasWindow(i) /\ ~Publishing(i)
  BY Zenon DEF Init, HasWindow, Owning, Publishing, NoJob
<1>3. PublishingPersisted /\ CounterAhead /\ HotSetCurrent
  BY <1>2, Zenon DEF PublishingPersisted, CounterAhead, HotSetCurrent
<1>4. LeakOnlyByLostRemoval BY Zenon DEF Init, LeakOnlyByLostRemoval
<1> QED BY <1>1, <1>3, <1>4, Zenon DEF OwnerInv

\* The inductive invariant: while no process stalls past its lease, there is
\* one owner, and its window, the store and the log fit together.
THEOREM OwnerInvariant == ASSUME "stall" \notin Faults PROVE Spec => []OwnerInv
<1>1. ASSUME TypeOK, PersistBeforePublish, OwnerInv, [Next]_vars PROVE OwnerInv'
  <2>1. LeaseHeld' /\ JobsHaveWindow'
    BY <1>1, LeaseHeldStep, JobsHaveWindowStep, Zenon DEF OwnerInv
  <2>2. PublishingPersisted' BY <1>1, PublishingPersistedStep, Zenon
  <2>3. CounterAhead' BY <1>1, CounterAheadStep, Zenon
  <2>4. HotSetCurrent' /\ LeakOnlyByLostRemoval' BY <1>1, HotSetCurrentStep, LeakStep, Zenon
  <2> QED BY <2>1, <2>2, <2>3, <2>4, Zenon DEF OwnerInv
<1> QED BY <1>1, OwnerInvInit, Typed, PersistedFirst, PTL DEF Spec

\* No owner reuses an event_id the log has seen: the log's deduplication drops
\* no transition (transitions.py, load(), record_transition's counter).
THEOREM EventIdsFresh == ASSUME "stall" \notin Faults PROVE Spec => []FreshEventId
<1>1. OwnerInv /\ TypeOK => FreshEventId BY AheadIsFresh, Zenon DEF OwnerInv
<1> QED BY <1>1, OwnerInvariant, Typed, PTL

\* What the next owner would inherit is what the owner has in memory, but for
\* the transition in hand and those that failed half way (set_state, load()).
THEOREM HotSetInherited == ASSUME "stall" \notin Faults PROVE Spec => []HotSetCurrent
<1>1. OwnerInv => HotSetCurrent BY Zenon DEF OwnerInv
<1> QED BY <1>1, OwnerInvariant, PTL

\* The only way to leave an IP in the trie that no owner knows about is a
\* removal that was persisted and whose event was lost (transitions.py).
THEOREM OnlyLostRemovalsLeak ==
  ASSUME "stall" \notin Faults PROVE Spec => []LeakOnlyByLostRemoval
<1>1. OwnerInv => LeakOnlyByLostRemoval BY Zenon DEF OwnerInv
<1> QED BY <1>1, OwnerInvariant, PTL
=============================================================================
