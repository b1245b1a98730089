-------------------------- MODULE AggregatorWorker --------------------------
(***************************************************************************)
(* One shard of the aggregator, from the observations log to the hot-ip    *)
(* log: the processes that own the shard one after another, the durable    *)
(* consumer that feeds them, the state store that outlives them, and the   *)
(* crashes, failed calls and stalls between any two of their awaits.       *)
(*                                                                         *)
(* A process acts on its shard under one lock, so it has at most one job;  *)
(* a job is cut at its awaits: a transition is evaluated, then persisted,  *)
(* then published.  Counts are abstracted: an evaluation of an IP may find *)
(* any count, so it may or may not cross the threshold ahead of it         *)
(* (ShardWindow has the exact counts).                                     *)
(***************************************************************************)
EXTENDS Integers, Sequences, FiniteSets

CONSTANTS
  Inst,        \* process incarnations, each with its own lease token
  IPs,         \* the IPs of the shard
  MaxOffset,   \* observations in the log: offsets 1 .. MaxOffset
  IpOf,        \* the IP an observation is about
  Malformed,   \* the offsets whose message does not decode
  Faults,      \* the faults that may happen
  InOrder,     \* does the durable deliver in sequence order across owners?
  None,        \* no instance, no IP
  MaxSeq,      \* bound: the last sequence number handed out
  MaxVersion,  \* bound: the last configuration version published
  MaxQueue     \* bound: messages in a consumer's queue

Offsets == 1 .. MaxOffset
FaultKinds == {"crash", "store", "publish", "ack", "stall"}

ASSUME ConstantsAssumption ==
  /\ MaxOffset \in Nat /\ MaxSeq \in Nat /\ MaxVersion \in Nat /\ MaxQueue \in Nat
  /\ IpOf \in [Offsets -> IPs] /\ Malformed \subseteq Offsets
  /\ Faults \subseteq FaultKinds /\ InOrder \in BOOLEAN
  /\ None \notin Inst /\ None \notin IPs

VARIABLES
  \* the durable consumer of the shard's partition
  js,          \* per offset: "new", "out" (delivered), "back" (to redeliver), "acked"
  holder,      \* the process an offset was last delivered to
  \* the state store
  storeHot, storeSeq, lease,
  \* the hot-ip and reconciliation logs
  ids,         \* the events appended to the hot-ip log
  told,        \* the IPs the hot-ip log says are HOT (the fold of its events)
  recon,       \* the offsets diverted to reconciliation
  \* the configuration document
  doc,
  \* each process
  st, hot, inherited, warm, seq,
  applied,     \* the offsets its window counted
  pos, handled, queue, job, wver, cver,
  \* history, read by the properties only
  settled,     \* the offsets some process finished handling for good
  lost,        \* IPs whose removal was persisted and never published
  torn         \* per process: IPs whose transition failed after it was persisted

consumer == <<js, holder>>
store == <<storeHot, storeSeq, lease>>
logs == <<ids, told, recon>>
window == <<hot, inherited, warm, seq, applied>>
claims == <<pos, handled, queue>>
config == <<doc, wver, cver>>
history == <<settled, lost, torn>>
vars == <<consumer, store, logs, window, claims, config, history, st, job>>

Owning == {"leased", "run", "consumeFailed", "sweepFailed", "stop"}
Alive == Owning \cup {"closing"}
Status == Alive \cup {"off", "dead"}

NoJob == [kind |-> "none", step |-> "eval", off |-> 0, todo |-> {},
          ip |-> None, to |-> "COLD", seq |-> 0]

JobType ==
  [kind : {"none", "observation", "expiry", "warmup", "config"},
   step : {"eval", "divert", "persist", "publish"}, off : Offsets \cup {0},
   todo : SUBSET IPs, ip : IPs \cup {None}, to : {"HOT", "COLD"}, seq : Nat]

\* The id of the event a job is about to publish: compute_event_id is
\* injective in (sequence, event type, subject).
EventId(j) == [ip |-> j.ip, to |-> j.to, seq |-> j.seq]

\* A process that has given up the shard.
Gone(i) == st[i] \in {"closing", "dead"}

\* A replacement process exists; the last one neither fails nor stops.
Spare(i) == \E k \in Inst \ {i} : st[k] = "off"

Init ==
  /\ js = [o \in Offsets |-> "new"] /\ holder = [o \in Offsets |-> None]
  /\ storeHot = {} /\ storeSeq = 0 /\ lease = None
  /\ ids = {} /\ told = {} /\ recon = {} /\ doc = 1
  /\ st = [i \in Inst |-> "off"]
  /\ hot = [i \in Inst |-> {}] /\ inherited = [i \in Inst |-> {}]
  /\ warm = [i \in Inst |-> "done"] /\ seq = [i \in Inst |-> 0]
  /\ pos = [i \in Inst |-> 0] /\ handled = [i \in Inst |-> {}]
  /\ queue = [i \in Inst |-> <<>>] /\ job = [i \in Inst |-> NoJob]
  /\ wver = [i \in Inst |-> 1] /\ cver = [i \in Inst |-> 1]
  /\ applied = [i \in Inst |-> {}] /\ settled = {} /\ lost = {}
  /\ torn = [i \in Inst |-> {}]

-----------------------------------------------------------------------------
(* The durable consumer (external: a JetStream pull durable) *)

\* A consumer's fetch loop receives a message; it runs until close().  The
\* durable hands out what is to be redelivered before the next new message.
Fetch(i, o) ==
  /\ st[i] \in Alive \ {"leased"} /\ Len(queue[i]) < MaxQueue
  /\ \/ js[o] = "back"
     \/ /\ js[o] = "new" /\ \A p \in 1 .. o - 1 : js[p] # "new"
        /\ \A p \in Offsets : js[p] # "back"
  /\ InOrder => \A p \in 1 .. o - 1 : js[p] = "acked" \/ (js[p] = "out" /\ holder[p] = i)
  /\ js' = [js EXCEPT ![o] = "out"] /\ holder' = [holder EXCEPT ![o] = i]
  /\ queue' = [queue EXCEPT ![i] = Append(@, o)]
  /\ UNCHANGED <<store, logs, window, pos, handled, config, history, st, job>>

\* ack_wait runs out on a delivery.  A live process acknowledges every second,
\* thirty times sooner, unless it is stalled.
AckWait(o) ==
  /\ js[o] = "out"
  /\ Gone(holder[o]) \/ "stall" \in Faults
  /\ js' = [js EXCEPT ![o] = "back"]
  /\ UNCHANGED <<holder, store, logs, window, claims, config, history, st, job>>

\* A lease that is not renewed lapses after its TTL.
LeaseLapse ==
  /\ lease # None
  /\ Gone(lease) \/ "stall" \in Faults
  /\ lease' = None
  /\ UNCHANGED <<consumer, storeHot, storeSeq, logs, window, claims, config, history, st, job>>

\* The operator publishes a configuration document.
PublishDoc ==
  /\ doc < MaxVersion /\ doc' = doc + 1
  /\ UNCHANGED <<consumer, store, logs, window, claims, wver, cver, history, st, job>>

-----------------------------------------------------------------------------
(* Claiming and giving up the shard *)

\* Mutant: the lease is taken from whoever holds it.
Acquire_anyway(i) ==
  /\ st[i] = "off"
  /\ lease' = i /\ st' = [st EXCEPT ![i] = "leased"]
  /\ UNCHANGED <<consumer, storeHot, storeSeq, logs, window, claims, config, history, job>>

\* on_assigned(): acquire_lease is granted.  A refusal changes nothing: the
\* start is retried or the process exits.
Acquire(i) ==
  /\ st[i] = "off" /\ lease = None
  /\ lease' = i /\ st' = [st EXCEPT ![i] = "leased"]
  /\ UNCHANGED <<consumer, storeHot, storeSeq, logs, window, claims, config, history, job>>

\* Mutant: the durable counter is not read.
Load_without_counter(i, version) ==
  /\ st[i] = "leased" /\ version <= doc
  /\ st' = [st EXCEPT ![i] = "run"]
  /\ hot' = [hot EXCEPT ![i] = storeHot] /\ inherited' = [inherited EXCEPT ![i] = storeHot]
  /\ warm' = [warm EXCEPT ![i] = IF storeHot = {} THEN "done" ELSE "warming"]
  /\ wver' = [wver EXCEPT ![i] = version] /\ cver' = [cver EXCEPT ![i] = version]
  /\ UNCHANGED <<consumer, store, logs, seq, applied, claims, doc, history, job>>

\* on_assigned(): the store is loaded and the window built on it, under the
\* configuration the process read when it started.
Load(i, version) ==
  /\ st[i] = "leased" /\ version <= doc
  /\ st' = [st EXCEPT ![i] = "run"]
  /\ hot' = [hot EXCEPT ![i] = storeHot] /\ inherited' = [inherited EXCEPT ![i] = storeHot]
  /\ warm' = [warm EXCEPT ![i] = IF storeHot = {} THEN "done" ELSE "warming"]
  /\ seq' = [seq EXCEPT ![i] = storeSeq]
  /\ wver' = [wver EXCEPT ![i] = version] /\ cver' = [cver EXCEPT ![i] = version]
  /\ UNCHANGED <<consumer, store, logs, applied, claims, doc, history, job>>

\* load() fails: the start fails, and stop() releases the lease.
LoadFails(i) ==
  /\ st[i] = "leased" /\ "store" \in Faults /\ Spare(i)
  /\ st' = [st EXCEPT ![i] = "dead"]
  /\ lease' = IF lease = i THEN None ELSE lease
  /\ UNCHANGED <<consumer, storeHot, storeSeq, logs, window, claims, config, history, job>>

\* SIGTERM, or run() seeing one of its tasks fail, sets the stop flag; a job
\* that holds the lock is finished.
BeginStop(i) ==
  /\ st[i] \in {"run", "consumeFailed", "sweepFailed"}
  /\ st[i] = "run" => Spare(i)
  /\ st' = [st EXCEPT ![i] = "stop"]
  /\ UNCHANGED <<consumer, store, logs, window, claims, config, history, job>>

Acked(O) == [o \in Offsets |-> IF o \in O THEN "acked" ELSE js[o]]

\* stop() under the lock: acknowledge what was handled, then release, even
\* when the acknowledgement fails part of the way, or is rejected whole because
\* an earlier one that failed part of the way acknowledged some of the list.
\* A release that fails leaves the lease to lapse.
Stop(i, acks) ==
  /\ st[i] = "stop" /\ job[i] = NoJob
  /\ acks = handled[i] \/ "ack" \in Faults
  /\ js' = Acked(acks)
  /\ \/ lease' = IF lease = i THEN None ELSE lease
     \/ "store" \in Faults /\ lease' = lease
  /\ st' = [st EXCEPT ![i] = "closing"]
  /\ UNCHANGED <<holder, storeHot, storeSeq, logs, window, claims, config, history, job>>

\* close(): the fetched and unacknowledged are naked, except what the server
\* sent and the fetch loop never received.
Close(i, unreached) ==
  LET held == {o \in Offsets : js[o] = "out" /\ holder[o] = i}
  IN  /\ st[i] = "closing" /\ unreached \subseteq held
      /\ js' = [o \in Offsets |-> IF o \in held \ unreached THEN "back" ELSE js[o]]
      /\ st' = [st EXCEPT ![i] = "dead"]
      /\ queue' = [queue EXCEPT ![i] = <<>>]
      /\ UNCHANGED <<holder, store, logs, window, pos, handled, config, history, job>>

\* A removal that was persisted and will not be published.
LostRemoval(j) == IF j.step = "publish" /\ j.to = "COLD" THEN {j.ip} ELSE {}

\* The process dies where it stands.
Crash(i) ==
  /\ "crash" \in Faults /\ st[i] \in Alive /\ Spare(i)
  /\ st' = [st EXCEPT ![i] = "dead"]
  /\ job' = [job EXCEPT ![i] = NoJob] /\ queue' = [queue EXCEPT ![i] = <<>>]
  /\ lost' = lost \cup LostRemoval(job[i])
  /\ UNCHANGED <<consumer, store, logs, window, pos, handled, config, settled, torn>>

-----------------------------------------------------------------------------
(* The three kinds of job; each starts when the lock is free *)

CanHandle(i) == st[i] \in {"run", "sweepFailed"} /\ job[i] = NoJob
CanSweep(i) == st[i] \in {"run", "consumeFailed"} /\ job[i] = NoJob
CanPoll(i) == st[i] \in {"run", "consumeFailed", "sweepFailed"} /\ job[i] = NoJob

StartJob(i, kind, step, o, todo) ==
  job' = [job EXCEPT ![i] = [NoJob EXCEPT !.kind = kind, !.step = step,
                                          !.off = o, !.todo = todo]]

mark_handled(i, o) ==
  /\ handled' = [handled EXCEPT ![i] = @ \cup {o}]
  /\ pos' = [pos EXCEPT ![i] = IF o + 1 > @ THEN o + 1 ELSE @]

\* _handle(): a copy below the handled position is acknowledged and not applied.
HandleRedelivered(i) ==
  /\ CanHandle(i) /\ queue[i] # <<>> /\ Head(queue[i]) < pos[i]
  /\ queue' = [queue EXCEPT ![i] = Tail(@)]
  /\ mark_handled(i, Head(queue[i]))
  /\ UNCHANGED <<consumer, store, logs, window, config, history, st, job>>

HandleMalformed(i) ==
  /\ CanHandle(i) /\ queue[i] # <<>> /\ Head(queue[i]) >= pos[i]
  /\ Head(queue[i]) \in Malformed
  /\ queue' = [queue EXCEPT ![i] = Tail(@)]
  /\ mark_handled(i, Head(queue[i]))
  /\ settled' = settled \cup {Head(queue[i])}
  /\ UNCHANGED <<consumer, store, logs, window, config, lost, torn, st, job>>

\* An observation that is late, early or too long: to be diverted.
HandleDivert(i) ==
  /\ CanHandle(i) /\ queue[i] # <<>> /\ Head(queue[i]) >= pos[i]
  /\ Head(queue[i]) \notin Malformed
  /\ queue' = [queue EXCEPT ![i] = Tail(@)]
  /\ StartJob(i, "observation", "divert", Head(queue[i]), {})
  /\ UNCHANGED <<consumer, store, logs, window, pos, handled, config, history, st>>

\* Mutant: marked handled before its transition is published.
HandleApply_marks_first(i) ==
  /\ CanHandle(i) /\ queue[i] # <<>> /\ Head(queue[i]) >= pos[i]
  /\ Head(queue[i]) \notin Malformed
  /\ queue' = [queue EXCEPT ![i] = Tail(@)]
  /\ mark_handled(i, Head(queue[i]))
  /\ applied' = [applied EXCEPT ![i] = @ \cup {Head(queue[i])}]
  /\ StartJob(i, "observation", "eval", Head(queue[i]), {IpOf[Head(queue[i])]})
  /\ UNCHANGED <<consumer, store, logs, hot, inherited, warm, seq, config, history, st>>

\* Mutant: the handled position is not looked at.
HandleApply_again(i) ==
  /\ CanHandle(i) /\ queue[i] # <<>> /\ Head(queue[i]) \notin Malformed
  /\ queue' = [queue EXCEPT ![i] = Tail(@)]
  /\ applied' = [applied EXCEPT ![i] = @ \cup {Head(queue[i])}]
  /\ StartJob(i, "observation", "eval", Head(queue[i]), {IpOf[Head(queue[i])]})
  /\ UNCHANGED <<consumer, store, logs, hot, inherited, warm, seq, pos, handled, config, history, st>>

\* An observation the window counts; its IP is to be evaluated.
HandleApply(i) ==
  /\ CanHandle(i) /\ queue[i] # <<>> /\ Head(queue[i]) >= pos[i]
  /\ Head(queue[i]) \notin Malformed
  /\ queue' = [queue EXCEPT ![i] = Tail(@)]
  /\ applied' = [applied EXCEPT ![i] = @ \cup {Head(queue[i])}]
  /\ StartJob(i, "observation", "eval", Head(queue[i]), {IpOf[Head(queue[i])]})
  /\ UNCHANGED <<consumer, store, logs, hot, inherited, warm, seq, pos, handled, config, history, st>>

\* run_maintenance(): renew the lease, then expire; some of the HOT IPs lost
\* requests and are to be evaluated.
Maintain(i, dropped) ==
  /\ CanSweep(i) /\ lease \in {i, None}
  /\ dropped \subseteq hot[i]
  /\ lease' = i
  /\ StartJob(i, "expiry", "eval", 0, dropped)
  /\ UNCHANGED <<consumer, storeHot, storeSeq, logs, window, claims, config, history, st>>

\* renew_leases(): refused (another process holds the shard) or failed.
RenewFails(i) ==
  /\ CanSweep(i)
  /\ lease \notin {i, None} \/ ("store" \in Faults /\ Spare(i))
  /\ st' = [st EXCEPT ![i] = IF @ = "run" THEN "sweepFailed" ELSE "stop"]
  /\ UNCHANGED <<consumer, store, logs, window, claims, config, history, job>>

\* The clock reaches warm_until.
WarmElapse(i) ==
  /\ st[i] \in Owning /\ warm[i] = "warming"
  /\ warm' = [warm EXCEPT ![i] = "due"]
  /\ UNCHANGED <<consumer, store, logs, hot, inherited, seq, applied, claims, config, history, st, job>>

\* The IPs a window tracks, or has dropped COLD since it counted them.
Tracked(i) == hot[i] \cup {IpOf[o] : o \in applied[i]}

\* poll_once() found a newer document; apply_config() re-points the windows,
\* then every tracked IP is to be evaluated.
ApplyConfig(i, version) ==
  /\ CanPoll(i) /\ cver[i] < version /\ version <= doc
  /\ wver' = [wver EXCEPT ![i] = version]
  /\ StartJob(i, "config", "eval", 0, Tracked(i))
  /\ UNCHANGED <<consumer, store, logs, window, claims, doc, cver, history, st>>

\* _commit_if_due(): after handle() returns, flush and acknowledge.
Commit(i) ==
  /\ CanHandle(i) /\ handled[i] # {}
  /\ js' = Acked(handled[i])
  /\ handled' = [handled EXCEPT ![i] = {}]
  /\ UNCHANGED <<holder, store, logs, window, pos, queue, config, history, st, job>>

\* Some of the acknowledgements go through, then one fails.
CommitFails(i, acks) ==
  /\ "ack" \in Faults /\ Spare(i) /\ CanHandle(i) /\ acks \subseteq handled[i]
  /\ handled[i] # {}
  /\ js' = Acked(acks)
  /\ st' = [st EXCEPT ![i] = IF @ = "run" THEN "consumeFailed" ELSE "stop"]
  /\ UNCHANGED <<holder, store, logs, window, claims, config, history, job>>

-----------------------------------------------------------------------------
(* The steps of a job *)

Evaluating(i, ip) == job[i].kind # "none" /\ job[i].step = "eval" /\ ip \in job[i].todo

\* evaluate() finds the IP on its side of the threshold, or exempt.
Unchanged(i, ip) ==
  /\ Evaluating(i, ip)
  /\ job' = [job EXCEPT ![i].todo = @ \ {ip}]
  /\ UNCHANGED <<consumer, store, logs, window, claims, config, history, st>>

\* Mutant: published without being persisted.
Edge_unpersisted(i, ip) ==
  /\ Evaluating(i, ip) /\ seq[i] < MaxSeq
  /\ ip \in hot[i] => ~(warm[i] = "warming" /\ ip \in inherited[i])
  /\ job[i].kind \in {"expiry", "warmup"} => ip \in hot[i]
  /\ seq' = [seq EXCEPT ![i] = @ + 1]
  /\ job' = [job EXCEPT ![i].step = "publish", ![i].ip = ip, ![i].seq = seq[i],
                        ![i].to = IF ip \in hot[i] THEN "COLD" ELSE "HOT"]
  /\ UNCHANGED <<consumer, store, logs, hot, inherited, warm, applied, claims, config, history, st>>

\* evaluate() finds an edge and takes a sequence number.  An inherited IP is
\* not demoted during the warm-up; a sweep evaluates HOT IPs only.
Edge(i, ip) ==
  /\ Evaluating(i, ip) /\ seq[i] < MaxSeq
  /\ ip \in hot[i] => ~(warm[i] = "warming" /\ ip \in inherited[i])
  /\ job[i].kind \in {"expiry", "warmup"} => ip \in hot[i]
  /\ seq' = [seq EXCEPT ![i] = @ + 1]
  /\ job' = [job EXCEPT ![i].step = "persist", ![i].ip = ip, ![i].seq = seq[i],
                        ![i].to = IF ip \in hot[i] THEN "COLD" ELSE "HOT"]
  /\ UNCHANGED <<consumer, store, logs, hot, inherited, warm, applied, claims, config, history, st>>

\* Mutant: the counter is overwritten, not clamped.
record_transition_unclamped(j) ==
  /\ storeHot' = IF j.to = "HOT" THEN storeHot \cup {j.ip} ELSE storeHot \ {j.ip}
  /\ storeSeq' = j.seq + 1

\* record_transition(): membership and the clamped counter, atomically.
record_transition(j) ==
  /\ storeHot' = IF j.to = "HOT" THEN storeHot \cup {j.ip} ELSE storeHot \ {j.ip}
  /\ storeSeq' = IF j.seq + 1 > storeSeq THEN j.seq + 1 ELSE storeSeq

Persist(i) ==
  /\ job[i].step = "persist"
  /\ record_transition(job[i])
  /\ job' = [job EXCEPT ![i].step = "publish"]
  /\ UNCHANGED <<consumer, lease, logs, window, claims, config, history, st>>

\* An exception out of a job.  Out of handle() or a sweep it takes the process
\* down; the configuration poller logs it and goes on.
Raise(i) ==
  /\ job' = [job EXCEPT ![i] = NoJob]
  /\ \/ job[i].kind = "config" /\ UNCHANGED st
     \/ /\ job[i].kind = "observation" /\ Spare(i)
        /\ st' = [st EXCEPT ![i] = IF @ = "run" THEN "consumeFailed" ELSE "stop"]
     \/ /\ job[i].kind \in {"expiry", "warmup"} /\ Spare(i)
        /\ st' = [st EXCEPT ![i] = IF @ = "run" THEN "sweepFailed" ELSE "stop"]

\* record_transition() raises; the reply may be all that was lost.
PersistFails(i) ==
  /\ "store" \in Faults /\ job[i].step = "persist"
  /\ Raise(i)
  /\ \/ UNCHANGED <<storeHot, storeSeq, lost, torn>>
     \/ /\ record_transition(job[i])
        /\ torn' = [torn EXCEPT ![i] = @ \cup {job[i].ip}]
        /\ lost' = lost \cup (IF job[i].to = "COLD" THEN {job[i].ip} ELSE {})
  /\ UNCHANGED <<consumer, lease, logs, window, claims, config, settled>>

\* The hot-ip log appends an event, unless it has seen its id.
append(j) ==
  /\ ids' = ids \cup {EventId(j)}
  /\ told' = IF EventId(j) \in ids THEN told
             ELSE IF j.to = "HOT" THEN told \cup {j.ip} ELSE told \ {j.ip}

\* Mutant: set_state() is left out.
Publish_only(i) ==
  LET j == job[i]
  IN  /\ j.step = "publish"
      /\ append(j)
      /\ lost' = lost \ {j.ip} /\ torn' = [torn EXCEPT ![i] = @ \ {j.ip}]
      /\ job' = [job EXCEPT ![i].step = "eval", ![i].todo = @ \ {j.ip}, ![i].ip = None,
                            ![i].to = "COLD", ![i].seq = 0]
      /\ UNCHANGED <<consumer, store, recon, window, claims, config, settled, st>>

\* publish() returns; then set_state().
Publish(i) ==
  LET j == job[i]
  IN  /\ j.step = "publish"
      /\ append(j)
      /\ hot' = [hot EXCEPT ![i] = IF j.to = "HOT" THEN @ \cup {j.ip} ELSE @ \ {j.ip}]
      /\ inherited' = [inherited EXCEPT ![i] = IF j.to = "HOT" THEN @ ELSE @ \ {j.ip}]
      /\ lost' = lost \ {j.ip} /\ torn' = [torn EXCEPT ![i] = @ \ {j.ip}]
      /\ job' = [job EXCEPT ![i].step = "eval", ![i].todo = @ \ {j.ip}, ![i].ip = None,
                            ![i].to = "COLD", ![i].seq = 0]
      /\ UNCHANGED <<consumer, store, recon, warm, seq, applied, claims, config, settled, st>>

\* publish() raises; the event may have been appended all the same.
PublishFails(i) ==
  /\ "publish" \in Faults /\ job[i].step = "publish"
  /\ Raise(i)
  /\ torn' = [torn EXCEPT ![i] = @ \cup {job[i].ip}]
  /\ \/ append(job[i]) /\ lost' = lost \ {job[i].ip}
     \/ UNCHANGED <<ids, told>> /\ lost' = lost \cup LostRemoval(job[i])
  /\ UNCHANGED <<consumer, store, recon, window, claims, config, settled>>

\* _divert() returns; then mark_handled().
Divert(i) ==
  /\ job[i].step = "divert"
  /\ recon' = recon \cup {job[i].off} /\ settled' = settled \cup {job[i].off}
  /\ mark_handled(i, job[i].off)
  /\ job' = [job EXCEPT ![i] = NoJob]
  /\ UNCHANGED <<consumer, store, ids, told, window, queue, config, lost, torn, st>>

DivertFails(i) ==
  /\ "publish" \in Faults /\ job[i].step = "divert"
  /\ Raise(i)
  /\ recon' \in {recon, recon \cup {job[i].off}}
  /\ UNCHANGED <<consumer, store, ids, told, window, claims, config, history>>

Done(i, kind) == job[i].kind = kind /\ job[i].step = "eval" /\ job[i].todo = {}


\* The end of _handle(): mark_handled().
FinishObservation(i) ==
  /\ Done(i, "observation")
  /\ settled' = settled \cup {job[i].off}
  /\ mark_handled(i, job[i].off)
  /\ job' = [job EXCEPT ![i] = NoJob]
  /\ UNCHANGED <<consumer, store, logs, window, queue, config, lost, torn, st>>

\* The sweep goes on to finish_warmup_if_due(): every inherited IP that is
\* still HOT is to be evaluated, and nothing is exempt any more.
FinishExpiry(i) ==
  /\ Done(i, "expiry")
  /\ IF warm[i] = "due"
     THEN /\ StartJob(i, "warmup", "eval", 0, inherited[i] \cap hot[i])
          /\ inherited' = [inherited EXCEPT ![i] = {}]
          /\ warm' = [warm EXCEPT ![i] = "done"]
     ELSE /\ job' = [job EXCEPT ![i] = NoJob]
          /\ UNCHANGED <<inherited, warm>>
  /\ UNCHANGED <<consumer, store, logs, hot, seq, applied, claims, config, history, st>>

FinishWarmup(i) ==
  /\ Done(i, "warmup")
  /\ job' = [job EXCEPT ![i] = NoJob]
  /\ UNCHANGED <<consumer, store, logs, window, claims, config, history, st>>

\* The end of apply_config(): the worker and the poller adopt the version.
FinishConfig(i) ==
  /\ Done(i, "config")
  /\ cver' = [cver EXCEPT ![i] = wver[i]]
  /\ job' = [job EXCEPT ![i] = NoJob]
  /\ UNCHANGED <<consumer, store, logs, window, claims, doc, wver, history, st>>

-----------------------------------------------------------------------------

JobStep(i) ==
  \/ \E ip \in IPs : Unchanged(i, ip) \/ Edge(i, ip)
  \/ Persist(i) \/ Publish(i) \/ Divert(i)
  \/ FinishObservation(i) \/ FinishExpiry(i) \/ FinishWarmup(i) \/ FinishConfig(i)

Failure(i) ==
  \/ PersistFails(i) \/ PublishFails(i) \/ DivertFails(i) \/ LoadFails(i) \/ Crash(i)
  \/ \E acks \in SUBSET handled[i] : CommitFails(i, acks)

HandleMessage(i) ==
  HandleRedelivered(i) \/ HandleMalformed(i) \/ HandleDivert(i) \/ HandleApply(i)

Sweep(i) == RenewFails(i) \/ \E dropped \in SUBSET hot[i] : Maintain(i, dropped)

Shutdown(i) ==
  \/ \E acks \in SUBSET handled[i] : Stop(i, acks)
  \/ \E unreached \in SUBSET Offsets : Close(i, unreached)

Process(i) ==
  \/ Acquire(i) \/ BeginStop(i) \/ Shutdown(i)
  \/ \E version \in 1 .. MaxVersion : Load(i, version) \/ ApplyConfig(i, version)
  \/ \E o \in Offsets : Fetch(i, o)
  \/ HandleMessage(i) \/ Commit(i)
  \/ Sweep(i) \/ WarmElapse(i)
  \/ JobStep(i) \/ Failure(i)

Next ==
  \/ \E i \in Inst : Process(i)
  \/ \E o \in Offsets : AckWait(o)
  \/ LeaseLapse \/ PublishDoc

Spec == Init /\ [][Next]_vars

\* Every task that is not failing keeps running; asyncio's lock is first come
\* first served, so a message or a sweep waiting for it gets it (SF); a lapsed
\* delivery or lease is noticed.
Fairness ==
  /\ \A i \in Inst :
       /\ WF_vars(Acquire(i) \/ \E v \in 1 .. MaxVersion : Load(i, v)) /\ WF_vars(Shutdown(i))
       /\ WF_vars(BeginStop(i) /\ st[i] # "run")
       /\ WF_vars(JobStep(i))
       /\ SF_vars(\E o \in Offsets : Fetch(i, o))
       /\ SF_vars(HandleMessage(i)) /\ SF_vars(Commit(i)) /\ SF_vars(Sweep(i))
  /\ \A o \in Offsets : WF_vars(AckWait(o) /\ Gone(holder[o]))
  /\ WF_vars(LeaseLapse /\ Gone(lease))

FairSpec == Spec /\ Fairness

-----------------------------------------------------------------------------
(* Properties *)

ConsumerOK ==
  /\ js \in [Offsets -> {"new", "out", "back", "acked"}]
  /\ holder \in [Offsets -> Inst \cup {None}]
StoreOK == storeHot \in SUBSET IPs /\ storeSeq \in Nat /\ lease \in Inst \cup {None}
LogsOK ==
  /\ ids \in SUBSET [ip : IPs, to : {"HOT", "COLD"}, seq : Nat]
  /\ told \in SUBSET IPs /\ recon \in SUBSET Offsets
WindowOK ==
  /\ hot \in [Inst -> SUBSET IPs] /\ inherited \in [Inst -> SUBSET IPs]
  /\ warm \in [Inst -> {"warming", "due", "done"}] /\ seq \in [Inst -> Nat]
  /\ applied \in [Inst -> SUBSET Offsets]
ClaimsOK ==
  /\ pos \in [Inst -> Nat] /\ handled \in [Inst -> SUBSET Offsets]
  /\ queue \in [Inst -> Seq(Offsets)]
ConfigOK == doc \in Nat /\ wver \in [Inst -> Nat] /\ cver \in [Inst -> Nat]
HistoryOK ==
  settled \in SUBSET Offsets /\ lost \in SUBSET IPs /\ torn \in [Inst -> SUBSET IPs]

\* A job about to persist or publish has an IP; an observation has its offset.
JobOK(j) ==
  /\ j \in JobType
  /\ j.step \in {"persist", "publish"} => j.ip \in IPs /\ j.kind # "none"
  /\ j.step = "divert" => j.kind = "observation"
  /\ j.kind = "observation" => j.off \in Offsets
ProcessOK ==
  /\ st \in [Inst -> Status]
  /\ job \in [Inst -> JobType] /\ \A i \in Inst : JobOK(job[i])

\* The type invariant of the shard's state (worker.py, assignment.py).
TypeOK ==
  /\ ConsumerOK /\ StoreOK /\ LogsOK /\ WindowOK /\ ClaimsOK /\ ConfigOK /\ HistoryOK
  /\ ProcessOK

Publishing(i) == job[i].step = "publish"
HasWindow(i) == st[i] \in Owning \ {"leased"}

\* Every event on the hot-ip log, and every one about to be, has a sequence
\* number below the durable counter: whatever happens between the two awaits,
\* the next owner starts above it (transitions.py, record_transition's clamp).
PersistBeforePublish ==
  /\ \A e \in ids : e.seq < storeSeq
  /\ \A i \in Inst : Publishing(i) => job[i].seq < storeSeq

\* While leases are renewed in time, the log never takes an event for a copy of
\* an earlier one: no owner reuses an event_id (transitions.py, the durable
\* counter), so deduplication by message id swallows no transition.
FreshEventId ==
  \A i \in Inst : job[i].step \in {"persist", "publish"} => EventId(job[i]) \notin ids

\* At most one process has a window on the shard (acquire_lease, release).
OneOwner ==
  \A i, k \in Inst : st[i] \in Owning /\ st[k] \in Owning => i = k

Removing(ip) == \E i \in Inst : Publishing(i) /\ job[i].ip = ip /\ job[i].to = "COLD"

\* The trie is told of an IP the store does not have HOT only if its removal
\* was persisted and is being published, or was never published because the
\* owner died or the call failed: no other order of steps leaks an IP
\* (transitions.py, persist before publish).
LeakOnlyByLostRemoval == \A ip \in told \ storeHot : ip \in lost \/ Removing(ip)

Agrees(i) ==
  \A ip \in IPs \ torn[i] :
    ~(Publishing(i) /\ job[i].ip = ip) => (ip \in hot[i] <=> ip \in storeHot)

\* The owner's HOT set and the durable one agree on every IP, except the one
\* being published and those whose transition failed after it was persisted
\* (set_state after publish; the next owner inherits what this one had).
HotSetCurrent == \A i \in Inst : HasWindow(i) => Agrees(i)

\* An acknowledged observation was counted and its transition published, or
\* diverted, or malformed: the acknowledgement never comes first and never
\* covers what no owner handled (commit_handled, stop, _handle).
AckedMeansSettled == \A o \in Offsets : js[o] = "acked" => o \in settled

\* A window never counts an observation twice, however often it is redelivered
\* (the handled position).
NoDoubleApply ==
  [][\A i \in Inst : job[i] = NoJob /\ job'[i].kind = "observation"
                       /\ job'[i].step = "eval" => job'[i].off \notin applied[i]]_vars

\* The durable counter never goes back, even when a process that lost its
\* lease writes late (the clamp in record_transition).
SeqNeverBack == [][storeSeq' >= storeSeq]_storeSeq

=============================================================================
