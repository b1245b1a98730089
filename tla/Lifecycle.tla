------------------------------ MODULE Lifecycle ------------------------------
(***************************************************************************)
(* One service process from run_service() to its exit code: the runner     *)
(* (_supervise), the service's start(), run() and stop(), the tasks run()  *)
(* gathers, the signals, the startup and shutdown deadlines, and calls     *)
(* that fail.  `kind` is the service: the aggregator and the trie close    *)
(* their transport in run()'s teardown, ingest unwinds its lifespan in     *)
(* stop() or in run(), whichever comes first.                              *)
(***************************************************************************)
EXTENDS Integers, Sequences

CONSTANTS Kinds,      \* the services that are run
          Budget,     \* connect_with_retry's time, in units of its first delay
          MaxDelay,   \* the cap on its delay, in the same units
          MaxFault    \* bound: calls and tasks that fail

ASSUME LifecycleAssumption ==
  /\ Kinds \subseteq {"aggregator", "trie", "ingest"}
  /\ Budget \in Nat \ {0} /\ MaxDelay \in Nat \ {0} /\ MaxFault \in Nat

VARIABLES kind,
          runner,       \* where _supervise is
          signals,      \* signals received; a third changes nothing
          verdict,      \* the code _supervise has settled on, -1 before
          code,         \* the exit code, -1 while the process runs
          deps,         \* the dependencies start() has yet to reach
          left, delay,  \* connect_with_retry: time left, next delay
          readiness,    \* "starting", "ready" or "stopping"
          conn,         \* the clients: "none", "open", "closing" or "closed"
          closer,       \* who is closing them
          stopping,     \* the service's stop flag
          worker,       \* "idle", "live" or "drained"
          lock,         \* the caller of worker.stop() that holds its lock
          calls,        \* caller of service.stop() -> "none", "in", "ok", "error"
          run,          \* where service.run() is
          up,           \* the tasks of run() that have not ended
          raised,       \* run() has an exception to raise
          faults,       \* failures so far
          failed,       \* history: something was not as a clean stop has it
          cut           \* history: a teardown was cancelled or failed midway

process == <<kind, runner, signals, verdict, code>>
connecting == <<deps, left, delay>>
clients == <<conn, closer>>
drain == <<worker, lock, calls>>
running == <<run, up, raised>>
history == <<faults, failed, cut>>
vars == <<process, connecting, readiness, clients, stopping, drain, running, history>>

Callers == {"runner", "run"}

\* What start() retries until it answers, in its order.
Dependencies(k) == CASE k = "aggregator" -> <<"bus", "store", "shard_leases">>
                     [] k = "trie"       -> <<"bus">>
                     [] OTHER            -> <<"store", "bus">>

\* The tasks run() waits for.
Children(k) == CASE k = "aggregator" -> {"http", "consume", "maintenance", "poll"}
                 [] k = "trie"       -> {"http", "consume", "poll"}
                 [] OTHER            -> {"http", "poll"}

Over == run \in {"returned", "raised"}
Fault == faults < MaxFault /\ faults' = faults + 1

Init ==
  /\ kind \in Kinds /\ runner = "factory" /\ signals = 0 /\ verdict = -1 /\ code = -1
  /\ deps = Dependencies(kind) /\ left = Budget /\ delay = 1
  /\ readiness = "starting" /\ conn = "none" /\ closer = "none" /\ stopping = FALSE
  /\ worker = "idle" /\ lock = "none" /\ calls = [c \in Callers |-> "none"]
  /\ run = "none" /\ up = {} /\ raised = FALSE
  /\ faults = 0 /\ failed = FALSE /\ cut = FALSE

-----------------------------------------------------------------------------
(* run_service, the signals and start() *)

\* The factory: a rejected configuration ends the process before any loop.
Build ==
  /\ runner = "factory"
  /\ \/ runner' = "start" /\ UNCHANGED <<verdict, code, faults>>
     \/ runner' = "exited" /\ verdict' = 2 /\ code' = 2 /\ Fault
  /\ UNCHANGED <<kind, signals, connecting, readiness, clients, stopping, drain, running,
                 failed, cut>>

\* The first signal asks for the stop, the second aborts the drain.
Signal ==
  /\ runner \notin {"factory", "exited"} /\ signals < 2
  /\ signals' = signals + 1
  /\ UNCHANGED <<kind, runner, verdict, code, connecting, readiness, clients, stopping, drain,
                 running, history>>

\* start() raised or ran out of time.
StartFailed ==
  /\ runner' = "quiet" /\ verdict' = 1 /\ failed' = TRUE
  /\ UNCHANGED <<kind, signals, code, connecting, readiness, clients, stopping, drain, running,
                 cut>>

\* A dependency answers; the next one has a deadline of its own.
Connect ==
  /\ runner = "start" /\ deps # << >>
  /\ deps' = Tail(deps) /\ left' = Budget /\ delay' = 1
  /\ conn' = "open"
  /\ worker' = IF Head(deps) = "shard_leases" THEN "live" ELSE worker
  /\ UNCHANGED <<process, readiness, closer, stopping, lock, calls, running, history>>

\* Whether the next attempt still begins before the deadline.
sleeps(remaining) == remaining > delay

\* An attempt took t and failed in a way that may pass.
Retry(t) ==
  /\ runner = "start" /\ deps # << >> /\ t < left
  /\ IF sleeps(left - t)
     THEN /\ left' = left - t - delay
          /\ delay' = IF 2 * delay < MaxDelay THEN 2 * delay ELSE MaxDelay
          /\ UNCHANGED <<process, deps, readiness, clients, stopping, drain, running, history>>
     ELSE StartFailed /\ UNCHANGED faults

\* A failure that is not transient.
StartFails == runner = "start" /\ Fault /\ StartFailed

\* HAMMERTIME_STARTUP_TIMEOUT_S.
StartTimeout == runner = "start" /\ StartFailed /\ UNCHANGED faults

\* The trie's worker.start(): subscribed and caught up, under the outer deadline only.
Replay ==
  /\ runner = "start" /\ kind = "trie" /\ deps = << >> /\ worker = "idle"
  /\ worker' = "live"
  /\ UNCHANGED <<process, connecting, readiness, clients, stopping, lock, calls, running,
                 history>>

\* start() ends by marking the service ready; a signal that came meanwhile is
\* looked at only then, and the service never serves.
Started ==
  /\ runner = "start" /\ deps = << >> /\ (kind = "trie" => worker = "live")
  /\ readiness' = "ready"
  /\ IF signals > 0
     THEN runner' = "quiet" /\ verdict' = 0 /\ UNCHANGED run
     ELSE runner' = "wait" /\ run' = "created" /\ UNCHANGED verdict
  /\ UNCHANGED <<kind, signals, code, connecting, clients, stopping, drain, up, raised,
                 history>>

-----------------------------------------------------------------------------
(* Closing the clients: they are taken first, so at most one caller closes *)

\* _exit_lifespan, _close_clients, _close_transport.
Take(c) ==
  /\ closer' = IF conn = "open" THEN c ELSE closer
  /\ conn' = IF conn = "open" THEN "closing" ELSE conn
  /\ readiness' = IF conn = "open" /\ kind = "ingest" THEN "stopping" ELSE readiness

\* c has nothing left to close.
Closed(c) == closer # c

\* The bus is closed, then the store; an exception leaves the rest open.
Close(c) ==
  /\ closer = c /\ conn = "closing"
  /\ closer' = "none"
  /\ \/ conn' = "closed" /\ UNCHANGED <<calls, raised, history>>
     \/ /\ Fault /\ cut' = TRUE /\ failed' = TRUE
        /\ IF c = "run" THEN raised' = TRUE /\ UNCHANGED calls
           ELSE calls' = [calls EXCEPT ![c] = "error"] /\ UNCHANGED raised
        /\ UNCHANGED conn
  /\ UNCHANGED <<process, connecting, readiness, stopping, worker, lock, run, up>>

-----------------------------------------------------------------------------
(* service.stop(), called by the runner or by run() *)

\* The flag, the readiness, the poller and the server, before the first await.
BeginStop(c) ==
  /\ calls' = [calls EXCEPT ![c] = "in"]
  /\ stopping' = TRUE
  /\ readiness' = "stopping"

\* worker.stop() gets the lock once the message in hand is finished.
Lock(c) ==
  /\ calls[c] = "in" /\ kind # "ingest" /\ lock = "none"
  /\ lock' = c
  /\ UNCHANGED <<process, connecting, readiness, clients, stopping, worker, calls, running,
                 history>>

\* The trie flushes at every call; the aggregator's sequence runs once.
repeats == kind = "trie" \/ worker # "drained"

\* Flush, acknowledge, release the leases; the failure of the first two
\* propagates after the release.
Drained(c) ==
  /\ lock = c
  /\ worker' = "drained" /\ lock' = "none"
  /\ \/ calls' = [calls EXCEPT ![c] = "ok"] /\ UNCHANGED history
     \/ /\ repeats /\ Fault /\ failed' = TRUE /\ UNCHANGED cut
        /\ calls' = [calls EXCEPT ![c] = "error"]
  /\ UNCHANGED <<process, connecting, readiness, clients, stopping, running>>

\* Whether stop() has to unwind the lifespan, no server being up.
unwinds == run # "serving"

\* ingest's stop() after its flags.
Unwind(c) ==
  /\ calls[c] = "in" /\ kind = "ingest" /\ Closed(c)
  /\ IF unwinds /\ conn = "open" THEN Take(c) /\ UNCHANGED calls
     ELSE calls' = [calls EXCEPT ![c] = "ok"] /\ UNCHANGED <<clients, readiness>>
  /\ UNCHANGED <<process, connecting, stopping, worker, lock, running, history>>

-----------------------------------------------------------------------------
(* service.run() *)

\* Run as a task; after a stop() there is nothing left to serve.
RunBegins ==
  /\ run = "created"
  /\ run' = IF stopping THEN "returned" ELSE "serving"
  /\ up' = IF stopping THEN {} ELSE Children(kind)
  /\ UNCHANGED <<process, connecting, readiness, clients, stopping, drain, raised, history>>

\* A task has been asked to end: by stop(), or ingest's poller by run().
Asked(t) == stopping \/ (kind = "ingest" /\ t = "poll" /\ run = "gather")

TaskEnds(t) ==
  /\ t \in up /\ Asked(t)
  /\ up' = up \ {t}
  /\ UNCHANGED <<process, connecting, readiness, clients, stopping, drain, run, raised,
                 history>>

\* A task ends unasked, with an exception or without.  The poller logs and
\* survives what it meets.
TaskFails(t) ==
  /\ t \in up \ {"poll"}
  /\ up' = up \ {t}
  /\ Fault
  /\ raised' \in {raised, TRUE}
  /\ failed' = (failed \/ raised')
  /\ UNCHANGED <<process, connecting, readiness, clients, stopping, drain, run, cut>>

\* The first task to end brings the others down.
RunStops ==
  /\ run = "serving" /\ kind # "ingest" /\ up # Children(kind)
  /\ run' = "stop"
  /\ BeginStop("run")
  /\ UNCHANGED <<process, connecting, clients, worker, lock, up, raised, history>>

\* Mutant: run() does not wait for its stop().
RunGathers_early ==
  /\ run = "stop"
  /\ run' = "gather"
  /\ raised' = (raised \/ calls["run"] = "error")
  /\ UNCHANGED <<process, connecting, readiness, clients, stopping, drain, up, history>>

\* An exception of stop() is kept with the tasks'; then the others are awaited.
RunGathers ==
  /\ run = "stop" /\ calls["run"] \in {"ok", "error"}
  /\ run' = "gather"
  /\ raised' = (raised \/ calls["run"] = "error")
  /\ UNCHANGED <<process, connecting, readiness, clients, stopping, drain, up, history>>

\* ingest: serve() returned, the poller is told to stop and awaited.
ServeEnds ==
  /\ run = "serving" /\ kind = "ingest" /\ "http" \notin up
  /\ run' = "gather"
  /\ UNCHANGED <<process, connecting, readiness, clients, stopping, drain, up, raised, history>>

\* Every task has ended: the teardown closes what is still open.
RunCloses ==
  /\ run = "gather" /\ up = {}
  /\ run' = "close"
  /\ Take("run")
  /\ UNCHANGED <<process, connecting, stopping, drain, up, raised, history>>

RunEnds ==
  /\ run = "close" /\ Closed("run")
  /\ run' = IF raised THEN "raised" ELSE "returned"
  /\ UNCHANGED <<process, connecting, readiness, clients, stopping, drain, up, raised, history>>

\* The cancellation is delivered in run()'s body: its teardown follows.
CancelledInBody ==
  /\ run' = "gather"
  /\ up' = IF kind = "ingest" THEN up \ {"http"} ELSE {}
  /\ calls' = [calls EXCEPT !["run"] = IF @ = "in" THEN "error" ELSE @]
  /\ lock' = IF lock = "run" THEN "none" ELSE lock
  /\ UNCHANGED <<clients, cut>>

\* It is delivered in the teardown, whose remaining steps are lost.
CancelledInTeardown ==
  /\ run' = "raised"
  /\ up' = {}
  /\ closer' = IF closer = "run" THEN "none" ELSE closer
  /\ cut' = TRUE
  /\ UNCHANGED <<conn, calls, lock>>

-----------------------------------------------------------------------------
(* _supervise once the service has started *)

\* run() ended and nobody asked: the service has crashed.
RunExited ==
  /\ runner = "wait" /\ Over
  /\ runner' = "quiet" /\ verdict' = 1 /\ failed' = TRUE
  /\ UNCHANGED <<kind, signals, code, connecting, readiness, clients, stopping, drain, running,
                 faults, cut>>

\* A signal; run() has had its first step by the time the runner wakes.
StopAsked ==
  /\ runner = "wait" /\ signals > 0 /\ run # "created" /\ ~Over
  /\ runner' = "stop"
  /\ BeginStop("runner")
  /\ UNCHANGED <<kind, signals, verdict, code, connecting, clients, worker, lock, running,
                 history>>

\* Only now does the shutdown deadline start.  An exception of stop() leaves
\* _supervise, and the closing event loop cancels run().
StopReturns ==
  /\ runner = "stop"
  /\ \/ calls["runner"] = "ok" /\ runner' = "drain" /\ UNCHANGED <<verdict, failed>>
     \/ calls["runner"] = "error" /\ runner' = "abort" /\ verdict' = 1 /\ failed' = TRUE
  /\ UNCHANGED <<kind, signals, code, connecting, readiness, clients, stopping, drain, running,
                 faults, cut>>

\* The drain ended in time.
DrainEnds ==
  /\ runner = "drain" /\ Over
  /\ runner' = "exited"
  /\ verdict' = (IF run = "raised" THEN 1 ELSE 0) /\ code' = verdict'
  /\ UNCHANGED <<kind, signals, connecting, readiness, clients, stopping, drain, running,
                 history>>


\* A second signal, or HAMMERTIME_SHUTDOWN_TIMEOUT_S without one.
GiveUp ==
  /\ runner = "drain" /\ ~Over
  /\ runner' = "abort" /\ verdict' = 1 /\ failed' = TRUE
  /\ UNCHANGED <<kind, signals, code, connecting, readiness, clients, stopping, drain, running,
                 faults, cut>>

Teardown == run = "close" \/ (kind = "ingest" /\ run = "gather")

\* _cancel(run_task): cancelled, then awaited to its end.
Cancel ==
  /\ runner = "abort"
  /\ runner' = "cancelling"
  /\ \/ Over /\ UNCHANGED <<clients, lock, calls, running, cut>>
     \/ ~Over /\ raised' = TRUE /\ ~Teardown /\ CancelledInBody
     \/ ~Over /\ raised' = TRUE /\ Teardown /\ CancelledInTeardown
  /\ UNCHANGED <<kind, signals, verdict, code, connecting, readiness, stopping, worker, faults,
                 failed>>

\* _stop_quietly: what stop() raises is logged, the code is settled already.
Quiet ==
  /\ runner = "quiet"
  /\ runner' = "quieting"
  /\ BeginStop("runner")
  /\ UNCHANGED <<kind, signals, verdict, code, connecting, clients, worker, lock, running,
                 history>>

\* Mutant: the process ends without waiting for the cancelled run().
awaited_at_once == \/ runner = "quieting" /\ calls["runner"] \in {"ok", "error"}
                   \/ runner = "cancelling"

\* What _supervise still waits for has ended.
awaited == \/ runner = "quieting" /\ calls["runner"] \in {"ok", "error"}
           \/ runner = "cancelling" /\ Over

Exit ==
  /\ awaited
  /\ runner' = "exited" /\ code' = verdict
  /\ UNCHANGED <<kind, signals, verdict, connecting, readiness, clients, stopping, drain,
                 running, history>>

-----------------------------------------------------------------------------
(* The steps the event loop and the two deadlines bring about by themselves.  *)
(* Nobody promises that a dependency answers, that a signal comes, or that a  *)
(* task with work in flight ends; stop() itself is taken to return.           *)
Going ==
  \/ StartTimeout \/ Started \/ Quiet \/ Exit
  \/ RunExited \/ StopAsked \/ StopReturns \/ DrainEnds \/ GiveUp \/ Cancel
  \/ RunBegins \/ RunStops \/ RunGathers \/ ServeEnds \/ RunCloses \/ RunEnds
  \/ TaskEnds("poll")
  \/ \E c \in Callers : Close(c) \/ Lock(c) \/ Drained(c) \/ Unwind(c)

Next ==
  \/ Going
  \/ Build \/ Signal \/ Connect \/ (\E t \in 0..1 : Retry(t)) \/ StartFails \/ Replay
  \/ \E t \in Children(kind) : TaskFails(t) \/ TaskEnds(t)

Spec == Init /\ [][Next]_vars /\ WF_vars(Going)

-----------------------------------------------------------------------------
(* Exit 0 is a signal and nothing wrong since (what a stop() raises before    *)
(* the service ever served is logged only); exit 1 is something wrong; exit 2 *)
(* comes before any connection.                                               *)
ExitCodeExact ==
  /\ code = 0 => signals > 0 /\ (failed => run = "none") /\ (cut => run = "none")
  /\ code = 1 => failed
  /\ code = 2 => conn = "none" /\ worker = "idle"

(* run()'s teardown closes the bus only after a worker.stop() has flushed,    *)
(* acknowledged and released: the final acknowledgement has a live consumer.  *)
CloseAfterDrain == kind # "ingest" /\ conn \in {"closing", "closed"} => worker = "drained"

(* /readyz answers 200 only while every dependency start() waited for is      *)
(* there, whoever closes them and whatever ended the service.                 *)
ReadyMeansConnected == readiness = "ready" => deps = << >> /\ conn = "open" /\ ~stopping

(* The server and the consumer never outlive the clients they use, although   *)
(* stop() and run() may both be the one that closes them.                     *)
WorkHasClients == up \subseteq {"poll"} \/ conn = "open"

(* The clients are there for whatever uses them: serving, probes that answer  *)
(* ready, and the last acknowledgement of the drain.                          *)
ClientsOutliveUse == CloseAfterDrain /\ ReadyMeansConnected /\ WorkHasClients

(* When the process ends, no task of run() is left, and a service that served *)
(* (ingest: that started) has closed its clients, unless its teardown was     *)
(* itself cancelled or failed midway.                                         *)
NothingLeftBehind ==
  runner = "exited" =>
    /\ up = {}
    /\ run # "none" \/ (kind = "ingest" /\ verdict = 0) => conn = "closed" \/ cut

(* A process that has ended says how, and has tidied up.                      *)
ExitSound == ExitCodeExact /\ NothingLeftBehind

=============================================================================
