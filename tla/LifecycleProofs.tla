-------------------------- MODULE LifecycleProofs ---------------------------
(***************************************************************************)
(* run_service, the Service workers and _connect: every client is closed,  *)
(* none while a task may use it, and the exit code tells how the run       *)
(* ended, for any kind of service and any callers.                         *)
(***************************************************************************)
EXTENDS Lifecycle, TLAPS

Runners == {"factory", "start", "quiet", "quieting", "wait", "stop", "drain", "abort",
            "cancelling", "exited"}
Runs == {"none", "created", "serving", "stop", "gather", "close", "returned", "raised"}
Tasks == {"http", "consume", "maintenance", "poll"}

LifeTypeOK ==
  /\ kind \in {"aggregator", "trie", "ingest"} /\ runner \in Runners /\ signals \in 0..2
  /\ verdict \in -1..2 /\ code \in -1..2
  /\ readiness \in {"starting", "ready", "stopping"}
  /\ conn \in {"none", "open", "closing", "closed"} /\ closer \in {"none", "runner", "run"}
  /\ stopping \in BOOLEAN
  /\ worker \in {"idle", "live", "drained"} /\ lock \in {"none", "runner", "run"}
  /\ calls \in [Callers -> {"none", "in", "ok", "error"}]
  /\ run \in Runs /\ up \subseteq Tasks /\ raised \in BOOLEAN
  /\ failed \in BOOLEAN /\ cut \in BOOLEAN

\* Until start() returns there is nothing but clients to be closed.
Starting ==
  runner \in {"factory", "start"} =>
    /\ run = "none" /\ readiness = "starting" /\ ~stopping /\ verdict = -1
    /\ \A c \in Callers : calls[c] = "none"
    /\ conn = "open" \/ (conn = "none" /\ deps = Dependencies(kind))
    /\ ~failed /\ ~cut /\ ~raised
    /\ runner = "factory" => conn = "none" /\ worker = "idle"

\* What the runner knows of run() and of its own stop() in each of its stages.
Supervised ==
  /\ runner \in {"wait", "stop", "drain", "abort", "cancelling"} => run # "none"
  /\ runner \in {"quiet", "quieting", "exited"} => run \in {"none", "returned", "raised"}
  /\ runner \in {"wait", "stop", "drain"} => verdict = -1
  /\ runner \in {"stop", "drain"} => signals > 0
  /\ runner \in {"quiet", "quieting", "abort", "cancelling"} => verdict \in {0, 1}
  /\ runner \in {"abort", "cancelling"} => verdict = 1
  /\ runner \in {"wait", "quiet"} => calls["runner"] = "none"
  /\ runner = "drain" => calls["runner"] = "ok"
  /\ runner \in {"abort", "cancelling"} => calls["runner"] \in {"ok", "error"}
  /\ calls["runner"] = "in" => runner \in {"stop", "quieting"}
  /\ run = "created" => runner = "wait" /\ ~stopping

\* stop(), whoever calls it: the flags are set, and once it has returned the
\* worker is drained.
Stopped ==
  /\ \A c \in Callers : calls[c] # "none" => stopping
  /\ stopping => readiness = "stopping"
  /\ calls["run"] # "none" => kind # "ingest"
  /\ calls["run"] = "in" => run = "stop"
  /\ lock # "none" => calls[lock] = "in" /\ kind # "ingest"
  /\ kind # "ingest" => \A c \in Callers : calls[c] \in {"ok", "error"} => worker = "drained"

\* run(): where it is, the tasks it has, and that stop() comes before the teardown.
Served ==
  /\ run \notin {"serving", "stop", "gather"} => up = {}
  /\ up \subseteq Children(kind)
  /\ run = "stop" => kind # "ingest"
  /\ run \in {"stop", "gather"} /\ kind # "ingest" => stopping
  /\ run = "gather" /\ kind # "ingest" => worker = "drained"
  /\ run = "gather" /\ kind = "ingest" => up \subseteq {"poll"}

\* Who has the clients.
Kept ==
  /\ run \in {"created", "serving", "stop"} => conn = "open"
  /\ run = "gather" => IF kind = "ingest" THEN conn # "none" ELSE conn = "open"
  /\ run = "close" => conn \in {"closing", "closed"}
  /\ Over => conn \in {"closing", "closed"} \/ cut
  /\ Over \/ run = "close" => conn # "none"
  /\ conn = "closing" => closer # "none" \/ cut
  /\ closer # "none" => conn = "closing"
  /\ closer = "run" => run = "close"
  /\ closer = "runner" => calls["runner"] = "in" /\ kind = "ingest"
  /\ kind # "ingest" /\ conn \in {"closing", "closed"} => worker = "drained"
  /\ readiness = "ready" => conn = "open" /\ deps = << >>
  /\ kind = "ingest" /\ run = "none" /\ calls["runner"] = "ok" => conn # "open"
  /\ kind = "ingest" /\ run = "none" /\ calls["runner"] = "error" => cut

\* What the verdict and the histories say of one another.
Told ==
  /\ raised \/ cut \/ verdict = 1 \/ (\E c \in Callers : calls[c] = "error") => failed
  /\ run = "raised" => raised
  /\ run = "returned" => ~raised
  /\ failed /\ run # "none" /\ verdict = -1 =>
       raised \/ calls["runner"] = "error" \/ (calls["run"] = "error" /\ run = "stop")
  /\ verdict = 0 => /\ signals > 0 /\ runner \in {"quiet", "quieting", "exited"}
                    /\ run = "none" \/ (runner = "exited" /\ ~failed)
                    /\ conn # "none"
  /\ verdict = 2 => runner = "exited" /\ run = "none" /\ conn = "none" /\ worker = "idle"
  /\ runner = "exited" => code = verdict /\ verdict # -1
  /\ runner # "exited" => code = -1
  /\ runner = "exited" /\ verdict # 2 => calls["runner"] \in {"ok", "error"}

LifeInv == LifeTypeOK /\ Starting /\ Supervised /\ Stopped /\ Served /\ Kept /\ Told

USE DEF process, connecting, clients, drain, running, history

\* Nothing depends on connect_with_retry's clock, or on the count of the faults.
LEMMA SameButTime ==
  ASSUME LifeInv,
         UNCHANGED <<process, deps, readiness, clients, stopping, drain, running, failed, cut>>
  PROVE  LifeInv'
<1>1. LifeTypeOK' BY DEF LifeInv, LifeTypeOK
<1>2. Starting' /\ Supervised' BY Zenon DEF LifeInv, Starting, Supervised
<1>3. Stopped' /\ Served' BY Zenon DEF LifeInv, Stopped, Served
<1>4. Kept' /\ Told' BY DEF LifeInv, Kept, Told, Over
<1> QED BY <1>1, <1>2, <1>3, <1>4, Zenon DEF LifeInv

LEMMA StartFailedStep ==
  ASSUME LifeInv, runner = "start", StartFailed
  PROVE  LifeInv'
<1> USE DEF LifeInv, StartFailed, Callers
<1>1. LifeTypeOK' BY DEF LifeTypeOK, Runners
<1>2. Starting' /\ Supervised' BY Zenon DEF Starting, Supervised
<1>3. Stopped' /\ Served' BY Zenon DEF Stopped, Served
<1>4. Kept' BY Zenon DEF Kept, Over
<1>5. Told' BY DEF LifeTypeOK, Starting, Told
<1> QED BY <1>1, <1>2, <1>3, <1>4, <1>5, Zenon

LEMMA StartSteps ==
  ASSUME LifeInv,
         \/ Build \/ Signal \/ Connect \/ (\E t \in 0..1 : Retry(t)) \/ StartFails
         \/ StartTimeout \/ Replay \/ Started
  PROVE  LifeInv'
<1> USE DEF LifeInv, Callers, Over
<1>1. CASE Build
  <2>1. LifeTypeOK' BY <1>1 DEF Build, Fault, LifeTypeOK, Runners, Runs, Tasks
  <2>2. Starting' /\ Supervised' BY <1>1, Zenon DEF Build, Fault, Starting, Supervised
  <2>3. Stopped' /\ Served' BY <1>1, Zenon DEF Build, Fault, Stopped, Served
  <2>4. Kept' BY <1>1, Zenon DEF Build, Fault, Kept
  <2>5. Told' BY <1>1 DEF Build, Fault, LifeTypeOK, Supervised, Stopped, Kept, Told, Starting
  <2> QED BY <2>1, <2>2, <2>3, <2>4, <2>5, Zenon
<1>2. CASE Signal
  <2>1. LifeTypeOK' BY <1>2 DEF Signal, LifeTypeOK, Runners, Runs, Tasks
  <2>2. Starting' /\ Supervised' BY <1>2 DEF Signal, LifeTypeOK, Starting, Supervised, Stopped
  <2>3. Stopped' /\ Served' BY <1>2, Zenon DEF Signal, Stopped, Served
  <2>4. Kept' BY <1>2, Zenon DEF Signal, Kept
  <2>5. Told' BY <1>2 DEF Signal, LifeTypeOK, Supervised, Stopped, Kept, Told, Starting
  <2> QED BY <2>1, <2>2, <2>3, <2>4, <2>5
<1>3. CASE Connect
  <2>1. LifeTypeOK' BY <1>3 DEF Connect, LifeTypeOK, Runners, Runs, Tasks
  <2>2. Starting' /\ Supervised' BY <1>3, Zenon DEF Connect, Starting, Supervised
  <2>3. Stopped' /\ Served'
    BY <1>3, Zenon DEF Connect, LifeTypeOK, Supervised, Stopped, Served, Starting
  <2>4. Kept' BY <1>3, Zenon DEF Connect, LifeTypeOK, Supervised, Stopped, Served, Kept, Starting
  <2>5. Told' BY <1>3, Zenon DEF Connect, Told
  <2> QED BY <2>1, <2>2, <2>3, <2>4, <2>5
<1>4. CASE \E t \in 0..1 : Retry(t)
  <2>r. PICK t \in 0..1 : Retry(t) BY <1>4, Zenon
  <2>1. CASE sleeps(left - t)
    <3>1. UNCHANGED <<process, deps, readiness, clients, stopping, drain, running, history>>
      BY <2>r, <2>1, Zenon DEF Retry
    <3> QED BY <3>1, SameButTime, Zenon
  <2>2. CASE ~sleeps(left - t) BY <2>r, <2>2, StartFailedStep, Zenon DEF Retry
  <2> QED BY <2>1, <2>2, Zenon
<1>5. CASE StartFails
  BY <1>5, StartFailedStep, Zenon DEF StartFails
<1>6. CASE StartTimeout
  BY <1>6, StartFailedStep, Zenon DEF StartTimeout
<1>7. CASE Replay
  <2>1. LifeTypeOK' BY <1>7 DEF Replay, LifeTypeOK, Runners, Runs, Tasks
  <2>2. Starting' /\ Supervised' BY <1>7, Zenon DEF Replay, Starting, Supervised
  <2>3. Stopped' /\ Served' BY <1>7, Zenon DEF Replay, Stopped, Served
  <2>4. Kept' BY <1>7, Zenon DEF Replay, Kept
  <2>5. Told' BY <1>7, Zenon DEF Replay, Told
  <2> QED BY <2>1, <2>2, <2>3, <2>4, <2>5
<1>8. CASE Started
  <2>1. LifeTypeOK' BY <1>8 DEF Started, Dependencies, LifeTypeOK, Runners, Runs, Tasks
  <2>2. Starting' /\ Supervised' BY <1>8, Zenon DEF Started, Dependencies, Starting, Supervised
  <2>3. Stopped' /\ Served'
    BY <1>8, Zenon DEF Started, Dependencies, LifeTypeOK, Supervised, Stopped, Served, Starting
  <2>4. Kept'
    BY <1>8, Zenon
    DEF Started, Dependencies, LifeTypeOK, Supervised, Stopped, Served, Kept, Starting
  <2>5. Told'
    BY <1>8 DEF Started, Dependencies, LifeTypeOK, Supervised, Stopped, Kept, Told, Starting
  <2> QED BY <2>1, <2>2, <2>3, <2>4, <2>5
<1> QED BY <1>1, <1>2, <1>3, <1>4, <1>5, <1>6, <1>7, <1>8, Zenon

LEMMA StopSteps ==
  ASSUME LifeInv,
         \/ (\E c \in Callers : Close(c)) \/ (\E c \in Callers : Lock(c))
         \/ (\E c \in Callers : Drained(c)) \/ (\E c \in Callers : Unwind(c))
  PROVE  LifeInv'
<1> USE DEF LifeInv, Callers, Over
<1>1. CASE \E c \in Callers : Close(c)
  <2>c. PICK c \in Callers : Close(c) BY <1>1, Zenon
  <2>u. /\ closer = c /\ conn = "closing" /\ closer' = "none"
        /\ UNCHANGED <<process, connecting, readiness, stopping, worker, lock, run, up>>
    BY <2>c, Zenon DEF Close
  <2>1. CASE conn' = "closed" /\ UNCHANGED <<calls, raised, failed, cut>>
    <3>1. LifeTypeOK' BY <2>1, <2>u DEF LifeTypeOK, Runners, Runs, Tasks
    <3>2. Starting' /\ Supervised' BY <2>1, <2>u, Zenon DEF Starting, Supervised
    <3>3. Stopped' /\ Served' BY <2>1, <2>u, Zenon DEF Stopped, Served
    <3>4. Kept' BY <2>1, <2>u, Zenon DEF Kept
    <3>5. Told' BY <2>1, <2>u, Zenon DEF Told
    <3> QED BY <3>1, <3>2, <3>3, <3>4, <3>5, Zenon
  <2>2. CASE /\ c = "run" /\ raised' = TRUE /\ cut' = TRUE /\ failed' = TRUE
             /\ UNCHANGED <<calls, conn>>
    <3>1. LifeTypeOK' BY <2>2, <2>u DEF LifeTypeOK, Runners, Runs, Tasks
    <3>2. Starting' /\ Supervised' BY <2>2, <2>u, Zenon DEF Starting, Supervised
    <3>3. Stopped' /\ Served' BY <2>2, <2>u, Zenon DEF Stopped, Served
    <3>4. Kept' BY <2>2, <2>u, Zenon DEF Kept
    <3>5. Told' BY <2>2, <2>u, Zenon DEF Supervised, Stopped, Kept, Told
    <3> QED BY <3>1, <3>2, <3>3, <3>4, <3>5
  <2>3. CASE /\ c = "runner" /\ calls' = [calls EXCEPT ![c] = "error"]
             /\ cut' = TRUE /\ failed' = TRUE /\ UNCHANGED <<raised, conn>>
    <3>1. LifeTypeOK' BY <2>3, <2>u DEF LifeTypeOK, Runners, Runs, Tasks
    <3>2. Starting' /\ Supervised' BY <2>3, <2>u, Zenon DEF Starting, Supervised, Stopped, Kept
    <3>3. Stopped' /\ Served' BY <2>3, <2>u DEF Supervised, Stopped, Served, Kept
    <3>4. Kept' BY <2>3, <2>u, Zenon DEF Kept
    <3>5. Told' BY <2>3, <2>u, Zenon DEF LifeTypeOK, Supervised, Stopped, Kept, Told
    <3> QED BY <3>1, <3>2, <3>3, <3>4, <3>5
  <2> QED BY <2>c, <2>1, <2>2, <2>3, Zenon DEF Close
<1>2. CASE \E c \in Callers : Lock(c)
  <2>1. LifeTypeOK' BY <1>2 DEF Lock, LifeTypeOK, Runners, Runs, Tasks
  <2>2. Starting' /\ Supervised' BY <1>2, Zenon DEF Lock, Starting, Supervised, Stopped
  <2>3. Stopped' /\ Served' BY <1>2 DEF Lock, Supervised, Stopped, Served
  <2>4. Kept' BY <1>2 DEF Lock, Supervised, Stopped, Served, Kept
  <2>5. Told' BY <1>2 DEF Lock, Supervised, Stopped, Kept, Told
  <2> QED BY <2>1, <2>2, <2>3, <2>4, <2>5, Zenon
<1>3. CASE \E c \in Callers : Drained(c)
  <2>c. PICK c \in Callers : Drained(c) BY <1>3, Zenon
  <2>u. /\ lock = c /\ worker' = "drained" /\ lock' = "none"
        /\ UNCHANGED <<process, connecting, readiness, clients, stopping, running, cut>>
    BY <2>c, Zenon DEF Drained
  <2>1. CASE calls' = [calls EXCEPT ![c] = "ok"] /\ UNCHANGED failed
    <3>1. LifeTypeOK' BY <2>1, <2>u DEF LifeTypeOK, Runners, Runs, Tasks
    <3>2. Starting' /\ Supervised' BY <2>1, <2>u DEF Starting, Supervised, Stopped
    <3>3. Stopped' /\ Served' BY <2>1, <2>u DEF Supervised, Stopped, Served
    <3>4. Kept' BY <2>1, <2>u, Zenon DEF Supervised, Stopped, Served, Kept
    <3>5. Told' BY <2>1, <2>u DEF Supervised, Stopped, Kept, Told
    <3> QED BY <3>1, <3>2, <3>3, <3>4, <3>5
  <2>2. CASE calls' = [calls EXCEPT ![c] = "error"] /\ failed' = TRUE
    <3>1. LifeTypeOK' BY <2>2, <2>u DEF LifeTypeOK, Runners, Runs, Tasks
    <3>2. Starting' /\ Supervised' BY <2>2, <2>u DEF Starting, Supervised, Stopped
    <3>3. Stopped' /\ Served' BY <2>2, <2>u DEF Supervised, Stopped, Served
    <3>4. Kept' BY <2>2, <2>u, Zenon DEF Supervised, Stopped, Served, Kept
    <3>5. Told' BY <2>2, <2>u DEF LifeTypeOK, Supervised, Stopped, Kept, Told
    <3> QED BY <3>1, <3>2, <3>3, <3>4, <3>5
  <2> QED BY <2>c, <2>1, <2>2, Zenon DEF Drained
<1>4. CASE \E c \in Callers : Unwind(c)
  <2>1. LifeTypeOK' BY <1>4 DEF Unwind, Closed, unwinds, Take, LifeTypeOK, Runners, Runs, Tasks
  <2>2. Starting' /\ Supervised'
    BY <1>4, Zenon DEF Unwind, Closed, unwinds, Take, Starting, Supervised, Stopped
  <2>3. Stopped' /\ Served'
    BY <1>4 DEF Unwind, Closed, unwinds, Take, LifeTypeOK, Supervised, Stopped, Served
  <2>4. Kept'
    BY <1>4 DEF Unwind, Closed, unwinds, Take, LifeTypeOK, Supervised, Stopped, Served, Kept
  <2>5. Told'
    BY <1>4 DEF Unwind, Closed, unwinds, Take, LifeTypeOK, Supervised, Stopped, Kept, Told
  <2> QED BY <2>1, <2>2, <2>3, <2>4, <2>5
<1> QED BY <1>1, <1>2, <1>3, <1>4, Zenon

LEMMA RunSteps ==
  ASSUME LifeInv,
         \/ RunBegins \/ (\E t \in Children(kind) : TaskEnds(t))
         \/ (\E t \in Children(kind) : TaskFails(t)) \/ RunStops \/ RunGathers \/ ServeEnds
         \/ RunCloses \/ RunEnds
  PROVE  LifeInv'
<1> USE DEF LifeInv, Callers, Over
<1>1. CASE RunBegins
  <2>1. LifeTypeOK' BY <1>1 DEF RunBegins, Children, LifeTypeOK, Runners, Runs, Tasks
  <2>2. Starting' /\ Supervised' BY <1>1, Zenon DEF RunBegins, Children, Starting, Supervised
  <2>3. Stopped' /\ Served' BY <1>1, Zenon DEF RunBegins, Children, Stopped, Served
  <2>4. Kept' BY <1>1, Zenon DEF RunBegins, Children, Supervised, Stopped, Served, Kept
  <2>5. Told' BY <1>1, Zenon DEF RunBegins, Children, Supervised, Stopped, Kept, Told
  <2> QED BY <2>1, <2>2, <2>3, <2>4, <2>5, Zenon
<1>2. CASE \E t \in Children(kind) : TaskEnds(t)
  <2>1. LifeTypeOK' BY <1>2 DEF TaskEnds, LifeTypeOK, Runners, Runs, Tasks
  <2>2. Starting' /\ Supervised' BY <1>2 DEF TaskEnds, Starting, Supervised, Stopped
  <2>3. Stopped' /\ Served' BY <1>2 DEF TaskEnds, Supervised, Stopped, Served
  <2>4. Kept' BY <1>2 DEF TaskEnds, Supervised, Stopped, Served, Kept
  <2>5. Told' BY <1>2 DEF TaskEnds, Supervised, Stopped, Kept, Told
  <2> QED BY <2>1, <2>2, <2>3, <2>4, <2>5
<1>3. CASE \E t \in Children(kind) : TaskFails(t)
  <2>c. PICK t \in Children(kind) : TaskFails(t) BY <1>3, Zenon
  <2>u. /\ t \in up /\ up' = up \ {t}
        /\ UNCHANGED <<process, connecting, readiness, clients, stopping, drain, run, cut>>
    BY <2>c, Zenon DEF TaskFails
  <2>1. CASE raised' = raised /\ failed' = failed
    <3>1. LifeTypeOK' BY <2>1, <2>u DEF LifeTypeOK, Runners, Runs, Tasks
    <3>2. Starting' /\ Supervised' BY <2>1, <2>u DEF Starting, Supervised, Stopped
    <3>3. Stopped' /\ Served' BY <2>1, <2>u, Zenon DEF Stopped, Served
    <3>4. Kept' BY <2>1, <2>u DEF Supervised, Stopped, Served, Kept
    <3>5. Told' BY <2>1, <2>u, Zenon DEF Told
    <3> QED BY <3>1, <3>2, <3>3, <3>4, <3>5, Zenon
  <2>2. CASE raised' = TRUE /\ failed' = TRUE
    <3>1. LifeTypeOK' BY <2>2, <2>u DEF LifeTypeOK, Runners, Runs, Tasks
    <3>2. Starting' /\ Supervised' BY <2>2, <2>u, Zenon DEF Starting, Supervised, Stopped, Served
    <3>3. Stopped' /\ Served' BY <2>2, <2>u, Zenon DEF Stopped, Served
    <3>4. Kept' BY <2>2, <2>u DEF Supervised, Stopped, Served, Kept
    <3>5. Told' BY <2>2, <2>u, Zenon DEF Supervised, Stopped, Kept, Told, Served
    <3> QED BY <3>1, <3>2, <3>3, <3>4, <3>5
  <2>3. raised' \in {raised, TRUE} /\ failed' = (failed \/ raised') BY <2>c, Zenon DEF TaskFails
  <2>4. failed \in BOOLEAN /\ raised \in BOOLEAN /\ (raised => failed)
    BY Zenon DEF LifeTypeOK, Told
  <2> QED BY <2>1, <2>2, <2>3, <2>4, Zenon
<1>4. CASE RunStops
  <2>1. LifeTypeOK' BY <1>4 DEF RunStops, BeginStop, LifeTypeOK, Runners, Runs, Tasks
  <2>2. Starting' /\ Supervised' BY <1>4 DEF RunStops, BeginStop, Starting, Supervised, Stopped
  <2>3. Stopped' /\ Served' BY <1>4 DEF RunStops, BeginStop, Supervised, Stopped, Served
  <2>4. Kept' BY <1>4, Zenon DEF RunStops, BeginStop, Kept
  <2>5. Told' BY <1>4 DEF RunStops, BeginStop, Supervised, Stopped, Kept, Told
  <2> QED BY <2>1, <2>2, <2>3, <2>4, <2>5
<1>5. CASE RunGathers
  <2>1. LifeTypeOK' BY <1>5 DEF RunGathers, LifeTypeOK, Runners, Runs, Tasks
  <2>2. Starting' /\ Supervised' BY <1>5, Zenon DEF RunGathers, Starting, Supervised
  <2>3. Stopped' /\ Served' BY <1>5, Zenon DEF RunGathers, Stopped, Served
  <2>4. Kept' BY <1>5, Zenon DEF RunGathers, Kept
  <2>5. Told' BY <1>5, Zenon DEF RunGathers, Told
  <2> QED BY <2>1, <2>2, <2>3, <2>4, <2>5
<1>6. CASE ServeEnds
  <2>1. LifeTypeOK' BY <1>6 DEF ServeEnds, Children, LifeTypeOK, Runners, Runs, Tasks
  <2>2. Starting' /\ Supervised' BY <1>6, Zenon DEF ServeEnds, Children, Starting, Supervised
  <2>3. Stopped' /\ Served' BY <1>6, Zenon DEF ServeEnds, Children, Stopped, Served
  <2>4. Kept' BY <1>6, Zenon DEF ServeEnds, Children, Kept
  <2>5. Told' BY <1>6, Zenon DEF ServeEnds, Children, Told
  <2> QED BY <2>1, <2>2, <2>3, <2>4, <2>5
<1>7. CASE RunCloses
  <2>1. LifeTypeOK' BY <1>7 DEF RunCloses, Take, LifeTypeOK, Runners, Runs, Tasks
  <2>2. Starting' /\ Supervised' BY <1>7, Zenon DEF RunCloses, Take, Starting, Supervised
  <2>3. Stopped' /\ Served' BY <1>7, Zenon DEF RunCloses, Take, Stopped, Served
  <2>4. Kept' BY <1>7, Zenon DEF RunCloses, Take, LifeTypeOK, Supervised, Stopped, Served, Kept
  <2>5. Told' BY <1>7, Zenon DEF RunCloses, Take, Told
  <2> QED BY <2>1, <2>2, <2>3, <2>4, <2>5
<1>8. CASE RunEnds
  <2>1. LifeTypeOK' BY <1>8 DEF RunEnds, Closed, LifeTypeOK, Runners, Runs, Tasks
  <2>2. Starting' /\ Supervised' BY <1>8, Zenon DEF RunEnds, Closed, Starting, Supervised
  <2>3. Stopped' /\ Served' BY <1>8, Zenon DEF RunEnds, Closed, Stopped, Served
  <2>4. Kept' BY <1>8, Zenon DEF RunEnds, Closed, Kept
  <2>5. Told' BY <1>8, Zenon DEF RunEnds, Closed, Told
  <2> QED BY <2>1, <2>2, <2>3, <2>4, <2>5
<1> QED BY <1>1, <1>2, <1>3, <1>4, <1>5, <1>6, <1>7, <1>8, Zenon

LEMMA SuperviseSteps ==
  ASSUME LifeInv,
         \/ RunExited \/ StopAsked \/ StopReturns \/ DrainEnds \/ GiveUp \/ Cancel \/ Quiet
         \/ Exit
  PROVE  LifeInv'
<1> USE DEF LifeInv, Callers, Over
<1>1. CASE RunExited
  <2>1. LifeTypeOK' BY <1>1 DEF RunExited, LifeTypeOK, Runners, Runs, Tasks
  <2>2. Starting' /\ Supervised' BY <1>1, Zenon DEF RunExited, Starting, Supervised
  <2>3. Stopped' /\ Served' BY <1>1, Zenon DEF RunExited, Stopped, Served
  <2>4. Kept' BY <1>1, Zenon DEF RunExited, Kept
  <2>5. Told' BY <1>1 DEF RunExited, Supervised, Stopped, Kept, Told
  <2> QED BY <2>1, <2>2, <2>3, <2>4, <2>5, Zenon
<1>2. CASE StopAsked
  <2>1. LifeTypeOK' BY <1>2 DEF StopAsked, BeginStop, LifeTypeOK, Runners, Runs, Tasks
  <2>2. Starting' /\ Supervised' BY <1>2, Zenon DEF StopAsked, BeginStop, Starting, Supervised
  <2>3. Stopped' /\ Served' BY <1>2 DEF StopAsked, BeginStop, Supervised, Stopped, Served
  <2>4. Kept' BY <1>2, Zenon DEF StopAsked, BeginStop, Supervised, Stopped, Served, Kept
  <2>5. Told' BY <1>2 DEF StopAsked, BeginStop, Supervised, Stopped, Kept, Told
  <2> QED BY <2>1, <2>2, <2>3, <2>4, <2>5
<1>3. CASE StopReturns
  <2>u. /\ runner = "stop"
        /\ UNCHANGED <<kind, signals, code, connecting, readiness, clients, stopping, drain,
                       running, faults, cut>>
    BY <1>3, Zenon DEF StopReturns
  <2>1. CASE calls["runner"] = "ok" /\ runner' = "drain" /\ UNCHANGED <<verdict, failed>>
    <3>1. LifeTypeOK' BY <2>1, <2>u DEF LifeTypeOK, Runners, Runs, Tasks
    <3>2. Starting' /\ Supervised' BY <2>1, <2>u, Zenon DEF Starting, Supervised
    <3>3. Stopped' /\ Served' BY <2>1, <2>u, Zenon DEF Stopped, Served
    <3>4. Kept' BY <2>1, <2>u, Zenon DEF Supervised, Stopped, Served, Kept
    <3>5. Told' BY <2>1, <2>u, Zenon DEF Told
    <3> QED BY <3>1, <3>2, <3>3, <3>4, <3>5
  <2>2. CASE calls["runner"] = "error" /\ runner' = "abort" /\ verdict' = 1 /\ failed' = TRUE
    <3>1. LifeTypeOK' BY <2>2, <2>u DEF LifeTypeOK, Runners, Runs, Tasks
    <3>2. Starting' /\ Supervised' BY <2>2, <2>u, Zenon DEF Starting, Supervised
    <3>3. Stopped' /\ Served' BY <2>2, <2>u, Zenon DEF Stopped, Served
    <3>4. Kept' BY <2>2, <2>u, Zenon DEF Supervised, Stopped, Served, Kept
    <3>5. Told' BY <2>2, <2>u DEF Supervised, Stopped, Kept, Told
    <3> QED BY <3>1, <3>2, <3>3, <3>4, <3>5
  <2> QED BY <1>3, <2>1, <2>2, Zenon DEF StopReturns
<1>4. CASE DrainEnds
  <2>1. LifeTypeOK' BY <1>4 DEF DrainEnds, LifeTypeOK, Runners, Runs, Tasks
  <2>2. Starting' /\ Supervised' BY <1>4, Zenon DEF DrainEnds, Starting, Supervised
  <2>3. Stopped' /\ Served' BY <1>4, Zenon DEF DrainEnds, Stopped, Served
  <2>4. Kept' BY <1>4, Zenon DEF DrainEnds, Kept
  <2>5. Told' BY <1>4 DEF DrainEnds, Supervised, Stopped, Kept, Told
  <2> QED BY <2>1, <2>2, <2>3, <2>4, <2>5
<1>5. CASE GiveUp
  <2>1. LifeTypeOK' BY <1>5 DEF GiveUp, LifeTypeOK, Runners, Runs, Tasks
  <2>2. Starting' /\ Supervised' BY <1>5, Zenon DEF GiveUp, Starting, Supervised
  <2>3. Stopped' /\ Served' BY <1>5, Zenon DEF GiveUp, Stopped, Served
  <2>4. Kept' BY <1>5, Zenon DEF GiveUp, Supervised, Stopped, Served, Kept
  <2>5. Told' BY <1>5 DEF GiveUp, Supervised, Stopped, Kept, Told
  <2> QED BY <2>1, <2>2, <2>3, <2>4, <2>5
<1>6. CASE Cancel
  <2>u. /\ runner = "abort" /\ runner' = "cancelling"
        /\ UNCHANGED <<kind, signals, verdict, code, connecting, readiness, stopping, worker,
                       failed>>
    BY <1>6, Zenon DEF Cancel
  <2>1. CASE Over /\ UNCHANGED <<clients, lock, calls, running, cut>>
    <3>1. LifeTypeOK' BY <2>1, <2>u DEF LifeTypeOK, Runners, Runs, Tasks
    <3>2. Starting' /\ Supervised' BY <2>1, <2>u, Zenon DEF Starting, Supervised
    <3>3. Stopped' /\ Served' BY <2>1, <2>u, Zenon DEF Stopped, Served
    <3>4. Kept' BY <2>1, <2>u, Zenon DEF Kept
    <3>5. Told' BY <2>1, <2>u, Zenon DEF Told
    <3> QED BY <3>1, <3>2, <3>3, <3>4, <3>5
  <2>2. CASE ~Over /\ raised' = TRUE /\ ~Teardown /\ CancelledInBody
    <3>c. calls'["runner"] = calls["runner"] BY <2>2 DEF CancelledInBody
    <3>1. LifeTypeOK'
      BY <2>2, <2>u, <3>c
      DEF CancelledInBody, Teardown, Children, LifeTypeOK, Runners, Runs, Tasks
    <3>2. Starting' /\ Supervised'
      BY <2>2, <2>u, <3>c, Zenon DEF CancelledInBody, Teardown, Children, Starting, Supervised
    <3>3. Stopped' /\ Served'
      BY <2>2, <2>u, <3>c, Zenon
      DEF CancelledInBody, Teardown, Children, LifeTypeOK, Supervised, Stopped, Served
    <3>r. run \in {"serving", "stop"} \/ (run = "gather" /\ kind # "ingest")
      BY <2>2, <2>u, Zenon DEF Teardown, LifeTypeOK, Runs, Supervised
    <3>4. Kept' BY <2>2, <2>u, <3>c, <3>r, Zenon DEF CancelledInBody, Kept
    <3>5. Told'
      BY <2>2, <2>u, <3>c, Zenon
      DEF CancelledInBody, Teardown, Children, Supervised, Stopped, Kept, Told
    <3> QED BY <3>1, <3>2, <3>3, <3>4, <3>5
  <2>3. CASE ~Over /\ raised' = TRUE /\ Teardown /\ CancelledInTeardown
    <3>1. LifeTypeOK'
      BY <2>3, <2>u DEF CancelledInTeardown, Teardown, LifeTypeOK, Runners, Runs, Tasks
    <3>2. Starting' /\ Supervised'
      BY <2>3, <2>u, Zenon DEF CancelledInTeardown, Teardown, Starting, Supervised
    <3>3. Stopped' /\ Served'
      BY <2>3, <2>u, Zenon DEF CancelledInTeardown, Teardown, Stopped, Served
    <3>4. Kept' BY <2>3, <2>u, Zenon DEF CancelledInTeardown, Teardown, Kept
    <3>5. Told'
      BY <2>3, <2>u, Zenon DEF CancelledInTeardown, Teardown, Supervised, Stopped, Kept, Told
    <3> QED BY <3>1, <3>2, <3>3, <3>4, <3>5
  <2> QED BY <1>6, <2>1, <2>2, <2>3, Zenon DEF Cancel
<1>7. CASE Quiet
  <2>1. LifeTypeOK' BY <1>7 DEF Quiet, BeginStop, LifeTypeOK, Runners, Runs, Tasks
  <2>2. Starting' /\ Supervised' BY <1>7, Zenon DEF Quiet, BeginStop, Starting, Supervised
  <2>3. Stopped' /\ Served' BY <1>7 DEF Quiet, BeginStop, Supervised, Stopped, Served
  <2>4. Kept' BY <1>7 DEF Quiet, BeginStop, Supervised, Stopped, Served, Kept
  <2>5. Told' BY <1>7 DEF Quiet, BeginStop, Supervised, Stopped, Kept, Told
  <2> QED BY <2>1, <2>2, <2>3, <2>4, <2>5
<1>8. CASE Exit
  <2>1. LifeTypeOK' BY <1>8 DEF Exit, awaited, LifeTypeOK, Runners, Runs, Tasks
  <2>2. Starting' /\ Supervised' BY <1>8, Zenon DEF Exit, awaited, Starting, Supervised
  <2>3. Stopped' /\ Served' BY <1>8, Zenon DEF Exit, awaited, Stopped, Served
  <2>4. Kept' BY <1>8, Zenon DEF Exit, awaited, Supervised, Stopped, Served, Kept
  <2>5. Told' BY <1>8 DEF Exit, awaited, Supervised, Stopped, Kept, Told
  <2> QED BY <2>1, <2>2, <2>3, <2>4, <2>5
<1> QED BY <1>1, <1>2, <1>3, <1>4, <1>5, <1>6, <1>7, <1>8, Zenon

LEMMA LifeInvStep ==
  ASSUME LifeInv, [Next]_vars PROVE LifeInv'
<1>1. CASE UNCHANGED vars BY <1>1, SameButTime, Zenon DEF vars
<1>2. TaskEnds("poll") => \E t \in Children(kind) : TaskEnds(t)
  <2>1. kind \in {"aggregator", "trie", "ingest"} BY Zenon DEF LifeInv, LifeTypeOK
  <2> QED BY <2>1, Zenon DEF Children
<1> QED BY <1>1, <1>2, StartSteps, StopSteps, RunSteps, SuperviseSteps, Zenon DEF Next, Going

\* The inductive invariant LifeInv: where the runner, the caller that holds the
\* stop lock, run() and its tasks stand, and what each has recorded of the others.
THEOREM LifeInvariant == Spec => []LifeInv
<1>1. Init => LifeInv
  <2> SUFFICES ASSUME Init PROVE LifeInv
    BY Zenon
  <2> USE DEF Init, Callers
  <2>k. kind \in {"aggregator", "trie", "ingest"} BY LifecycleAssumption, Zenon
  <2>a. calls \in [Callers -> {"none", "in", "ok", "error"}] BY Zenon
  <2>b. stopping \in BOOLEAN /\ raised \in BOOLEAN /\ failed \in BOOLEAN /\ cut \in BOOLEAN
    BY Zenon
  <2>c. up \subseteq Tasks BY Zenon
  <2>d. /\ runner \in Runners /\ signals \in 0..2 /\ verdict \in -1..2 /\ code \in -1..2
        /\ run \in Runs
    BY DEF Runners, Runs
  <2>1. LifeTypeOK BY <2>k, <2>a, <2>b, <2>c, <2>d, Zenon DEF LifeTypeOK
  <2>2. Starting /\ Supervised BY Zenon DEF Starting, Supervised
  <2>3. Stopped /\ Served BY Zenon DEF Stopped, Served
  <2>4. Kept /\ Told BY DEF Kept, Told, Over
  <2> QED BY <2>1, <2>2, <2>3, <2>4, Zenon DEF LifeInv
<1> QED BY <1>1, LifeInvStep, PTL DEF Spec

\* The clients are there while a task of run() uses them, while /readyz says
\* so, and until a worker.stop() has flushed and acknowledged: whichever of
\* stop() and run() closes them, and whatever fails or is cancelled.
THEOREM ClientsHeld == Spec => []ClientsOutliveUse
<1>1. LifeInv => ClientsOutliveUse
  BY Zenon DEF LifeInv, LifeTypeOK, Stopped, Served, Kept, ClientsOutliveUse, CloseAfterDrain,
         ReadyMeansConnected, WorkHasClients, Runs, Over
<1> QED BY <1>1, LifeInvariant, PTL

\* The exit code tells how the process ended, and an ended process has no task
\* left and its clients closed, but for a teardown cancelled or failed midway.
THEOREM ExitTold == Spec => []ExitSound
<1>1. LifeInv => ExitCodeExact
  BY DEF LifeInv, LifeTypeOK, Starting, Supervised, Told, ExitCodeExact
<1>2. LifeInv => NothingLeftBehind
  BY Zenon DEF LifeInv, LifeTypeOK, Supervised, Served, Kept, Told, NothingLeftBehind, Over
<1> QED BY <1>1, <1>2, LifeInvariant, PTL DEF ExitSound
=============================================================================
