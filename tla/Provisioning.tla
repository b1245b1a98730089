---------------------------- MODULE Provisioning ----------------------------
(***************************************************************************)
(* The streams of the NATS server, the runs of hammertime-provision that   *)
(* create and reconcile them (ensure_streams: inspect all, then apply),    *)
(* and the services whose NatsBus.start() waits for them.  One step per    *)
(* request to the server; requests fail with or without their effect, and  *)
(* runs of two releases, or with two --replicas, may overlap.              *)
(***************************************************************************)
EXTENDS Integers, Sequences

CONSTANTS Topics,     \* the registry, in its order
          Releases,   \* what a release of the tool declares: [fixed, free]
          Jobs,       \* runs of the tool
          Services,
          Missing,    \* no stream of that name
          MaxLost     \* bound: requests that fail in transit, and kills

ASSUME ProvisioningAssumption ==
  /\ Topics \in Seq({Topics[i] : i \in DOMAIN Topics}) \ {<< >>} /\ Jobs \intersect Services = {}
  /\ MaxLost \in Nat /\ Missing \notin Releases
  /\ \A r \in Releases : {"fixed", "free"} \subseteq DOMAIN r

VARIABLES streams,   \* topic -> its configuration on the server
          wanted,    \* job -> what it declares
          stage,     \* job -> where it is, or how it ended
          plan,      \* job -> the actions decided so far
          upto,      \* job or service -> the topic it has come to
          phase,     \* service -> where start() is
          conns,     \* job or service -> connections it holds
          lost,
          writer,    \* history: topic -> the job that last changed its stream
          wrote      \* history: jobs that changed a stream in this attempt

provisionVars ==
  <<streams, wanted, stage, plan, upto, phase, conns, lost, writer, wrote>>

Clients == Jobs \cup Services
Names == {Topics[i] : i \in DOMAIN Topics}

ProvisionInit(existing, declared) ==
  /\ streams = existing /\ wanted = declared
  /\ stage = [j \in Jobs |-> "idle"] /\ plan = [j \in Jobs |-> << >>]
  /\ upto = [c \in Clients |-> 1] /\ conns = [c \in Clients |-> 0]
  /\ phase = [c \in Services |-> "idle"]
  /\ lost = 0
  /\ writer = [t \in Names |-> Missing] /\ wrote = {}

Lost == lost < MaxLost /\ lost' = lost + 1
Opened(c) == conns' = [conns EXCEPT ![c] = @ + 1]
Closed_one(c) == conns' = [conns EXCEPT ![c] = @ - 1]

-----------------------------------------------------------------------------
(* ensure_streams, in the attempts of hammertime-provision *)

\* _provision_once: a fresh connection and a fresh plan.
Attempt(j) ==
  /\ stage[j] \in {"idle", "again"}
  /\ stage' = [stage EXCEPT ![j] = "inspect"]
  /\ plan' = [plan EXCEPT ![j] = << >>] /\ upto' = [upto EXCEPT ![j] = 1]
  /\ wrote' = wrote \ {j}
  /\ Opened(j)
  /\ UNCHANGED <<streams, wanted, phase, lost, writer>>

\* No server answers.
Unreached(j) ==
  /\ stage[j] \in {"idle", "again"} /\ Lost
  /\ \E how \in {"again", "unreachable"} : stage' = [stage EXCEPT ![j] = how]
  /\ UNCHANGED <<streams, wanted, plan, upto, phase, conns, writer, wrote>>

conflicts(actual, declared) == actual # Missing /\ actual.fixed # declared.fixed

\* Mutant: the mutable fields are not compared.
action_ignores_drift(actual, declared) == IF actual = Missing THEN "created" ELSE "unchanged"

\* What is to be done about a stream that is compatible.
action(actual, declared) ==
  CASE actual = Missing            -> "created"
    [] actual = declared           -> "unchanged"
    [] OTHER                       -> "updated"

\* The attempt ends: its connection is closed, and the tool exits or tries again.
Finish(j, how) ==
  /\ stage' = [stage EXCEPT ![j] = how]
  /\ Closed_one(j)

\* The server's answer to add_stream and update_stream: adding what is there
\* unchanged succeeds, changing a fixed field is refused.
accepts(how, actual, declared) ==
  CASE how = "created" -> actual \in {Missing, declared}
    [] how = "updated" -> actual # Missing /\ actual.fixed = declared.fixed

Write(j, t, how) ==
  /\ accepts(how, streams[t], wanted[j])
  /\ streams' = [streams EXCEPT ![t] = wanted[j]]
  /\ writer' = IF streams[t] = wanted[j] THEN writer ELSE [writer EXCEPT ![t] = j]
  /\ wrote' = IF streams[t] = wanted[j] THEN wrote ELSE wrote \cup {j}

\* stream_info of the next topic.
Inspect(j) ==
  LET t == Topics[upto[j]]
  IN  /\ stage[j] = "inspect"
      /\ IF conflicts(streams[t], wanted[j])
         THEN Finish(j, "conflict") /\ UNCHANGED <<plan, upto>>
         ELSE /\ plan' = [plan EXCEPT ![j] = Append(@, action(streams[t], wanted[j]))]
              /\ stage' = [stage EXCEPT ![j] = IF upto[j] = Len(Topics) THEN "apply" ELSE @]
              /\ upto' = [upto EXCEPT ![j] = IF @ = Len(Topics) THEN 1 ELSE @ + 1]
              /\ UNCHANGED conns
      /\ UNCHANGED <<streams, wanted, phase, lost, writer, wrote>>

\* The step after the topic in hand has been dealt with.
Onwards(j) ==
  IF upto[j] = Len(Topics) THEN Finish(j, "done") /\ UNCHANGED upto
  ELSE upto' = [upto EXCEPT ![j] = @ + 1] /\ UNCHANGED <<stage, conns>>

\* The plan's next entry: add_stream, update_stream or nothing.
Apply(j) ==
  LET t == Topics[upto[j]]  how == plan[j][upto[j]]
  IN  /\ stage[j] = "apply"
      /\ \/ how = "unchanged" /\ Onwards(j) /\ UNCHANGED <<streams, writer, wrote>>
         \/ how # "unchanged" /\ Write(j, t, how) /\ Onwards(j)
         \/ /\ how # "unchanged" /\ ~accepts(how, streams[t], wanted[j])
            /\ Finish(j, "refused") /\ UNCHANGED <<streams, writer, wrote, upto>>
      /\ UNCHANGED <<wanted, plan, phase, lost>>

\* A request is lost, its effect perhaps not: the whole attempt is repeated,
\* unless the deadline is too near.
Request_lost(j) ==
  LET t == Topics[upto[j]]
  IN  /\ stage[j] \in {"inspect", "apply"} /\ Lost
      /\ \/ UNCHANGED <<streams, writer, wrote>>
         \/ stage[j] = "apply" /\ plan[j][upto[j]] # "unchanged" /\ Write(j, t, plan[j][upto[j]])
      /\ \/ Finish(j, "again")
         \/ Finish(j, "unreachable")
      /\ UNCHANGED <<wanted, plan, upto, phase>>

\* The tool is killed where it stands.
Kill_job(j) ==
  /\ stage[j] \in {"inspect", "apply"} /\ Lost
  /\ Finish(j, "killed")
  /\ UNCHANGED <<streams, wanted, plan, upto, phase, writer, wrote>>

-----------------------------------------------------------------------------
(* NatsBus.start(), under connect_with_retry *)

Start_connects(c) ==
  /\ phase[c] = "idle"
  /\ phase' = [phase EXCEPT ![c] = "verify"] /\ upto' = [upto EXCEPT ![c] = 1]
  /\ Opened(c)
  /\ UNCHANGED <<streams, wanted, stage, plan, lost, writer, wrote>>

\* The connection is closed before the error is raised.
Start_fails(c) ==
  /\ phase' = [phase EXCEPT ![c] = "idle"]
  /\ Closed_one(c)

\* stream_info of the next topic of the registry.
Verify(c) ==
  /\ phase[c] = "verify"
  /\ IF streams[Topics[upto[c]]] = Missing THEN Start_fails(c) /\ UNCHANGED upto
     ELSE /\ phase' = [phase EXCEPT ![c] = IF upto[c] = Len(Topics) THEN "started" ELSE @]
          /\ upto' = [upto EXCEPT ![c] = IF @ = Len(Topics) THEN @ ELSE @ + 1]
          /\ UNCHANGED conns
  /\ UNCHANGED <<streams, wanted, stage, plan, lost, writer, wrote>>

Verify_lost(c) ==
  /\ phase[c] = "verify" /\ Lost
  /\ Start_fails(c)
  /\ UNCHANGED <<streams, wanted, stage, plan, upto, writer, wrote>>

ProvisionNext ==
  \/ \E j \in Jobs : \/ Attempt(j) \/ Unreached(j) \/ Inspect(j) \/ Apply(j)
                    \/ Request_lost(j) \/ Kill_job(j)
  \/ \E c \in Services : Start_connects(c) \/ Verify(c) \/ Verify_lost(c)

\* Any streams an earlier release left behind.
ProvisionSpec ==
  /\ \E s \in [Names -> Releases \cup {Missing}], w \in [Jobs -> Releases] : ProvisionInit(s, w)
  /\ [][ProvisionNext]_provisionVars

-----------------------------------------------------------------------------
(* Exit 0 means every stream exists as declared, whatever was lost, repeated  *)
(* or killed before, but for a stream another run has changed to something    *)
(* else meanwhile.                                                            *)
ExitZeroIsTrue ==
  \A j \in Jobs : stage[j] = "done" =>
    \A t \in Names : \/ streams[t] = wanted[j]
                     \/ writer[t] \in Jobs \ {j} /\ streams[t] = wanted[writer[t]]

(* An attempt that reports a conflict has changed nothing: the conflict may   *)
(* be on the last topic and the streams to create before it.                  *)
ConflictWritesNothing == \A j \in Jobs : stage[j] = "conflict" => j \notin wrote

(* The server refuses a create or an update only when another run has changed *)
(* the stream since it was inspected; a retry never trips over its own work.  *)
RefusedOnlyIfOvertaken ==
  \A j \in Jobs : stage[j] = "refused" => writer[Topics[upto[j]]] \in Jobs \ {j}

(* A service that has started runs on one connection, to a server with every  *)
(* stream; every attempt that failed, and every job, leaves none behind.      *)
StartsClean ==
  /\ \A c \in Services : /\ phase[c] = "started" => \A t \in Names : streams[t] # Missing
                         /\ conns[c] = IF phase[c] = "idle" THEN 0 ELSE 1
  /\ \A j \in Jobs : conns[j] = IF stage[j] \in {"inspect", "apply"} THEN 1 ELSE 0

(* What the end of a provisioning run or of a start tells an operator is so.  *)
OutcomesTrue ==
  ExitZeroIsTrue /\ ConflictWritesNothing /\ RefusedOnlyIfOvertaken /\ StartsClean
=============================================================================
