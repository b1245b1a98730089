--------------------------- MODULE BackendProofs ----------------------------
(***************************************************************************)
(* Behind the interfaces.  The provisioning job and the services that      *)
(* verify its streams: what each run and each start reports is true of     *)
(* the streams it reported on, for any topics, jobs, services and          *)
(* declarations.                                                           *)
(*                                                                         *)
(* RedisShardStateStore implements the single-step contract, for any       *)
(* number of members and addresses, any bound on the attempts and any      *)
(* lease duration: between a GET and the EXEC that follows, the counter is *)
(* what was read or the watch is broken (ReadsCurrent).                    *)
(***************************************************************************)
EXTENDS Provisioning, RedisShardStore, TLAPS

-----------------------------------------------------------------------------
(* Provisioning *)

JobStages == {"idle", "again", "unreachable", "inspect", "apply", "conflict", "refused", "done",
              "killed"}

ProvisionTypeOK ==
  /\ streams \in [Names -> Releases \cup {Missing}] /\ wanted \in [Jobs -> Releases]
  /\ stage \in [Jobs -> JobStages] /\ plan \in [Jobs -> Seq({"created", "updated", "unchanged"})]
  /\ upto \in [Clients -> 1..Len(Topics)] /\ conns \in [Clients -> Nat]
  /\ phase \in [Services -> {"idle", "verify", "started"}]
  /\ writer \in [Names -> Jobs \cup {Missing}]

\* What a decision of j's plan on t still tells of the stream, whoever has
\* written since: that it is as declared, or may be made so; or that another
\* run has overtaken j there.
Overtaken(j, t) == writer[t] \in Jobs \ {j} /\ streams[t] = wanted[writer[t]]

Planned(j, t, how) ==
  \/ Overtaken(j, t)
  \/ streams[t] = wanted[j]
  \/ how = "created" /\ streams[t] = Missing
  \/ how = "updated" /\ streams[t] # Missing /\ streams[t].fixed = wanted[j].fixed

Settled(j, t) == Overtaken(j, t) \/ streams[t] = wanted[j]

\* How far the attempt in hand has come, and what it knows by then.
JobInv(j) ==
  /\ stage[j] = "inspect" => Len(plan[j]) = upto[j] - 1
  /\ stage[j] = "apply" => Len(plan[j]) = Len(Topics)
  /\ stage[j] \in {"inspect", "apply"} =>
       \A i \in 1..Len(plan[j]) : Planned(j, Topics[i], plan[j][i])
  /\ stage[j] = "apply" => \A i \in 1..upto[j] - 1 : Settled(j, Topics[i])
  /\ stage[j] = "done" => \A t \in Names : Settled(j, t)
  /\ stage[j] \in {"inspect", "conflict"} => j \notin wrote
  /\ stage[j] = "refused" => writer[Topics[upto[j]]] \in Jobs \ {j}
  /\ conns[j] = IF stage[j] \in {"inspect", "apply"} THEN 1 ELSE 0

ServiceInv(c) ==
  /\ phase[c] = "verify" => \A i \in 1..upto[c] - 1 : streams[Topics[i]] # Missing
  /\ phase[c] = "started" => \A t \in Names : streams[t] # Missing
  /\ conns[c] = IF phase[c] = "idle" THEN 0 ELSE 1

ProvisionInv ==
  /\ ProvisionTypeOK
  /\ \A j \in Jobs : JobInv(j)
  /\ \A c \in Services : ServiceInv(c)

LEMMA TopicFacts ==
  /\ Len(Topics) \in Nat \ {0}
  /\ \A i \in 1..Len(Topics) : Topics[i] \in Names
  /\ \A t \in Names : \E i \in 1..Len(Topics) : Topics[i] = t
<1>1. Topics \in Seq(Names) /\ Topics # << >> BY ProvisioningAssumption, Zenon DEF Names
<1>2. Len(Topics) \in Nat /\ Len(Topics) # 0 /\ DOMAIN Topics = 1..Len(Topics) BY <1>1
<1> QED BY <1>2, Zenon DEF Names

\* What a step of job k may do to the streams: write what it declares, on record.
Writes(k) ==
  /\ streams' \in [Names -> Releases \cup {Missing}] /\ writer' \in [Names -> Jobs \cup {Missing}]
  /\ \A t \in Names : \/ streams'[t] = streams[t] /\ writer'[t] = writer[t]
                      \/ streams'[t] = wanted[k] /\ writer'[t] = k
  /\ wrote' \ {k} = wrote \ {k} /\ wanted' = wanted

LEMMA WriteWrites ==
  ASSUME ProvisionTypeOK, NEW k \in Jobs, NEW t \in Names, NEW how, Write(k, t, how),
         wanted' = wanted
  PROVE  Writes(k) /\ streams'[t] = wanted[k]
BY Zenon DEF ProvisionTypeOK, Write, Writes

LEMMA NoneWritten ==
  ASSUME ProvisionTypeOK, NEW k \in Jobs, UNCHANGED <<streams, writer, wanted>>,
         wrote' \ {k} = wrote \ {k}
  PROVE  Writes(k)
BY Zenon DEF ProvisionTypeOK, Writes

\* What a plan knows of a stream, and what an attempt has settled, stays so
\* whoever writes; and no stream goes.
LEMMA KnowledgeKept ==
  ASSUME ProvisionTypeOK, NEW k \in Jobs, Writes(k), NEW j \in Jobs, NEW t \in Names
  PROVE  /\ Settled(j, t) => Settled(j, t)'
         /\ \A how : Planned(j, t, how) => Planned(j, t, how)'
         /\ streams[t] # Missing => streams'[t] # Missing
         /\ j # k /\ writer[t] \in Jobs \ {j} => writer'[t] \in Jobs \ {j}
<1>1. wanted[k] \in Releases /\ wanted[k] # Missing BY ProvisioningAssumption DEF ProvisionTypeOK
<1>2. CASE streams'[t] = streams[t] /\ writer'[t] = writer[t]
  BY <1>1, <1>2, Zenon DEF Writes, Settled, Planned, Overtaken
<1>3. CASE streams'[t] = wanted[k] /\ writer'[t] = k
  BY <1>1, <1>3, Zenon DEF Writes, Settled, Planned, Overtaken
<1> QED BY <1>2, <1>3, Zenon DEF Writes

\* A step of one client leaves the others where they are.
Alone(k) ==
  /\ \A j \in Jobs \ {k} : stage'[j] = stage[j] /\ plan'[j] = plan[j]
  /\ \A c \in Services \ {k} : phase'[c] = phase[c]
  /\ \A c \in Clients \ {k} : upto'[c] = upto[c] /\ conns'[c] = conns[c]

LEMMA OthersUndisturbed ==
  ASSUME ProvisionInv, NEW k \in Jobs, Writes(k), Alone(k)
  PROVE  /\ \A j \in Jobs \ {k} : JobInv(j)'
         /\ \A c \in Services : ServiceInv(c)'
<1>t. ProvisionTypeOK BY Zenon DEF ProvisionInv
<1>1. ASSUME NEW j \in Jobs \ {k} PROVE JobInv(j)'
  <2>1. JobInv(j) /\ j \in Clients /\ upto[j] \in 1..Len(Topics)
    BY <1>t, Zenon DEF ProvisionInv, Clients, ProvisionTypeOK
  <2>2. /\ stage'[j] = stage[j] /\ plan'[j] = plan[j] /\ upto'[j] = upto[j]
        /\ conns'[j] = conns[j] /\ (j \in wrote' <=> j \in wrote)
    BY <2>1, Zenon DEF Alone, Writes
  <2>3. stage[j] \in {"inspect", "apply"} => Len(plan[j]) \in 0..Len(Topics)
    BY <2>1, TopicFacts DEF JobInv
  <2>4. stage[j] \in {"inspect", "apply"} =>
          \A i \in 1..Len(plan[j]) : Planned(j, Topics[i], plan[j][i])'
    BY <2>1, <2>2, <2>3, <1>t, TopicFacts, KnowledgeKept DEF JobInv
  <2>5. stage[j] = "apply" => \A i \in 1..upto[j] - 1 : Settled(j, Topics[i])'
    BY <2>1, <1>t, TopicFacts, KnowledgeKept DEF JobInv
  <2>6. stage[j] = "done" => \A t \in Names : Settled(j, t)'
    BY <2>1, <1>t, KnowledgeKept, Zenon DEF JobInv
  <2>7. stage[j] = "refused" => writer'[Topics[upto[j]]] \in Jobs \ {j}
    BY <2>1, <1>t, TopicFacts, KnowledgeKept, Zenon DEF JobInv
  <2> QED BY <2>1, <2>2, <2>4, <2>5, <2>6, <2>7, Zenon DEF JobInv
<1>2. ASSUME NEW c \in Services PROVE ServiceInv(c)'
  <2>1. ServiceInv(c) /\ c # k /\ c \in Clients /\ upto[c] \in 1..Len(Topics)
    BY <1>t, ProvisioningAssumption, Zenon DEF ProvisionInv, Clients, ProvisionTypeOK
  <2>2. phase'[c] = phase[c] /\ upto'[c] = upto[c] /\ conns'[c] = conns[c]
    BY <2>1, Zenon DEF Alone
  <2>3. \A t \in Names : streams[t] # Missing => streams'[t] # Missing
    BY <1>t, KnowledgeKept, Zenon
  <2> QED BY <2>1, <2>2, <2>3, TopicFacts DEF ServiceInv
<1> QED BY <1>1, <1>2, Zenon

LEMMA AttemptStep ==
  ASSUME ProvisionInv, NEW j \in Jobs, Attempt(j) \/ Unreached(j) \/ Kill_job(j)
  PROVE  ProvisionTypeOK' /\ JobInv(j)' /\ Writes(j) /\ Alone(j)
<1>t. ProvisionTypeOK /\ JobInv(j) /\ j \in Clients BY Zenon DEF ProvisionInv, Clients
<1>1. CASE Attempt(j)
  <2>1. Writes(j) /\ j \notin wrote' BY <1>1, <1>t, NoneWritten, Zenon DEF Attempt
  <2>2. /\ stage' \in [Jobs -> JobStages] /\ stage'[j] = "inspect"
        /\ plan'[j] = << >> /\ upto'[j] = 1 /\ conns'[j] = conns[j] + 1
        /\ stage[j] \in {"idle", "again"}
    BY <1>1, <1>t, TopicFacts, Zenon DEF Attempt, Opened, ProvisionTypeOK, JobStages
  <2>3. ProvisionTypeOK'
    BY <1>1, <1>t, <2>1, <2>2, TopicFacts DEF Attempt, Opened, Writes, ProvisionTypeOK
  <2>4. JobInv(j)' BY <1>t, <2>1, <2>2 DEF JobInv
  <2>5. Alone(j) BY <1>1, <1>t, Zenon DEF Attempt, Opened, Alone, ProvisionTypeOK
  <2> QED BY <2>1, <2>3, <2>4, <2>5, Zenon
<1>2. CASE Unreached(j)
  <2>1. Writes(j) BY <1>2, <1>t, NoneWritten, Zenon DEF Unreached
  <2>2. /\ stage' \in [Jobs -> JobStages] /\ stage'[j] \in {"again", "unreachable"}
        /\ stage[j] \in {"idle", "again"}
    BY <1>2, <1>t DEF Unreached, ProvisionTypeOK, JobStages
  <2>3. ProvisionTypeOK' BY <1>2, <1>t, <2>1, <2>2, Zenon DEF Unreached, Writes, ProvisionTypeOK
  <2>4. JobInv(j)' BY <1>2, <1>t, <2>2, Zenon DEF Unreached, JobInv
  <2>5. Alone(j) BY <1>2, <1>t, Zenon DEF Unreached, Alone, ProvisionTypeOK
  <2> QED BY <2>1, <2>3, <2>4, <2>5, Zenon
<1>3. CASE Kill_job(j)
  <2>1. Writes(j) BY <1>3, <1>t, NoneWritten, Zenon DEF Kill_job
  <2>2. /\ stage' \in [Jobs -> JobStages] /\ stage'[j] = "killed" /\ conns[j] = 1
        /\ conns' \in [Clients -> Nat] /\ conns'[j] = 0
    BY <1>3, <1>t DEF Kill_job, Finish, Closed_one, ProvisionTypeOK, JobStages, JobInv
  <2>3. ProvisionTypeOK' BY <1>3, <1>t, <2>1, <2>2, Zenon DEF Kill_job, Writes, ProvisionTypeOK
  <2>4. JobInv(j)' BY <2>2, Zenon DEF JobInv
  <2>5. Alone(j) BY <1>3, <1>t, Zenon DEF Kill_job, Finish, Closed_one, Alone, ProvisionTypeOK
  <2> QED BY <2>1, <2>3, <2>4, <2>5
<1> QED BY <1>1, <1>2, <1>3, Zenon

\* Inspection: the plan grows by what is known of the stream at this moment.
LEMMA InspectStep ==
  ASSUME ProvisionInv, NEW j \in Jobs, Inspect(j)
  PROVE  ProvisionTypeOK' /\ JobInv(j)' /\ Writes(j) /\ Alone(j)
<1> DEFINE t == Topics[upto[j]]
           act == action(streams[t], wanted[j])
<1>t. /\ ProvisionTypeOK /\ JobInv(j) /\ j \in Clients
      /\ upto[j] \in 1..Len(Topics) /\ t \in Names
  BY TopicFacts, Zenon DEF ProvisionInv, Clients, ProvisionTypeOK
<1>w. Writes(j) BY <1>t, NoneWritten, Zenon DEF Inspect
<1>i. stage[j] = "inspect" /\ wrote' = wrote /\ conns[j] = 1 /\ j \notin wrote
  BY <1>t, Zenon DEF Inspect, JobInv
<1>1. CASE conflicts(streams[t], wanted[j])
  <2>1. Finish(j, "conflict") /\ UNCHANGED <<plan, upto>> BY <1>1, Zenon DEF Inspect
  <2>2. /\ stage' \in [Jobs -> JobStages] /\ stage'[j] = "conflict"
        /\ conns' \in [Clients -> Nat] /\ conns'[j] = 0
    BY <2>1, <1>i, <1>t DEF Finish, Closed_one, ProvisionTypeOK, JobStages
  <2>3. ProvisionTypeOK' BY <2>1, <2>2, <1>w, <1>t, Zenon DEF Inspect, Writes, ProvisionTypeOK
  <2>4. JobInv(j)' BY <2>2, <1>i, Zenon DEF JobInv
  <2>5. Alone(j) BY <2>1, <1>t, Zenon DEF Inspect, Finish, Closed_one, Alone, ProvisionTypeOK
  <2> QED BY <2>3, <2>4, <2>5, <1>w, Zenon
<1>2. CASE ~conflicts(streams[t], wanted[j])
  <2>1. /\ plan' = [plan EXCEPT ![j] = Append(@, act)]
        /\ stage' = [stage EXCEPT ![j] = IF upto[j] = Len(Topics) THEN "apply" ELSE @]
        /\ upto' = [upto EXCEPT ![j] = IF @ = Len(Topics) THEN 1 ELSE @ + 1]
        /\ UNCHANGED <<conns, streams, wanted, phase, writer>>
    BY <1>2, Zenon DEF Inspect
  <2>2. act \in {"created", "updated", "unchanged"} /\ Planned(j, t, act)
    <3>1. streams[t] \in Releases \cup {Missing} /\ wanted[j] \in Releases
      BY <1>t, Zenon DEF ProvisionTypeOK
    <3> QED BY <1>2, <3>1, Zenon DEF action, conflicts, Planned
  <2> HIDE DEF act
  <2>3. /\ stage' \in [Jobs -> JobStages]
        /\ stage'[j] = IF upto[j] = Len(Topics) THEN "apply" ELSE "inspect"
        /\ upto' \in [Clients -> 1..Len(Topics)]
        /\ upto'[j] = IF upto[j] = Len(Topics) THEN 1 ELSE upto[j] + 1
    BY <2>1, <1>i, <1>t, TopicFacts DEF ProvisionTypeOK, JobStages
  <2>4. /\ plan' \in [Jobs -> Seq({"created", "updated", "unchanged"})]
        /\ Len(plan'[j]) = Len(plan[j]) + 1 /\ Len(plan[j]) = upto[j] - 1
        /\ \A i \in 1..Len(plan[j]) : plan'[j][i] = plan[j][i]
        /\ plan'[j][upto[j]] = act
    BY <2>1, <2>2, <1>i, <1>t DEF ProvisionTypeOK, JobInv
  <2>5. ProvisionTypeOK' BY <2>1, <2>3, <2>4, <1>t, Zenon DEF ProvisionTypeOK
  <2>6. \A i \in 1..Len(plan'[j]) : Planned(j, Topics[i], plan'[j][i])
    <3>1. \A i \in 1..Len(plan[j]) : Planned(j, Topics[i], plan[j][i])
      BY <1>i, <1>t, Zenon DEF JobInv
    <3>2. Planned(j, Topics[upto[j]], plan'[j][upto[j]]) BY <2>2, <2>4, Zenon
    <3>3. \A i \in 1..Len(plan'[j]) : i \in 1..Len(plan[j]) \/ i = upto[j]
      <4>1. upto[j] \in Nat /\ Len(plan[j]) \in Nat BY <1>t, <2>4, TopicFacts DEF ProvisionTypeOK
      <4> QED BY <2>4, <4>1
    <3> QED BY <2>4, <3>1, <3>2, <3>3, Zenon
  <2>7. \A i \in 1..Len(plan'[j]) : Planned(j, Topics[i], plan[j][i])'
    BY <2>1, <2>6, Zenon DEF Planned, Overtaken
  <2>8. JobInv(j)' BY <2>1, <2>3, <2>4, <2>7, <1>i, <1>t, TopicFacts DEF JobInv
  <2>9. Alone(j) BY <2>1, <1>t, Zenon DEF Alone, ProvisionTypeOK
  <2> QED BY <2>5, <2>8, <2>9, <1>w
<1> QED BY <1>1, <1>2, Zenon

LEMMA FinishFacts ==
  ASSUME ProvisionTypeOK, NEW j \in Jobs, NEW how \in JobStages, Finish(j, how), conns[j] = 1
  PROVE  /\ stage' \in [Jobs -> JobStages] /\ stage'[j] = how
         /\ conns' \in [Clients -> Nat] /\ conns'[j] = 0
         /\ \A k \in Jobs \ {j} : stage'[k] = stage[k]
         /\ \A c \in Clients \ {j} : conns'[c] = conns[c]
<1>1. j \in Clients BY Zenon DEF Clients
<1> QED BY <1>1 DEF Finish, Closed_one, ProvisionTypeOK

\* A settled topic behind it, the attempt goes on to the next or is done.
LEMMA OnwardsStep ==
  ASSUME ProvisionInv, NEW j \in Jobs, stage[j] = "apply", Writes(j), Onwards(j),
         NEW t \in Names, t = Topics[upto[j]], Settled(j, t)', UNCHANGED <<plan, phase>>
  PROVE  ProvisionTypeOK' /\ JobInv(j)' /\ Writes(j) /\ Alone(j)
<1>t. ProvisionTypeOK /\ JobInv(j) /\ j \in Clients /\ upto[j] \in 1..Len(Topics)
  BY Zenon DEF ProvisionInv, Clients, ProvisionTypeOK
<1>1. ASSUME NEW i \in 1..upto[j] PROVE Settled(j, Topics[i])'
  <2>1. \A n \in 1..upto[j] - 1 : Settled(j, Topics[n]) BY <1>t, Zenon DEF JobInv
  <2>2. \A n \in 1..upto[j] - 1 : Settled(j, Topics[n])'
    BY <2>1, <1>t, TopicFacts, KnowledgeKept
  <2> QED BY <2>2, <1>t
<1>2. CASE upto[j] = Len(Topics)
  <2>1. /\ stage' \in [Jobs -> JobStages] /\ stage'[j] = "done" /\ upto' = upto
        /\ conns' \in [Clients -> Nat] /\ conns'[j] = 0
    <3>1. Finish(j, "done") /\ upto' = upto BY <1>2, Zenon DEF Onwards
    <3>2. conns[j] = 1 /\ "done" \in JobStages BY <1>t, Zenon DEF JobInv, JobStages
    <3> QED BY <3>1, <3>2, <1>t, FinishFacts, Zenon
  <2>2. \A u \in Names : Settled(j, u)'
    <3>1. ASSUME NEW u \in Names PROVE Settled(j, u)'
      <4>1. PICK i \in 1..Len(Topics) : Topics[i] = u BY TopicFacts, Zenon
      <4> QED BY <4>1, <1>1, <1>2, Zenon
    <3> QED BY <3>1, Zenon
  <2>3. ProvisionTypeOK' BY <2>1, <1>t, Zenon DEF Writes, ProvisionTypeOK
  <2>4. JobInv(j)' BY <2>1, <2>2, Zenon DEF JobInv
  <2>5. Alone(j) BY <1>2, <1>t, Zenon DEF Onwards, Finish, Closed_one, Alone, ProvisionTypeOK
  <2> QED BY <2>3, <2>4, <2>5, Zenon
<1>3. CASE upto[j] # Len(Topics)
  <2>1. /\ upto' \in [Clients -> 1..Len(Topics)] /\ upto'[j] = upto[j] + 1
        /\ UNCHANGED <<stage, conns>>
    BY <1>3, <1>t, TopicFacts DEF Onwards, ProvisionTypeOK
  <2>2. ProvisionTypeOK' BY <2>1, <1>t, Zenon DEF Writes, ProvisionTypeOK
  <2>3. \A i \in 1..Len(plan[j]) : Planned(j, Topics[i], plan[j][i])'
    BY <1>t, TopicFacts, KnowledgeKept, Zenon DEF JobInv
  <2>a. \A i \in 1..(upto'[j] - 1) : Settled(j, Topics[i])' BY <2>1, <1>1, <1>t
  <2>b. Len(plan[j]) = Len(Topics) /\ conns[j] = 1 BY <1>t, Zenon DEF JobInv
  <2>4. JobInv(j)' BY <2>1, <2>3, <2>a, <2>b, Zenon DEF JobInv
  <2>5. Alone(j) BY <1>3, <1>t, Zenon DEF Onwards, Alone, ProvisionTypeOK
  <2> QED BY <2>2, <2>4, <2>5
<1> QED BY <1>2, <1>3, Zenon

LEMMA ApplyStep ==
  ASSUME ProvisionInv, NEW j \in Jobs, Apply(j)
  PROVE  ProvisionTypeOK' /\ JobInv(j)' /\ Writes(j) /\ Alone(j)
<1>t. /\ ProvisionTypeOK /\ JobInv(j) /\ j \in Clients
      /\ upto[j] \in 1..Len(Topics) /\ Topics[upto[j]] \in Names
  BY TopicFacts, Zenon DEF ProvisionInv, Clients, ProvisionTypeOK
<1>n. PICK t \in Names : t = Topics[upto[j]] BY <1>t, Zenon
<1> DEFINE how == plan[j][upto[j]]
<1>a. stage[j] = "apply" /\ conns[j] = 1 /\ UNCHANGED <<wanted, plan, phase>>
  BY <1>t, Zenon DEF Apply, JobInv
<1>p. Planned(j, t, how) /\ how \in {"created", "updated", "unchanged"}
  BY <1>a, <1>n, <1>t DEF JobInv, ProvisionTypeOK
<1>1. CASE how = "unchanged" /\ Onwards(j) /\ UNCHANGED <<streams, writer, wrote>>
  <2>1. Writes(j) BY <1>1, <1>a, <1>t, NoneWritten, Zenon
  <2>2. Settled(j, t)' BY <1>1, <1>a, <1>p, Zenon DEF Planned, Settled, Overtaken
  <2> QED BY <1>1, <1>a, <2>1, <2>2, <1>n, OnwardsStep, Zenon
<1>2. CASE how # "unchanged" /\ Write(j, t, how) /\ Onwards(j)
  <2>1. Writes(j) /\ streams'[t] = wanted[j] BY <1>2, <1>a, <1>t, WriteWrites, Zenon
  <2>2. Settled(j, t)' BY <2>1, <1>a, Zenon DEF Settled
  <2> QED BY <1>2, <1>a, <2>1, <2>2, <1>n, OnwardsStep, Zenon
<1>3. CASE /\ how # "unchanged" /\ ~accepts(how, streams[t], wanted[j])
           /\ Finish(j, "refused") /\ UNCHANGED <<streams, writer, wrote, upto>>
  <2>1. Writes(j) BY <1>3, <1>a, <1>t, NoneWritten, Zenon
  <2>2. /\ stage' \in [Jobs -> JobStages] /\ stage'[j] = "refused"
        /\ conns' \in [Clients -> Nat] /\ conns'[j] = 0
    BY <1>3, <1>a, <1>t, FinishFacts, Zenon DEF JobStages
  <2>3. writer[t] \in Jobs \ {j}
    <3>1. wanted[j] # Missing BY <1>t, ProvisioningAssumption DEF ProvisionTypeOK
    <3> QED BY <1>3, <1>p, <3>1, Zenon DEF Planned, Overtaken, accepts
  <2>4. ProvisionTypeOK' BY <2>1, <2>2, <1>3, <1>a, <1>t, Zenon DEF Writes, ProvisionTypeOK
  <2>5. JobInv(j)' BY <2>2, <2>3, <1>3, <1>n, Zenon DEF JobInv
  <2>6. Alone(j) BY <1>3, <1>a, <1>t, Zenon DEF Finish, Closed_one, Alone, ProvisionTypeOK
  <2> QED BY <2>1, <2>4, <2>5, <2>6, Zenon
<1> QED BY <1>1, <1>2, <1>3, <1>n, Zenon DEF Apply

LEMMA LostStep ==
  ASSUME ProvisionInv, NEW j \in Jobs, Request_lost(j)
  PROVE  ProvisionTypeOK' /\ JobInv(j)' /\ Writes(j) /\ Alone(j)
<1>t. /\ ProvisionTypeOK /\ JobInv(j) /\ j \in Clients
      /\ upto[j] \in 1..Len(Topics) /\ Topics[upto[j]] \in Names
  BY TopicFacts DEF ProvisionInv, Clients, ProvisionTypeOK
<1>1. UNCHANGED <<wanted, plan, upto, phase>> /\ conns[j] = 1
  BY <1>t, Zenon DEF Request_lost, JobInv
<1>2. Writes(j) BY <1>1, <1>t, WriteWrites, NoneWritten, Zenon DEF Request_lost
<1>3. /\ stage' \in [Jobs -> JobStages] /\ stage'[j] \in {"again", "unreachable"}
      /\ conns' \in [Clients -> Nat] /\ conns'[j] = 0
  BY <1>1, <1>t, FinishFacts, Zenon DEF Request_lost, JobStages
<1>4. ProvisionTypeOK' BY <1>1, <1>2, <1>3, <1>t, Zenon DEF Writes, ProvisionTypeOK
<1>5. JobInv(j)' BY <1>3, Zenon DEF JobInv
<1>6. Alone(j) BY <1>1, <1>t, Zenon DEF Request_lost, Finish, Closed_one, Alone, ProvisionTypeOK
<1> QED BY <1>2, <1>4, <1>5, <1>6, Zenon

LEMMA ServiceStep ==
  ASSUME ProvisionInv, NEW c \in Services, Start_connects(c) \/ Verify(c) \/ Verify_lost(c)
  PROVE  ProvisionInv'
<1>t. /\ ProvisionTypeOK /\ ServiceInv(c) /\ c \in Clients /\ c \notin Jobs
      /\ upto[c] \in 1..Len(Topics) /\ Topics[upto[c]] \in Names
  BY TopicFacts, ProvisioningAssumption, Zenon DEF ProvisionInv, Clients, ProvisionTypeOK
<1>1. UNCHANGED <<streams, wanted, stage, plan, writer, wrote>>
  BY Zenon DEF Start_connects, Verify, Verify_lost
<1>2. /\ phase' \in [Services -> {"idle", "verify", "started"}] /\ conns' \in [Clients -> Nat]
      /\ upto' \in [Clients -> 1..Len(Topics)] /\ Alone(c)
  <2> USE DEF Alone, ProvisionTypeOK, ServiceInv
  <2>1. CASE Start_connects(c) BY <2>1, <1>1, <1>t, TopicFacts DEF Start_connects, Opened
  <2>2. CASE phase[c] = "verify" /\ Start_fails(c) /\ UNCHANGED upto
    BY <2>2, <1>1, <1>t DEF Start_fails, Closed_one
  <2>3. CASE Verify(c) /\ streams[Topics[upto[c]]] # Missing
    <3>1. /\ phase' = [phase EXCEPT ![c] = IF upto[c] = Len(Topics) THEN "started" ELSE @]
          /\ upto' = [upto EXCEPT ![c] = IF @ = Len(Topics) THEN @ ELSE @ + 1]
          /\ UNCHANGED conns
      BY <2>3, Zenon DEF Verify
    <3>2. upto' \in [Clients -> 1..Len(Topics)] BY <3>1, <1>t, TopicFacts
    <3> QED BY <3>1, <3>2, <1>1, <1>t, Zenon
  <2> QED BY <2>1, <2>2, <2>3, Zenon DEF Verify, Verify_lost
<1>3. ServiceInv(c)'
  <2>1. CASE Start_connects(c)
    BY <2>1, <1>t, TopicFacts DEF Start_connects, Opened, ServiceInv, ProvisionTypeOK
  <2>2. CASE phase[c] = "verify" /\ Start_fails(c)
    BY <2>2, <1>t DEF Start_fails, Closed_one, ServiceInv, ProvisionTypeOK
  <2>3. CASE Verify(c) /\ streams[Topics[upto[c]]] # Missing
    <3>1. \A i \in 1..upto[c] : streams[Topics[i]] # Missing
      BY <2>3, <1>t DEF Verify, ServiceInv
    <3>2. CASE upto[c] = Len(Topics)
      <4>1. \A t \in Names : streams[t] # Missing BY <3>1, <3>2, TopicFacts, Zenon
      <4> QED BY <2>3, <3>2, <4>1, <1>t, Zenon DEF Verify, ServiceInv, ProvisionTypeOK
    <3>3. CASE upto[c] # Len(Topics)
      BY <2>3, <3>1, <3>3, <1>t, TopicFacts DEF Verify, ServiceInv, ProvisionTypeOK
    <3> QED BY <3>2, <3>3, Zenon
  <2> QED BY <2>1, <2>2, <2>3, Zenon DEF Verify, Verify_lost
<1>4. ASSUME NEW j \in Jobs PROVE JobInv(j)'
  <2>1. upto'[j] = upto[j] /\ conns'[j] = conns[j] BY <1>2, <1>t, Zenon DEF Alone, Clients
  <2>2. JobInv(j) BY Zenon DEF ProvisionInv
  <2> QED BY <1>1, <2>1, <2>2, Zenon DEF JobInv, Planned, Settled, Overtaken
<1>5. ASSUME NEW d \in Services, d # c PROVE ServiceInv(d)'
  <2>1. phase'[d] = phase[d] /\ upto'[d] = upto[d] /\ conns'[d] = conns[d]
    BY <1>2, <1>5, Zenon DEF Alone, Clients
  <2>2. ServiceInv(d) BY Zenon DEF ProvisionInv
  <2> QED BY <1>1, <2>1, <2>2, Zenon DEF ServiceInv
<1>6. ProvisionTypeOK' BY <1>1, <1>2, <1>t, Zenon DEF ProvisionTypeOK
<1> QED BY <1>3, <1>4, <1>5, <1>6, Zenon DEF ProvisionInv

LEMMA ProvisionInvStep ==
  ASSUME ProvisionInv, [ProvisionNext]_provisionVars PROVE ProvisionInv'
<1>1. ASSUME NEW j \in Jobs, \/ Attempt(j) \/ Unreached(j) \/ Inspect(j) \/ Apply(j)
                             \/ Request_lost(j) \/ Kill_job(j)
      PROVE  ProvisionInv'
  <2>1. ProvisionTypeOK' /\ JobInv(j)' /\ Writes(j) /\ Alone(j)
    BY <1>1, AttemptStep, InspectStep, ApplyStep, LostStep, Zenon
  <2> QED BY <2>1, OthersUndisturbed, Zenon DEF ProvisionInv
<1>2. CASE UNCHANGED provisionVars
  BY <1>2 DEF provisionVars, ProvisionInv, ProvisionTypeOK, JobInv, ServiceInv, Planned,
              Settled, Overtaken
<1> QED BY <1>1, <1>2, ServiceStep, Zenon DEF ProvisionNext

\* Exit 0, a conflict, a refusal and a start each tell the truth about the
\* streams, for any number of overlapping runs and services, any registry and
\* any declarations (ensure_streams, NatsBus.start).
THEOREM OutcomesHold == ProvisionSpec => []OutcomesTrue
<1>1. ASSUME NEW s \in [Names -> Releases \cup {Missing}], NEW w \in [Jobs -> Releases],
             ProvisionInit(s, w)
      PROVE  ProvisionInv
  <2>1. ProvisionTypeOK
    BY <1>1, TopicFacts DEF ProvisionInit, ProvisionTypeOK, JobStages
  <2> QED BY <1>1, <2>1, Zenon DEF ProvisionInit, ProvisionInv, JobInv, ServiceInv, Clients
<1>2. ProvisionInv => OutcomesTrue
  BY Zenon DEF ProvisionInv, JobInv, ServiceInv, Settled, Overtaken, OutcomesTrue, ExitZeroIsTrue,
         ConflictWritesNothing, RefusedOnlyIfOvertaken, StartsClean
<1>3. (\E s \in [Names -> Releases \cup {Missing}], w \in [Jobs -> Releases] :
         ProvisionInit(s, w)) => ProvisionInv
  BY <1>1, Zenon
<1> QED BY <1>2, <1>3, ProvisionInvStep, PTL DEF ProvisionSpec

-----------------------------------------------------------------------------
(* The shard state store *)

\* Where a call stands, whether its transaction was applied, and that the loop
\* has an attempt left while it runs.
Applied ==
  \A m \in Members :
    /\ op[m].at \in {"watch", "get", "exec"} => op[m].attempts < MAX_SEQUENCE_CAS_ATTEMPTS
    /\ op[m].at \in {"watch", "get", "exec", "raised"} => op[m].applied = 0
    /\ op[m].at = "returned" => op[m].applied = 1

\* The owner key outlives what its holder was promised.
LeaseCovers == until <= expires \/ holder = Free

StoreInv == TypeOK /\ CounterExact /\ ReadsCurrent /\ Applied /\ LeaseCovers

Fields == {"watch", "get", "exec", "returned", "raised", "lost"}
Tries == 0..MAX_SEQUENCE_CAS_ATTEMPTS
Bit == 0..1
Calls == [at : Fields, ip : IPs, state : States, sequence : 0..MaxSeq, stored : Nat,
          attempts : Tries, applied : Bit]

(* Rounding up to whole seconds never cuts a duration.                        *)
LEMMA WholeSeconds ==
  ASSUME NEW ttl \in Nat PROVE whole_seconds(ttl) \in Nat /\ whole_seconds(ttl) >= ttl
<1> DEFINE x == ttl + SECOND - 1
           q == x \div SECOND
<1>0. SECOND \in Nat /\ SECOND > 0 BY RedisAssumption
<1>1. x \in Nat BY <1>0
<1>2. q \in Nat BY <1>0, <1>1
<1>3. x = SECOND * q + (x % SECOND) /\ x % SECOND \in 0..(SECOND - 1) BY <1>0, <1>1
<1>4. q * SECOND \in Nat /\ q * SECOND = SECOND * q BY <1>0, <1>2
<1>5. q * SECOND >= ttl
  <2> DEFINE y == q * SECOND
             r == x % SECOND
  <2>1. ttl + SECOND - 1 = y + r /\ r <= SECOND - 1 /\ y \in Nat /\ r \in Nat
    BY <1>0, <1>3, <1>4
  <2> HIDE DEF y, r
  <2>2. y >= ttl BY <2>1, <1>0
  <2> QED BY <2>2, Zenon DEF y
<1> QED BY <1>4, <1>5, Zenon DEF whole_seconds

(* A call that is not idle has all the fields of one.                         *)
LEMMA CallFields ==
  ASSUME TypeOK, NEW m \in Members, op[m].at # "idle" PROVE op[m] \in Calls
<1>1. op[m] \in Ops BY Zenon DEF TypeOK
<1>2. op[m] \notin [at : {"idle"}] BY Zenon
<1> QED BY <1>1, <1>2, Zenon DEF Ops, Calls, Fields, Tries, Bit

LEMMA CallsAreOps == Calls \subseteq Ops
BY Zenon DEF Calls, Ops, Fields, Tries, Bit

(* The queued SET is the contract's clamp when the read is current; a counter *)
(* that moved broke every other watch.                                        *)
LEMMA ClampIsMax ==
  ASSUME TypeOK, ReadsCurrent, NEW m \in Members, op[m].at = "exec", intact(m), clamp(m)
  PROVE  /\ next_sequence' = IF op[m].sequence + 1 > next_sequence THEN op[m].sequence + 1
                             ELSE next_sequence
         /\ next_sequence' \in 0..(MaxSeq + 1)
         /\ broken' \subseteq Members /\ broken \subseteq broken'
         /\ next_sequence' # next_sequence => Members \ {m} \subseteq broken'
<1>1. op[m].stored = next_sequence BY Zenon DEF ReadsCurrent, intact
<1>2. op[m].sequence \in 0..MaxSeq BY CallFields, Zenon DEF Calls
<1>3. next_sequence \in 0..(MaxSeq + 1) /\ broken \subseteq Members /\ MaxSeq \in Nat
  BY RedisAssumption, Zenon DEF TypeOK
<1>4. CASE op[m].sequence + 1 > op[m].stored BY <1>1, <1>2, <1>3, <1>4 DEF clamp
<1>5. CASE ~(op[m].sequence + 1 > op[m].stored) BY <1>1, <1>2, <1>3, <1>5, Zenon DEF clamp
<1> QED BY <1>4, <1>5, Zenon

(* EXEC's transaction keeps the counter exact and every read current or       *)
(* broken; it is the contract's record_transition.                            *)
LEMMA ApplyIsRecord ==
  ASSUME StoreInv, NEW m \in Members, op[m].at = "exec", intact(m), apply(m),
         UNCHANGED <<leases, now>>
  PROVE  /\ hot' \subseteq IPs /\ next_sequence' \in 0..(MaxSeq + 1)
         /\ recorded' \subseteq 0..MaxSeq /\ broken' \subseteq Members
         /\ CounterExact'
         /\ \A k \in Members \ {m} :
              op[k].at = "exec" /\ k \notin broken' => op[k].stored = next_sequence'
         /\ Contract!StoreNext
<1>1. op[m] \in Calls BY CallFields, Zenon DEF StoreInv
<1>2. clamp(m) BY Zenon DEF apply
<1>3. /\ next_sequence' = IF op[m].sequence + 1 > next_sequence THEN op[m].sequence + 1
                          ELSE next_sequence
      /\ next_sequence' \in 0..(MaxSeq + 1)
      /\ broken' \subseteq Members /\ broken \subseteq broken'
      /\ next_sequence' # next_sequence => Members \ {m} \subseteq broken'
  BY <1>2, ClampIsMax, Zenon DEF StoreInv
<1>4. op[m].sequence \in 0..MaxSeq /\ op[m].ip \in IPs /\ op[m].state \in States
  BY <1>1, Zenon DEF Calls
<1>5. hot' \subseteq IPs /\ recorded' \subseteq 0..MaxSeq
  BY <1>4, Zenon DEF apply, StoreInv, TypeOK
<1>6. CounterExact'
  <2>1. recorded \subseteq 0..MaxSeq /\ next_sequence \in 0..(MaxSeq + 1) /\ MaxSeq \in Nat
    BY RedisAssumption, Zenon DEF StoreInv, TypeOK
  <2>2. recorded' = recorded \cup {op[m].sequence} BY Zenon DEF apply
  <2>3. /\ \A s \in recorded : s \in Int /\ s < next_sequence
        /\ next_sequence = 0 \/ next_sequence - 1 \in recorded
    <3>1. \A s \in 0..MaxSeq : s \in Int OBVIOUS
    <3> QED BY <2>1, <3>1, Zenon DEF StoreInv, CounterExact
  <2>4. op[m].sequence \in Int /\ next_sequence \in Int /\ next_sequence' \in Int
    BY <1>3, <1>4, <2>1
  <2>5. \A s \in recorded' : s < next_sequence' BY <1>3, <2>2, <2>3, <2>4
  <2>6. next_sequence' = 0 \/ next_sequence' - 1 \in recorded' BY <1>3, <2>2, <2>3, <2>4
  <2> QED BY <2>5, <2>6, Zenon DEF CounterExact
<1>7. \A k \in Members \ {m} :
        op[k].at = "exec" /\ k \notin broken' => op[k].stored = next_sequence'
  BY <1>3, Zenon DEF StoreInv, ReadsCurrent
<1>8. Contract!record_transition(op[m].ip, op[m].state, op[m].sequence)
  BY <1>3, Zenon DEF Contract!record_transition, apply, leases
<1>9. Contract!StoreNext
  BY <1>4, <1>8, Zenon DEF Contract!StoreNext, States
<1> QED BY <1>3, <1>5, <1>6, <1>7, <1>9, Zenon

(* Every step keeps the invariant, and is a step of the contract or leaves    *)
(* its variables alone.                                                       *)
LEMMA StoreStep ==
  ASSUME StoreInv, [Next]_vars
  PROVE  StoreInv' /\ [Contract!StoreNext]_(Contract!storeVars)
<1> USE RedisAssumption
<1>a. TypeOK /\ CounterExact /\ ReadsCurrent /\ Applied /\ LeaseCovers BY Zenon DEF StoreInv
<1>1. CASE UNCHANGED vars
  BY <1>a, <1>1, Zenon DEF StoreInv, vars, leases, TypeOK, CounterExact, ReadsCurrent, Applied,
     LeaseCovers, Contract!storeVars
<1>2. CASE Tick
  <2>1. StoreInv'
    BY <1>a, <1>2 DEF StoreInv, Tick, TypeOK, CounterExact, ReadsCurrent, Applied, LeaseCovers
  <2>2. until <= now' \/ holder' = holder
    BY <1>a, <1>2 DEF Tick, TypeOK, LeaseCovers
  <2>3. Contract!Pass BY <1>2, <2>2, Zenon DEF Tick, Contract!Pass
  <2> QED BY <2>1, <2>3, Zenon DEF Contract!StoreNext
<1>3. ASSUME NEW m \in Members, Step(m)
      PROVE  StoreInv' /\ [Contract!StoreNext]_(Contract!storeVars)
  <2> DEFINE Local == UNCHANGED <<hot, next_sequence, leases, now, recorded>>
  <2>l. ASSUME Local, op' \in [Members -> Ops], broken' \subseteq Members,
               calls' \in Nat, faults' \in Nat,
               \A k \in Members \ {m} : op'[k] = op[k] /\ (k \in broken => k \in broken'),
               op'[m].at = "exec" /\ m \notin broken' => op'[m].stored = next_sequence,
               op'[m].at \in {"watch", "get", "exec"} =>
                 op'[m].attempts < MAX_SEQUENCE_CAS_ATTEMPTS,
               op'[m].at \in {"watch", "get", "exec", "raised"} => op'[m].applied = 0,
               op'[m].at = "returned" => op'[m].applied = 1
        PROVE  StoreInv' /\ [Contract!StoreNext]_(Contract!storeVars)
    <3>1. TypeOK' /\ CounterExact' /\ LeaseCovers'
      BY <1>a, <2>l, Zenon DEF TypeOK, CounterExact, LeaseCovers, leases
    <3>2. ReadsCurrent' BY <1>a, <2>l, Zenon DEF ReadsCurrent
    <3>3. Applied' BY <1>a, <2>l, Zenon DEF Applied
    <3> QED BY <2>l, <3>1, <3>2, <3>3, Zenon DEF StoreInv, Contract!storeVars, leases
  <2>t. op \in [Members -> Ops] /\ broken \subseteq Members /\ calls \in Nat /\ faults \in Nat
        /\ next_sequence \in Nat
    BY <1>a DEF TypeOK
  <2>1. ASSUME NEW ip \in IPs, NEW state \in States, NEW sequence \in 0..MaxSeq,
               Begin(m, ip, state, sequence)
        PROVE  StoreInv' /\ [Contract!StoreNext]_(Contract!storeVars)
    <3> DEFINE new == [at |-> "watch", ip |-> ip, state |-> state, sequence |-> sequence,
                       stored |-> 0, attempts |-> 0, applied |-> 0]
    <3>1. new \in Ops BY DEF Ops
    <3>2. op' = [op EXCEPT ![m] = new] /\ new.at = "watch" /\ new.applied = 0
          /\ new.attempts = 0
      BY <2>1, Zenon DEF Begin
    <3> HIDE DEF new
    <3>3. op' \in [Members -> Ops] /\ op'[m] = new /\ \A k \in Members \ {m} : op'[k] = op[k]
      BY <2>t, <3>1, <3>2, Zenon
    <3> QED BY <2>1, <2>l, <2>t, <3>2, <3>3 DEF Begin
  <2>2. CASE op[m].at # "idle" /\ (Watch(m) \/ Get(m) \/ WatchFails(m) \/ Return(m))
    <3>1. op[m] \in Calls BY <1>a, <2>2, CallFields, Zenon
    <3>2. CASE Watch(m)
      <4> DEFINE new == [op[m] EXCEPT !.at = "get"]
      <4>1. new \in Ops /\ new.at = "get" /\ new.applied = op[m].applied
            /\ new.attempts = op[m].attempts
        BY <3>1, Zenon DEF Calls, Ops, Fields, Tries, Bit
      <4>2. op' = [op EXCEPT ![m] = new] BY <3>2, <2>t, Zenon DEF Watch
      <4> HIDE DEF new
      <4>3. op' \in [Members -> Ops] /\ op'[m] = new /\ \A k \in Members \ {m} : op'[k] = op[k]
        BY <2>t, <4>1, <4>2, Zenon
      <4> QED BY <1>a, <2>l, <2>t, <3>2, <4>1, <4>3, Zenon DEF Watch, Applied
    <3>3. CASE Get(m)
      <4> DEFINE new == [op[m] EXCEPT !.at = "exec", !.stored = next_sequence]
      <4>1. /\ new \in Ops /\ new.at = "exec" /\ new.applied = op[m].applied
            /\ new.stored = next_sequence /\ new.attempts = op[m].attempts
        BY <2>t, <3>1, Zenon DEF Calls, Ops, Fields, Tries, Bit
      <4>2. op' = [op EXCEPT ![m] = new] BY <3>3, <2>t, Zenon DEF Get
      <4> HIDE DEF new
      <4>3. op' \in [Members -> Ops] /\ op'[m] = new /\ \A k \in Members \ {m} : op'[k] = op[k]
        BY <2>t, <4>1, <4>2, Zenon
      <4> QED BY <1>a, <2>l, <2>t, <3>3, <4>1, <4>3, Zenon DEF Get, Applied
    <3>4. CASE WatchFails(m)
      <4> DEFINE tried == op[m].attempts + 1
                 next == IF tried < MAX_SEQUENCE_CAS_ATTEMPTS THEN "watch" ELSE "raised"
                 new == [op[m] EXCEPT !.attempts = tried, !.at = next]
      <4>0. op[m].attempts < MAX_SEQUENCE_CAS_ATTEMPTS /\ op[m].applied = 0
        BY <1>a, <3>4, Zenon DEF WatchFails, Applied
      <4>1. /\ new \in Ops /\ new.at = next /\ new.applied = 0 /\ next \in {"watch", "raised"}
            /\ new.at = "watch" => new.attempts < MAX_SEQUENCE_CAS_ATTEMPTS
        <5>1. op[m].attempts \in Tries BY <3>1, Zenon DEF Calls
        <5>2. tried \in Tries BY <4>0, <5>1 DEF Tries
        <5>3. next \in Fields /\ next \in {"watch", "raised"} BY Zenon DEF Fields
        <5>4. next = "watch" => tried < MAX_SEQUENCE_CAS_ATTEMPTS BY Zenon
        <5> HIDE DEF tried, next
        <5>5. new \in Calls BY <3>1, <5>2, <5>3, Zenon DEF Calls
        <5>6. /\ new \in Ops /\ new.at = next /\ new.attempts = tried
              /\ new.applied = op[m].applied
          BY <3>1, <5>2, <5>3, <5>5, CallsAreOps, Zenon DEF Calls
        <5> QED BY <4>0, <5>3, <5>4, <5>6, Zenon
      <4>2. op' = [op EXCEPT ![m] = new] BY <3>4, <2>t, Zenon DEF WatchFails, given_up
      <4> HIDE DEF new, next
      <4>3. op' \in [Members -> Ops] /\ op'[m] = new /\ \A k \in Members \ {m} : op'[k] = op[k]
        BY <2>t, <4>1, <4>2, Zenon
      <4> QED BY <2>l, <2>t, <3>4, <4>1, <4>3, Zenon DEF WatchFails
    <3>5. CASE Return(m)
      <4>1. Idle \in Ops /\ Idle.at = "idle" BY Zenon DEF Idle, Ops
      <4>2. op' = [op EXCEPT ![m] = Idle] BY <3>5, Zenon DEF Return
      <4>3. op' \in [Members -> Ops] /\ op'[m] = Idle /\ \A k \in Members \ {m} : op'[k] = op[k]
        BY <2>t, <4>1, <4>2, Zenon
      <4> QED BY <2>l, <2>t, <3>5, <4>1, <4>3, Zenon DEF Return
    <3> QED BY <2>2, <3>2, <3>3, <3>4, <3>5, Zenon
  <2>3. ASSUME op[m].at = "exec", intact(m), apply(m), UNCHANGED <<leases, now>>,
               NEW outcome \in {"returned", "lost"},
               op' = [op EXCEPT ![m].at = outcome, ![m].applied = 1],
               calls' \in Nat, faults' \in Nat
        PROVE  StoreInv' /\ [Contract!StoreNext]_(Contract!storeVars)
    <3> DEFINE new == [op[m] EXCEPT !.at = outcome, !.applied = 1]
    <3>1. op[m] \in Calls BY <1>a, <2>3, CallFields, Zenon
    <3>2. new \in Ops /\ new.at = outcome /\ new.applied = 1
      <4>1. outcome \in Fields /\ 1 \in Bit BY <2>3 DEF Fields, Bit
      <4>2. new \in Calls BY <3>1, <4>1, Zenon DEF Calls
      <4>3. new.at = outcome /\ new.applied = 1 BY <3>1, <4>1, Zenon DEF Calls
      <4> QED BY <4>2, <4>3, CallsAreOps, Zenon
    <3>3. op' = [op EXCEPT ![m] = new] BY <2>3, <2>t, Zenon
    <3> HIDE DEF new
    <3>4. op' \in [Members -> Ops] /\ op'[m] = new /\ \A k \in Members \ {m} : op'[k] = op[k]
      BY <2>t, <3>2, <3>3, Zenon
    <3>5. /\ hot' \subseteq IPs /\ next_sequence' \in 0..(MaxSeq + 1)
          /\ recorded' \subseteq 0..MaxSeq /\ broken' \subseteq Members
          /\ CounterExact'
          /\ \A k \in Members \ {m} :
               op[k].at = "exec" /\ k \notin broken' => op[k].stored = next_sequence'
          /\ Contract!StoreNext
      BY <2>3, ApplyIsRecord, Zenon
    <3>6. TypeOK' /\ LeaseCovers'
      BY <1>a, <2>3, <3>4, <3>5, Zenon DEF TypeOK, LeaseCovers, leases
    <3>7. ReadsCurrent' BY <2>3, <3>2, <3>4, <3>5, Zenon DEF ReadsCurrent
    <3>8. Applied' BY <1>a, <2>3, <3>2, <3>4, Zenon DEF Applied
    <3> QED BY <3>5, <3>6, <3>7, <3>8, Zenon DEF StoreInv
  <2>4. CASE Exec(m)
    <3>1. op' = [op EXCEPT ![m].at = "returned", ![m].applied = 1] BY <2>4, Zenon DEF Exec
    <3> QED BY <2>3, <2>4, <2>t, <3>1, Zenon DEF Exec
  <2>5. CASE Disconnect(m)
    <3>1. CASE op' = [op EXCEPT ![m].at = "lost"] /\ UNCHANGED <<hot, next_sequence, broken, recorded>>
      <4> DEFINE new == [op[m] EXCEPT !.at = "lost"]
      <4>1. op[m] \in Calls BY <1>a, <2>5, CallFields, Zenon DEF Disconnect
      <4>2. new \in Ops /\ new.at = "lost" BY <4>1, Zenon DEF Calls, Ops, Fields, Tries, Bit
      <4>3. op' = [op EXCEPT ![m] = new] BY <3>1, <2>t, Zenon
      <4> HIDE DEF new
      <4>4. op' \in [Members -> Ops] /\ op'[m] = new /\ \A k \in Members \ {m} : op'[k] = op[k]
        BY <2>t, <4>2, <4>3, Zenon
      <4> QED BY <2>l, <2>t, <2>5, <3>1, <4>2, <4>4 DEF Disconnect
    <3>2. CASE /\ op[m].at = "exec" /\ intact(m) /\ apply(m)
               /\ op' = [op EXCEPT ![m].at = "lost", ![m].applied = 1]
      BY <2>3, <2>5, <2>t, <3>2 DEF Disconnect
    <3> QED BY <2>5, <3>1, <3>2, Zenon DEF Disconnect
  <2>6. ASSUME NEW ttl \in TTLs, acquire_lease(m, ttl)
        PROVE  StoreInv' /\ [Contract!StoreNext]_(Contract!storeVars)
    <3>1. ttl \in Nat /\ whole_seconds(ttl) \in Nat /\ whole_seconds(ttl) >= ttl
      BY WholeSeconds, Zenon
    <3>2. StoreInv'
      BY <1>a, <2>6, <3>1 DEF StoreInv, acquire_lease, TypeOK, CounterExact, ReadsCurrent,
         Applied, LeaseCovers
    <3>3. Contract!acquire_lease(m, ttl)
      BY <2>6, Zenon DEF acquire_lease, Contract!acquire_lease
    <3> QED BY <3>2, <3>3, Zenon DEF Contract!StoreNext
  <2>7. CASE release_lease(m)
    <3>1. StoreInv'
      BY <1>a, <2>7, Zenon
      DEF StoreInv, release_lease, TypeOK, CounterExact, ReadsCurrent, Applied,
         LeaseCovers
    <3>2. Contract!release_lease(m) BY <2>7, Zenon DEF release_lease, Contract!release_lease
    <3> QED BY <3>1, <3>2, Zenon DEF Contract!StoreNext
  <2>8. Watch(m) \/ Get(m) \/ WatchFails(m) \/ Return(m) => op[m].at # "idle"
    BY Zenon DEF Watch, Get, WatchFails, Return
  <2> QED BY <1>3, <2>1, <2>2, <2>4, <2>5, <2>6, <2>7, <2>8, Zenon DEF Step
<1> QED BY <1>1, <1>2, <1>3, Zenon DEF Next

LEMMA StoreStart == ASSUME Init PROVE StoreInv /\ Contract!StoreInit
<1>1. Idle \in Ops /\ Idle.at = "idle" BY Zenon DEF Idle, Ops
<1>2. op = [m \in Members |-> Idle] BY Zenon DEF Init
<1>3. op \in [Members -> Ops] /\ \A m \in Members : op[m].at = "idle" BY <1>1, <1>2, Zenon
<1>4. TypeOK BY <1>3, RedisAssumption DEF Init, TypeOK
<1>5. CounterExact /\ LeaseCovers BY Zenon DEF Init, CounterExact, LeaseCovers
<1>6. ReadsCurrent /\ Applied BY <1>3, Zenon DEF ReadsCurrent, Applied
<1> QED BY <1>4, <1>5, <1>6, Zenon DEF StoreInv, Init, Contract!StoreInit

(* WATCH, GET, EXEC, retries and lost replies of any number of writers, and   *)
(* the rounded lease, implement the single-step ShardStateStore.              *)
THEOREM Implements == Spec => KeepsContract
<1>1. Init => StoreInv /\ Contract!StoreInit BY StoreStart, Zenon
<1>2. StoreInv /\ [Next]_vars => StoreInv' /\ [Contract!StoreNext]_(Contract!storeVars)
  BY StoreStep, Zenon
<1> QED BY <1>1, <1>2, PTL DEF Spec, KeepsContract, Contract!StoreSpec

(* The persisted counter is one past the highest sequence ever recorded.      *)
THEOREM CounterIsExact == Spec => []CounterExact
<1>1. Init => StoreInv BY StoreStart, Zenon
<1>2. StoreInv /\ [Next]_vars => StoreInv' BY StoreStep, Zenon
<1>3. StoreInv => CounterExact BY Zenon DEF StoreInv
<1> QED BY <1>1, <1>2, <1>3, PTL DEF Spec

(* A record_transition that returned was applied; WatchError means it was not.*)
THEOREM OutcomesHonest == Spec => []OutcomeHonest
<1>1. Init => StoreInv BY StoreStart
<1>2. StoreInv /\ [Next]_vars => StoreInv' BY StoreStep
<1>3. StoreInv => OutcomeHonest BY Zenon DEF StoreInv, Applied, OutcomeHonest
<1> QED BY <1>1, <1>2, <1>3, PTL DEF Spec
=============================================================================
