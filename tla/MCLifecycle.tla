----------------------------- MODULE MCLifecycle -----------------------------
(***************************************************************************)
(* Two subsystems of a deployment's start, one at a time: a service        *)
(* process, and the streams it needs.                                      *)
(***************************************************************************)
EXTENDS Lifecycle, Provisioning

VARIABLE part

MCReleases == [fixed : {1, 2}, free : {1, 2}]
MCTopics == <<"observations", "hot_ip">>

Unprovisioned == ProvisionInit([t \in Names |-> Missing],
                               [j \in Jobs |-> CHOOSE r \in Releases : TRUE])

MCInit ==
  /\ Init
  /\ \/ part = "process" /\ Unprovisioned
     \/ /\ part = "streams" /\ kind = CHOOSE k \in Kinds : TRUE
        /\ \E s \in [Names -> Releases \cup {Missing}], w \in [Jobs -> Releases] :
             ProvisionInit(s, w)

MCNext ==
  \/ part = "process" /\ Next /\ UNCHANGED <<provisionVars, part>>
  \/ part = "streams" /\ ProvisionNext /\ UNCHANGED <<vars, part>>

MCSpec == /\ MCInit /\ [][MCNext]_<<vars, provisionVars, part>>
          /\ WF_<<vars, provisionVars, part>>(part = "process" /\ Going
                                              /\ UNCHANGED <<provisionVars, part>>)
=============================================================================
