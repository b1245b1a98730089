---- MODULE Ingest ----
(***************************************************************************)
(* POST /v1/observations (api/routes.py) with what it calls: the readiness *)
(* gate, authentication and its failure budgets (auth/), the two rate      *)
(* budgets, validation, coalescing, the dedup claim, and the publisher.    *)
(*                                                                         *)
(* A request runs without interruption between its awaits: to the body,    *)
(* to the claim's answer, and through the publishes, which are sent at     *)
(* once and answered in any order. Requests interleave at these points     *)
(* with each other, with a configuration reload and with the clock.        *)
(***************************************************************************)
EXTENDS TokenBucket, DedupStore, Functions

CONSTANTS
  Requests,     \* 1..n, numbered as they arrive
  Message,      \* the name of a message -> its MessageFields
  Sends,        \* request -> the names of the messages it may carry
  Registry,     \* agent -> [enabled, previous_until, rate]
  Configs,      \* version -> [bucket_seconds, allowed_lateness_seconds]
  SlotOf,       \* presented agent id -> its slot of the failure table
  StoreKinds,   \* the configured stores
  Limits,       \* settings: [burst, eps, source_rate, source_burst, slot_rate,
                \*            slot_burst, unit, keys, agents, out_of_order, count]
  MaxNow,       \* bound: seconds
  MaxFail       \* bound: failed calls to the store and the bus

MessageFields == {"agent", "credential", "source", "form", "body_agent", "sequence",
                  "window_start", "window_seconds", "entries"}

ASSUME MessageAssumption ==
  /\ \A m \in DOMAIN Message : DOMAIN Message[m] = MessageFields
  /\ \A r \in Requests : Sends[r] \subseteq DOMAIN Message
ASSUME IngestBounds == {MaxNow, MaxFail} \subseteq Nat /\ Limits.burst > 0 /\ Limits.unit > 0

VARIABLES
  ready,      \* Readiness: "ready", then "stopping"
  version,    \* the configuration in app.state.ingest
  now,        \* true time
  back,       \* how far the process clock has been set back
  kind,       \* which store is configured
  store,      \* its contents
  tables,     \* the four limiters
  req,        \* the requests
  log,        \* records of the observations log
  charges,    \* history: what the limiters charged
  forgotten,  \* history: what an LRU or a size bound dropped
  faults      \* bound bookkeeping

vars == <<ready, version, now, back, kind, store, tables, req, log, charges, forgotten, faults>>

clock == now - back

Idle == [pc |-> "idle", code |-> "none"]

Init ==
  /\ ready = "ready" /\ version = 1 /\ now = 0 /\ back = 0
  /\ kind \in StoreKinds
  /\ store = IF kind = "memory" THEN empty_memory ELSE {}
  /\ tables = [l \in {"sources", "slots", "requests", "observations"} |-> <<>>]
  /\ req = [r \in Requests |-> Idle]
  /\ log = {} /\ charges = {} /\ forgotten = {} /\ faults = 0

-----------------------------------------------------------------------------
(* Budgets *)

budget(limiter, agent) ==
  CASE limiter = "sources" -> [rate |-> Limits.source_rate, capacity |-> Limits.source_burst]
    [] limiter = "slots" -> [rate |-> Limits.slot_rate, capacity |-> Limits.slot_burst]
    [] limiter = "requests" -> [rate |-> Registry[agent].rate, capacity |-> Registry[agent].rate]
    [] OTHER -> [rate |-> Limits.eps, capacity |-> Limits.burst]

Check(limiter, key, agent, cost) ==
  check(tables[limiter], Limits.keys, key, budget(limiter, agent).rate, cost,
        budget(limiter, agent).capacity, clock)

\* What a check leaves behind: the table, the charge, the keys it pushed out.
Charged(r, limiter, key, cost, result) ==
  IF result.ok THEN {[by |-> r, limiter |-> limiter, key |-> key, cost |-> cost, at |-> now]}
  ELSE {}
Evicted(limiter, result) == {<<limiter, k>> : k \in Keys(tables[limiter]) \ Keys(result.table)}

-----------------------------------------------------------------------------
(* Readiness, authentication and the flat budget: up to the body's await *)

\* AgentRegistry.authenticate: a rotated-out token is good until its end.
authenticate(m) ==
  CASE m.agent \notin DOMAIN Registry -> "unknown_agent"
    [] m.credential = "wrong" -> "invalid_credential"
    [] m.credential = "previous" /\ clock >= Registry[m.agent].previous_until ->
         "invalid_credential"
    [] ~Registry[m.agent].enabled -> "agent_disabled"
    [] OTHER -> "ok"

\* The header checks come before the registry is asked.
authenticate_request(m) ==
  IF m.credential \in {"missing", "oversized"} THEN m.credential ELSE authenticate(m)

Answer(r, name, code) ==
  req' = [req EXCEPT ![r] = [pc |-> "done", code |-> code, message |-> name]]

\* The message a request carries.
M(r) == Message[req[r].message]

\* _require_ready comes before everything else.
NotReady(r, name) ==
  /\ ready # "ready"
  /\ Answer(r, name, "not_ready")
  /\ UNCHANGED <<ready, version, now, back, kind, store, tables, log, charges, forgotten, faults>>

\* require_agent's failure path: the source's budget first, and the slot's
\* only when the source had some left.
Refused(r, name) ==
  LET m      == Message[name]
      source == Check("sources", m.source, m.agent, Limits.unit)
      slot   == Check("slots", SlotOf[m.agent], m.agent, Limits.unit)
      code   == IF authenticate_request(m) = "agent_disabled" THEN "403" ELSE "401"
  IN  /\ ready = "ready" /\ authenticate_request(m) # "ok"
      /\ Answer(r, name, IF source.ok /\ slot.ok THEN code ELSE "429_auth")
      /\ tables' = [tables EXCEPT !["sources"] = source.table,
                                  !["slots"] = IF source.ok THEN slot.table ELSE @]
      /\ charges' = charges \union Charged(r, "sources", m.source, Limits.unit, source)
                    \union (IF source.ok
                            THEN Charged(r, "slots", SlotOf[m.agent], Limits.unit, slot) ELSE {})
      /\ forgotten' = forgotten \union Evicted("sources", source)
                      \union (IF source.ok THEN Evicted("slots", slot) ELSE {})
      /\ UNCHANGED <<ready, version, now, back, kind, store, log, faults>>

\* An authenticated request pays one request and reads its body. `version` is
\* the IngestState the handler works with from here to the end.
Admitted(r, name) ==
  LET m    == Message[name]
      flat == Check("requests", m.agent, m.agent, 1)
  IN  /\ ready = "ready" /\ authenticate_request(m) = "ok"
      /\ IF flat.ok
         THEN req' = [req EXCEPT ![r] = [pc |-> "body", code |-> "none", message |-> name,
                                         version |-> version]]
         ELSE Answer(r, name, "429_requests")
      /\ tables' = [tables EXCEPT !["requests"] = flat.table]
      /\ charges' = charges \union Charged(r, "requests", m.agent, 1, flat)
      /\ forgotten' = forgotten \union Evicted("requests", flat)
      /\ UNCHANGED <<ready, version, now, back, kind, store, log, faults>>

-----------------------------------------------------------------------------
(* Validation, coalescing and the observation budget: up to the claim *)

IPsOf(entries) == {entries[i].ip : i \in DOMAIN entries}

\* _coalesce: the counts of an address are summed.
total(entries, ip) ==
  MapThenSumSet(LAMBDA i : entries[i].count, {i \in DOMAIN entries : entries[i].ip = ip})

\* The first check a body fails, in the handler's order.
rejection(m, config) ==
  CASE m.form \in {"too_large", "too_many"} -> "413"
    [] m.form \in {"not_json", "schema"} -> "400"
    [] m.body_agent # m.agent -> "403"
    [] m.window_start % config.bucket_seconds # 0 \/ m.form = "bad_address" -> "400"
    [] \E ip \in IPsOf(m.entries) : total(m.entries, ip) > Limits.count -> "400"
    [] Cardinality(IPsOf(m.entries)) > Limits.burst -> "413"
    [] OTHER -> "ok"

\* What the store would answer, and its contents after.
claim(m, config) ==
  LET ttl == config.allowed_lateness_seconds + m.window_seconds
  IN  IF kind = "memory"
      THEN memory_claim(store, m.agent, m.sequence, ttl, clock, Limits.agents,
                        Limits.out_of_order)
      ELSE redis_claim(store, m.agent, m.sequence, ttl, now)

\* Mutant: the sequence is claimed before the batch is charged.
Body_claims_first(r) ==
  LET m    == M(r)
      code == rejection(m, Configs[req[r].version])
      cost == Cardinality(IPsOf(m.entries))
      paid == Check("observations", m.agent, m.agent, cost)
  IN  /\ req[r].pc = "body"
      /\ \/ /\ code # "ok"
            /\ Answer(r, req[r].message, code)
            /\ UNCHANGED <<store, tables, charges, forgotten>>
         \/ /\ code = "ok"
            /\ tables' = [tables EXCEPT !["observations"] = paid.table]
            /\ charges' = charges \union Charged(r, "observations", m.agent, cost, paid)
            /\ forgotten' = forgotten \union Evicted("observations", paid)
            /\ IF paid.ok THEN req' = [req EXCEPT ![r].pc = "claim"] /\ UNCHANGED store
               ELSE /\ store' = claim(m, Configs[req[r].version]).store
                    /\ Answer(r, req[r].message, "429_observations")
      /\ UNCHANGED <<ready, version, now, back, kind, log, faults>>

\* The body arrives: it is rejected, throttled, or goes to the store.
Body(r) ==
  LET m    == M(r)
      code == rejection(m, Configs[req[r].version])
      cost == Cardinality(IPsOf(m.entries))
      paid == Check("observations", m.agent, m.agent, cost)
  IN  /\ req[r].pc = "body"
      /\ \/ /\ code # "ok"
            /\ Answer(r, req[r].message, code)
            /\ UNCHANGED <<tables, charges, forgotten>>
         \/ /\ code = "ok"
            /\ tables' = [tables EXCEPT !["observations"] = paid.table]
            /\ charges' = charges \union Charged(r, "observations", m.agent, cost, paid)
            /\ forgotten' = forgotten \union Evicted("observations", paid)
            /\ IF paid.ok THEN req' = [req EXCEPT ![r].pc = "claim"]
               ELSE Answer(r, req[r].message, "429_observations")
      /\ UNCHANGED <<ready, version, now, back, kind, store, log, faults>>

-----------------------------------------------------------------------------
(* The claim *)

Held(contents, m) ==
  IF kind = "memory"
  THEN held(contents, m.agent) /\ contains(entry_of(contents, m.agent).window, m.sequence)
  ELSE \E k \in contents : /\ <<k.agent, k.sequence>> = <<m.agent, m.sequence>>
                           /\ k.expires_at > now

\* The claims a memory store gave up for room, not for time.
Forgets(after) ==
  {<<"claim", m.agent, m.sequence>> :
     m \in {m \in Range(Message) : kind = "memory" /\ Held(sweep(store, clock), m) /\ ~Held(after, m)}}

\* publish() drops the zero counts.
published(m) == {ip \in IPsOf(m.entries) : total(m.entries, ip) > 0}

Claim(r) ==
  LET m      == M(r)
      config == Configs[req[r].version]
      answer == claim(m, config)
  IN  /\ req[r].pc = "claim"
      /\ store' = answer.store
      /\ forgotten' = forgotten \union Forgets(answer.store)
      /\ IF answer.claimed
         THEN req' = [req EXCEPT ![r] =
                [pc |-> "publish", code |-> "none", message |-> req[r].message,
                 version |-> req[r].version,
                 left |-> published(m), failed |-> FALSE, claimed_at |-> now,
                 ttl |-> config.allowed_lateness_seconds + m.window_seconds]]
         ELSE req' = [req EXCEPT ![r] = [pc |-> "done", code |-> "200",
                                         message |-> req[r].message, answered_at |-> now]]
      /\ UNCHANGED <<ready, version, now, back, kind, tables, log, charges, faults>>

\* The store's answer is lost, with or without the key set: a 500.
ClaimFails(r) ==
  LET m == M(r)
  IN  /\ req[r].pc = "claim" /\ kind = "redis" /\ faults < MaxFail
      /\ faults' = faults + 1
      /\ store' \in {store, claim(m, Configs[req[r].version]).store}
      /\ req' = [req EXCEPT ![r] =
           [pc |-> "done", code |-> "500", message |-> req[r].message, claimed_at |-> now,
            ttl |-> Configs[req[r].version].allowed_lateness_seconds + m.window_seconds]]
      /\ UNCHANGED <<ready, version, now, back, kind, tables, log, charges, forgotten>>

-----------------------------------------------------------------------------
(* The publisher *)

\* Mutant: the version of the configuration in force when it is sent.
record_current(r, ip) ==
  [agent |-> M(r).agent, sequence |-> M(r).sequence, ip |-> ip,
   count |-> total(M(r).entries, ip), version |-> version,
   window_start |-> M(r).window_start]

\* _publish_one's envelope; agent, sequence and address make its event_id.
record(r, ip) ==
  [agent |-> M(r).agent, sequence |-> M(r).sequence, ip |-> ip,
   count |-> total(M(r).entries, ip), version |-> req[r].version,
   window_start |-> M(r).window_start]

\* The log drops a record whose event_id it holds, inside its duplicate
\* window, and appends it again after.
Stored(r, ip) ==
  \/ log' = log \union {record(r, ip)}
  \/ /\ \E e \in log : <<e.agent, e.sequence, e.ip>>
                       = <<record(r, ip).agent, record(r, ip).sequence, ip>>
     /\ UNCHANGED log

PublishOne(r, ip) ==
  /\ req[r].pc = "publish" /\ ip \in req[r].left
  /\ req' = [req EXCEPT ![r].left = @ \ {ip}]
  /\ Stored(r, ip)
  /\ UNCHANGED <<ready, version, now, back, kind, store, tables, charges, forgotten, faults>>

\* A publish raises, stored or not; its siblings are still awaited.
PublishFails(r, ip) ==
  /\ req[r].pc = "publish" /\ ip \in req[r].left /\ faults < MaxFail
  /\ faults' = faults + 1
  /\ req' = [req EXCEPT ![r].left = @ \ {ip}, ![r].failed = TRUE]
  /\ Stored(r, ip) \/ UNCHANGED log
  /\ UNCHANGED <<ready, version, now, back, kind, store, tables, charges, forgotten>>

\* All have settled: the first failure is raised, or the producer is flushed.
PublishDone(r) ==
  /\ req[r].pc = "publish" /\ req[r].left = {}
  /\ req' = [req EXCEPT ![r].pc = "done", ![r].code = IF req[r].failed THEN "503" ELSE "202"]
  /\ UNCHANGED <<ready, version, now, back, kind, store, tables, log, charges, forgotten, faults>>

FlushFails(r) ==
  /\ req[r].pc = "publish" /\ req[r].left = {} /\ ~req[r].failed /\ faults < MaxFail
  /\ faults' = faults + 1
  /\ req' = [req EXCEPT ![r].pc = "done", ![r].code = "503"]
  /\ UNCHANGED <<ready, version, now, back, kind, store, tables, log, charges, forgotten>>

-----------------------------------------------------------------------------
(* Around the requests *)

\* _apply_config replaces the state later requests will read.
Reload ==
  /\ ready = "ready" /\ version + 1 \in DOMAIN Configs
  /\ version' = version + 1
  /\ UNCHANGED <<ready, now, back, kind, store, tables, req, log, charges, forgotten, faults>>

\* stop(): mark_stopping; requests in flight finish.
Stop ==
  /\ ready = "ready"
  /\ ready' = "stopping"
  /\ UNCHANGED <<version, now, back, kind, store, tables, req, log, charges, forgotten, faults>>

Tick ==
  /\ now < MaxNow
  /\ now' = now + 1
  /\ UNCHANGED <<ready, version, back, kind, store, tables, req, log, charges, forgotten, faults>>

\* The process clock is set back a second.
SetBack ==
  /\ back = 0 /\ now > 0
  /\ back' = 1
  /\ UNCHANGED <<ready, version, now, kind, store, tables, req, log, charges, forgotten, faults>>

Arrive(r) ==
  /\ req[r].pc = "idle"
  /\ \A earlier \in Requests : earlier < r => req[earlier].pc # "idle"
  /\ \E name \in Sends[r] : NotReady(r, name) \/ Refused(r, name) \/ Admitted(r, name)

Proceed(r) ==
  \/ Body(r) \/ Claim(r) \/ PublishDone(r)
  \/ req[r].pc = "publish" /\ \E ip \in req[r].left : PublishOne(r, ip)

Fault(r) ==
  \/ ClaimFails(r) \/ FlushFails(r)
  \/ req[r].pc = "publish" /\ \E ip \in req[r].left : PublishFails(r, ip)

Next ==
  \/ \E r \in Requests : Arrive(r) \/ Proceed(r) \/ Fault(r)
  \/ Reload \/ Stop \/ Tick \/ SetBack

Spec == Init /\ [][Next]_vars

-----------------------------------------------------------------------------
(* Properties *)

Arrived == {r \in Requests : req[r].pc # "idle"}
Same(m, n) == m.agent = n.agent /\ m.sequence = n.sequence
Claimed(r) == "claimed_at" \in DOMAIN req[r]

\* At most one request publishes a sequence: two that claimed it did so a
\* whole retention apart, however their steps interleaved, unless a size bound
\* of the memory store had dropped the claim (claim, section 23).
OneClaimant ==
  \A r, s \in Requests :
    /\ r # s /\ Claimed(r) /\ Claimed(s)
    /\ req[r].code # "500" /\ req[s].code # "500"
    /\ Same(M(r), M(s))
    /\ req[r].claimed_at <= req[s].claimed_at
    => \/ req[s].claimed_at >= req[r].claimed_at + req[r].ttl
       \/ <<"claim", M(r).agent, M(r).sequence>> \in forgotten

\* 202 means every address of the batch is in the log with the sum of its
\* counts, and none with a zero count (ADR-0004, ADR-0008).
AcceptedIsComplete ==
  \A r \in Arrived : req[r].code = "202" =>
    LET m    == M(r)
        sent == {e \in log : e.agent = m.agent /\ e.sequence = m.sequence}
    IN  \A ip \in IPsOf(m.entries) :
          LET sum == MapThenSumSet(LAMBDA i : m.entries[i].count,
                                   {i \in DOMAIN m.entries : m.entries[i].ip = ip})
          IN  IF sum = 0 THEN \A e \in sent : e.ip # ip
              ELSE \E e \in sent : e.ip = ip /\ e.count = sum

\* A sequence all of whose requests were turned away before the claim is
\* neither claimed nor in the log: a corrected retry is still the first one
\* (ADR-0004 sections 3 and 5).
RejectedLeavesNoTrace ==
  \A m \in Range(Message) :
    (\A r \in Arrived : Same(M(r), m) =>
       ~Claimed(r) /\ req[r].code \in {"none", "400", "401", "403", "413", "429_auth",
                                       "429_requests", "429_observations", "not_ready"})
    => /\ ~Held(store, m)
       /\ \A e \in log : ~(e.agent = m.agent /\ e.sequence = m.sequence)

\* A 200 is no false duplicate: an earlier request claimed this very sequence,
\* and with Redis that claim had not lapsed.
DuplicateHasClaim ==
  \A r \in Arrived : req[r].code = "200" =>
    \E s \in Arrived \ {r} :
      /\ Claimed(s) /\ Same(M(s), M(r))
      /\ kind = "redis" => req[r].answered_at < req[s].claimed_at + req[s].ttl

\* A record's window is aligned to the buckets of the version it carries, also
\* when the configuration was replaced while the request waited for its body,
\* its claim or a publish (spec section 47.3).
AlignedUnderItsVersion ==
  \A e \in log : e.window_start % Configs[e.version].bucket_seconds = 0

\* What a limiter lets through for a key in any interval is at most its
\* capacity and the refill of that interval, whatever the clock does, as long
\* as the key was never evicted.
WithinBudget ==
  \A c, d \in charges :
    /\ c.limiter = d.limiter /\ c.key = d.key /\ c.at <= d.at
    /\ <<c.limiter, c.key>> \notin forgotten
    => LET in == {x \in charges : x.limiter = c.limiter /\ x.key = c.key
                                  /\ x.at \in c.at..d.at}
           b  == budget(c.limiter, c.key)
       IN  MapThenSumSet(LAMBDA x : x.cost, in) <= b.capacity + b.rate * (d.at - c.at)

\* A throttled batch that comes back after Retry-After seconds, with nothing
\* charged in between, is let through, whatever it costs, unless the clock has
\* been set back.
RetryAfterSuffices ==
  \A agent \in DOMAIN Registry : \A cost \in 1..Limits.burst :
    LET first  == Check("observations", agent, agent, cost)
        second == check(first.table, Limits.keys, agent, Limits.eps, cost, Limits.burst,
                        clock + first.retry)
    IN  ~first.ok => first.retry >= 1 /\ (back = 0 => second.ok)

\* A limiter neither gives more than its budget nor makes a promise it breaks.
BudgetsSound == WithinBudget /\ RetryAfterSuffices

\* The failure budgets are for failures: a request with a good credential is
\* never answered 401 or throttled for others' failures, from whatever source
\* and into whatever slot they came (section 36.5).
GoodCredentialNotRefused ==
  \A r \in Arrived : req[r].code \in {"401", "429_auth"} =>
    \/ M(r).credential # "current"
    \/ M(r).agent \notin DOMAIN Registry
    \/ ~Registry[M(r).agent].enabled

\* What an answer tells an agent about its batch is so: 202 that all of it is
\* in the log, 200 that it was claimed before, a refusal that nothing of it was
\* kept, 401 and 429 for a failed login that its own credential was at fault.
AnswersTrue ==
  AcceptedIsComplete /\ DuplicateHasClaim /\ RejectedLeavesNoTrace /\ GoodCredentialNotRefused

====
