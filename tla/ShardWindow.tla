---------------------------- MODULE ShardWindow ----------------------------
(***************************************************************************)
(* The window store of one shard and the three things a worker does to it  *)
(* under its lock: apply an observation, run maintenance, adopt a new      *)
(* configuration.  Persisting and publishing the transitions is the        *)
(* subject of AggregatorWorker; here an evaluation goes through, but for   *)
(* those after a change of configuration, whose failure the poller         *)
(* survives: the store then has another configuration than the worker.     *)
(*                                                                         *)
(* A store is a record:                                                    *)
(*   entries        the tracked IPs: ring, state, last_seen, inherited     *)
(*   expiry_heap    the pending expiries, pairs <<time, ip>>.  A set: two  *)
(*                  equal pairs pop in the same sweep, and the second one  *)
(*                  always finds its schedule gone or later                *)
(*   expiry_sched   the earliest pending expiry of an IP                   *)
(*   seen_heap      the retention/capacity heap, in tie-break order        *)
(*   seen_sched     the key of an IP's pending entry on it                 *)
(*   warm_until     the end of the warm-up, NoBucket for none              *)
(***************************************************************************)
EXTENDS IpCounter, Sequences, TLC
LOCAL INSTANCE FiniteSetsExt
LOCAL INSTANCE SequencesExt

CONSTANTS
  IPs,              \* the IPs of the shard
  Configs,          \* the configurations an operator publishes
  Deltas,           \* request counts an observation may carry
  max_tracked_ips,  \* the store's cap
  MaxNow,           \* bound: the last second of the clock
  MaxBucket         \* bound: the most requests put in one bucket

ASSUME ConfigAssumption == \A c \in Configs : IsConfig(c)
ASSUME BoundAssumption ==
  /\ Deltas \subseteq Nat
  /\ max_tracked_ips \in Nat \ {0} /\ MaxNow \in Nat /\ MaxBucket \in Nat

VARIABLES
  win,     \* the store
  config,  \* the worker's configuration, which is the poller's current one
  now,     \* the injected clock
  hist     \* history: requests applied per IP and bucket start, while live

vars == <<win, config, now, hist>>

-----------------------------------------------------------------------------
(* Reads and the two schedules *)

Without(f, ip) == Restrict(f, DOMAIN f \ {ip})

tracked(w) == DOMAIN w.entries
state(w, ip) == IF ip \in tracked(w) THEN w.entries[ip].state ELSE COLD
total(w, ip) == IF ip \in tracked(w) THEN w.entries[ip].ring.total ELSE 0
hot_ips(w) == {ip \in tracked(w) : w.entries[ip].state = HOT}
in_warmup(w, t) == w.warm_until # NoBucket /\ t < w.warm_until

fresh_ring(c) == new_counter(c.bucket_seconds, bucket_count(c))

schedule_last_seen(w, ip) ==
  IF ip \in DOMAIN w.seen_sched THEN w
  ELSE LET key == w.entries[ip].last_seen
       IN  [w EXCEPT !.seen_sched = (ip :> key) @@ @,
                     !.seen_heap = Append(@, [key |-> key, ip |-> ip])]

\* Mutant: a scheduled IP is not rescheduled for an older bucket.
schedule_expiry_once(w, ip) ==
  LET at == next_expiry(w.entries[ip].ring)
  IN  IF at = NoBucket \/ ip \in DOMAIN w.expiry_sched THEN w
      ELSE [w EXCEPT !.expiry_sched = (ip :> at) @@ @,
                     !.expiry_heap = @ \cup {<<at, ip>>}]

schedule_expiry(w, ip) ==
  LET at == next_expiry(w.entries[ip].ring)
  IN  IF at = NoBucket \/ (ip \in DOMAIN w.expiry_sched /\ w.expiry_sched[ip] <= at)
      THEN w
      ELSE [w EXCEPT !.expiry_sched = (ip :> at) @@ @,
                     !.expiry_heap = @ \cup {<<at, ip>>}]

track(w, ip, st, seen, inherited, ring) ==
  schedule_last_seen(
    [w EXCEPT !.entries =
       (ip :> [ring |-> ring, state |-> st, last_seen |-> seen, inherited |-> inherited]) @@ @],
    ip)

\* _drop(): the sweeper has already popped the IP's seen_heap entry; an
\* expiry_heap entry stays behind and is skipped when it surfaces.
drop(w, ip) ==
  [w EXCEPT !.entries = Without(@, ip),
            !.expiry_sched = Without(@, ip),
            !.seen_sched = Without(@, ip),
            !.seen_heap = SelectSeq(@, LAMBDA e : e.ip # ip)]

\* An entry whose key is stale is put back with the current last_seen,
\* keeping its tie-break.
rekey(w, i) ==
  LET ip == w.seen_heap[i].ip
      key == w.entries[ip].last_seen
  IN  [w EXCEPT !.seen_heap[i].key = key, !.seen_sched[ip] = key]

\* The heap's top among the entries not set aside: least key, then oldest.
Candidates(w, aside) == {i \in DOMAIN w.seen_heap : w.seen_heap[i].ip \notin aside}

\* Mutant: the oldest entry, whatever its key.
Top_first_tracked(w, aside) == Min(Candidates(w, aside))

Top(w, aside) ==
  CHOOSE i \in Candidates(w, aside) : \A j \in Candidates(w, aside) \ {i} :
    \/ w.seen_heap[i].key < w.seen_heap[j].key
    \/ w.seen_heap[i].key = w.seen_heap[j].key /\ i < j

-----------------------------------------------------------------------------
(* The operations of the store *)

\* __init__: the inherited HOT set is tracked from the start.
new_window(c, inherited, t) ==
  LET empty == [cfg |-> c, entries |-> <<>>, expiry_heap |-> {}, expiry_sched |-> <<>>,
                seen_heap |-> <<>>, seen_sched |-> <<>>,
                warm_until |-> IF inherited = {} THEN NoBucket ELSE t + c.window_seconds]
  IN  FoldSet(LAMBDA ip, w : track(w, ip, HOT, t, TRUE, fresh_ring(c)), empty, inherited)

\* _evict_for_capacity's loop; HOT entries are set aside and pushed back.
RECURSIVE capacity_sweep(_, _)
capacity_sweep(w, aside) ==
  IF Candidates(w, aside) = {} THEN w
  ELSE LET i == Top(w, aside)
           ip == w.seen_heap[i].ip
       IN  IF w.seen_heap[i].key # w.entries[ip].last_seen
           THEN capacity_sweep(rekey(w, i), aside)
           ELSE IF w.entries[ip].state = HOT
           THEN capacity_sweep(w, aside \cup {ip})
           ELSE drop(w, ip)

evict_for_capacity(w) ==
  IF Cardinality(tracked(w)) < max_tracked_ips THEN w ELSE capacity_sweep(w, {})

\* observe(): nothing changes unless the bucket is live.
observe_ip(w, ip, S, delta, t) ==
  LET known == ip \in tracked(w)
      ring  == IF known THEN w.entries[ip].ring ELSE fresh_ring(w.cfg)
  IN  IF ~is_live(ring, S, t) THEN w
      ELSE schedule_expiry(
             IF known
             THEN [w EXCEPT !.entries[ip].ring = observe(ring, S, delta),
                            !.entries[ip].last_seen = Max({@, S})]
             ELSE track(evict_for_capacity(w), ip, COLD, S, FALSE, observe(ring, S, delta)),
             ip)

set_state(w, ip, st) ==
  LET w1 == [w EXCEPT !.entries[ip].state = st,
                      !.entries[ip].inherited = @ /\ st # COLD]
  IN  IF st = COLD THEN schedule_last_seen(w1, ip) ELSE w1

\* Mutant: an expiry due exactly now waits for the next sweep.
due_ips_strict(w, t) ==
  {ip \in DOMAIN w.expiry_sched :
     w.expiry_sched[ip] < t /\ <<w.expiry_sched[ip], ip>> \in w.expiry_heap}

\* The IPs whose pending expiry is due and not superseded.
due_ips(w, t) ==
  {ip \in DOMAIN w.expiry_sched :
     w.expiry_sched[ip] <= t /\ <<w.expiry_sched[ip], ip>> \in w.expiry_heap}

\* expire_due(): every due entry is popped; the ring of an IP whose entry is
\* current is expired and its next expiry scheduled.
expire_due(w, t) ==
  LET popped == [w EXCEPT !.expiry_heap = {e \in @ : e[1] > t},
                          !.expiry_sched = Restrict(@, DOMAIN @ \ due_ips(w, t))]
      Expire1(ip, x) ==
        schedule_expiry([x EXCEPT !.entries[ip].ring = expire(@, t)], ip)
  IN  FoldSet(Expire1, popped, due_ips(w, t) \cap tracked(w))

\* The IPs expire_due() reports: those whose total dropped.
expired_ips(w, t) ==
  {ip \in due_ips(w, t) \cap tracked(w) : expired_amount(w.entries[ip].ring, t) # 0}

\* evict_due()'s loop: stop at the first current key past the deadline.
RECURSIVE retention_sweep(_, _, _)
retention_sweep(w, deadline, aside) ==
  IF Candidates(w, aside) = {} THEN w
  ELSE LET i == Top(w, aside)
           ip == w.seen_heap[i].ip
       IN  IF w.seen_heap[i].key # w.entries[ip].last_seen
           THEN retention_sweep(rekey(w, i), deadline, aside)
           ELSE IF w.seen_heap[i].key > deadline THEN w
           ELSE IF w.entries[ip].state = HOT
           THEN retention_sweep(w, deadline, aside \cup {ip})
           ELSE retention_sweep(drop(w, ip), deadline, aside)

evict_due(w, t) == retention_sweep(w, t - w.cfg.state_retention_seconds, {})

warmup_due(w, t) == w.warm_until # NoBucket /\ t >= w.warm_until

finish_warmup(w) ==
  [w EXCEPT !.warm_until = NoBucket,
            !.entries = [ip \in DOMAIN @ |-> [@[ip] EXCEPT !.inherited = FALSE]]]

still_hot(w) == {ip \in hot_ips(w) : w.entries[ip].inherited}

\* apply_config(): the rings are rebuilt only when the geometry changed.
adopt_config(w, c, t) ==
  LET B == c.bucket_seconds
      N == bucket_count(c)
      Rebuild1(ip, x) ==
        schedule_expiry([x EXCEPT !.entries[ip].ring = rebuild(@, B, N, t),
                                  !.expiry_sched = Without(@, ip)], ip)
      w1 == [w EXCEPT !.cfg = c]
  IN  IF B = w.cfg.bucket_seconds /\ N = bucket_count(w.cfg) THEN w1
      ELSE FoldSet(Rebuild1, w1, tracked(w))

-----------------------------------------------------------------------------
(* What the worker does with the store, each under the worker's lock *)

\* TransitionEmitter.evaluate, its effect on the store.
evaluate(w, ip, c, t) ==
  LET new == evaluate_ip_state(state(w, ip), total(w, ip), c)
  IN  IF \/ new = state(w, ip)
         \/ new = COLD /\ in_warmup(w, t) /\ w.entries[ip].inherited
      THEN w ELSE set_state(w, ip, new)

EvaluateAll(w, ips, c, t) == FoldSet(LAMBDA ip, x : evaluate(x, ip, c, t), w, ips)

\* The history keeps what is tracked and live.
Prune(h, w, t) ==
  [ip \in IPs |-> [S \in 0 .. MaxNow |->
     IF ip \in tracked(w) /\ is_live(w.entries[ip].ring, S, t) THEN h[ip][S] ELSE 0]]

Init ==
  /\ now = 0
  /\ config \in Configs
  /\ \E inherited \in SUBSET IPs : win = new_window(config, inherited, now)
  /\ hist = [ip \in IPs |-> [S \in 0 .. MaxNow |-> 0]]

Tick ==
  /\ now < MaxNow
  /\ now' = now + 1
  /\ hist' = Prune(hist, win, now')
  /\ UNCHANGED <<win, config>>

\* _handle(): an observation that is not APPLIED never reaches the store.  It is
\* classified by the worker's configuration and floored by the store's; the
\* clock is read for the classification and again by observe(), at t.
Handle(ip, start, delta, t) ==
  LET S == bucket_start(start, win.cfg.bucket_seconds)
  IN  /\ t <= MaxNow
      /\ classify_observation(start, 1, now, config) = "APPLIED"
      /\ hist[ip][S] + delta <= MaxBucket
      /\ win' = evaluate(observe_ip(win, ip, S, delta, t), ip, config, t)
      /\ hist' = Prune([hist EXCEPT ![ip][S] = @ + delta], win', t)
      /\ now' = t
      /\ UNCHANGED config

\* run_maintenance(): expire and evaluate, end the warm-up, evict.
maintained(w, t) ==
  LET w1 == EvaluateAll(expire_due(w, t), expired_ips(w, t) \cap hot_ips(w), config, t)
      w2 == IF warmup_due(w1, t)
            THEN EvaluateAll(finish_warmup(w1), still_hot(w1), config, t) ELSE w1
  IN  evict_due(w2, t)

Maintain ==
  /\ win' = maintained(win, now)
  /\ hist' = Prune(hist, win', now)
  /\ UNCHANGED <<config, now>>

\* What the history becomes when the store adopts c: the requests of a bucket
\* go to the bucket of the new size that starts it.
Rebucketed(c, w) ==
  LET Moved(ip, T) == {S \in 0 .. MaxNow :
                         bucket_start(S, c.bucket_seconds) = T /\ hist[ip][S] > 0}
  IN  IF c.bucket_seconds = win.cfg.bucket_seconds /\ c.window_seconds = win.cfg.window_seconds
      THEN hist
      ELSE Prune([ip \in IPs |-> [T \in 0 .. MaxNow |->
                    SumFunctionOnSet(hist[ip], Moved(ip, T))]], w, now)

\* Mutant: no re-evaluation after the change.
Reconfigure_only(c) ==
  /\ c.version > config.version
  /\ win' = adopt_config(win, c, now) /\ config' = c
  /\ hist' = Rebucketed(c, win')
  /\ UNCHANGED now

\* apply_config(): the store adopts it, reevaluate_shard(), then the worker.
Reconfigure(c) ==
  LET w1 == adopt_config(win, c, now)
  IN  /\ c.version > config.version
      /\ win' = EvaluateAll(w1, tracked(w1), c, now)
      /\ hist' = Rebucketed(c, win')
      /\ config' = c
      /\ UNCHANGED now

\* The transition of ip fails, after those of some other IPs: the store keeps
\* the configuration, the worker its old one, and the next poll tries again.
ReconfigureFails(c, ip, done) ==
  LET w1 == adopt_config(win, c, now)
  IN  /\ c.version > config.version
      /\ ip \in tracked(win) /\ done \subseteq tracked(win) \ {ip}
      /\ evaluate(w1, ip, c, now) # w1
      /\ win' = EvaluateAll(w1, done, c, now)
      /\ hist' = Rebucketed(c, win')
      /\ UNCHANGED <<config, now>>

Next ==
  \/ Tick
  \/ \E ip \in IPs, start \in 0 .. now, delta \in Deltas, t \in {now, now + 1} :
       Handle(ip, start, delta, t)
  \/ Maintain
  \/ \E c \in Configs :
       \/ Reconfigure(c)
       \/ \E ip \in IPs, done \in SUBSET IPs : ReconfigureFails(c, ip, done)

Spec == Init /\ [][Next]_vars

-----------------------------------------------------------------------------
(* Properties *)

\* Every ring has the geometry of the configuration in force, its running
\* total is the sum of its slots, and every live bucket holds
\* exactly the requests applied to it, in whatever order they arrived and
\* whatever the geometry was then: no two live buckets share a slot, and a
\* re-bucketing neither loses nor doubles a count (IpCounter, apply_config).
RingExact ==
  \A ip \in tracked(win) :
    LET r == win.entries[ip].ring
    IN  /\ r.B = win.cfg.bucket_seconds /\ r.N = bucket_count(win.cfg)
        /\ r.total = SumFunction(r.counts)
        /\ \A S \in 0 .. MaxNow : is_live(r, S, now) =>
             hist[ip][S] = IF r.starts[slot_of(r, S)] = S THEN r.counts[slot_of(r, S)] ELSE 0

\* A ring that holds anything has an expiry on the heap, current and no later
\* than its oldest bucket's end, so no sweep misses it (_schedule_expiry);
\* a dropped IP has none.
ExpiryPending ==
  /\ DOMAIN win.expiry_sched \subseteq tracked(win)
  /\ \A ip \in DOMAIN win.expiry_sched : <<win.expiry_sched[ip], ip>> \in win.expiry_heap
  /\ \A ip \in tracked(win) :
       LET at == next_expiry(win.entries[ip].ring)
       IN  at # NoBucket => ip \in DOMAIN win.expiry_sched /\ win.expiry_sched[ip] <= at

\* Every tracked IP is on the retention/capacity heap exactly once, with the
\* scheduled key, which is at or below its last_seen (_schedule_last_seen).
SeenHeapExact ==
  /\ DOMAIN win.seen_sched = tracked(win)
  /\ Len(win.seen_heap) = Cardinality(tracked(win))
  /\ \A ip \in tracked(win) :
       /\ win.seen_sched[ip] <= win.entries[ip].last_seen
       /\ \E i \in DOMAIN win.seen_heap :
            win.seen_heap[i] = [key |-> win.seen_sched[ip], ip |-> ip]

\* Both lazy heaps stay in step with the entries through every operation: the
\* stale records they hold never hide or outlive a real one.
HeapsSound == ExpiryPending /\ SeenHeapExact

\* Between operations a HOT IP has its cold_threshold in the ring, or is an
\* inherited one still owed its evaluation at the end of the warm-up: no path
\* lowers a total without an evaluation.  While a change of configuration has
\* failed half way this may not hold, and it does again once one has succeeded
\* (worker.py, reevaluate.py).
NoStaleHot ==
  config = win.cfg => \A ip \in hot_ips(win) :
    \/ total(win, ip) >= config.cold_threshold
    \/ win.entries[ip].inherited /\ win.warm_until # NoBucket

LiveCount(ip) == SumFunction(hist[ip])

\* What a maintenance pass leaves behind: totals are the exact sliding sums of
\* the store's window, also when the worker's is another, no COLD IP has
\* outstayed its retention, and when the two agree a HOT IP is above the cold
\* threshold on the requests still in the window (or exempt).
MaintenanceExact ==
  [][Maintain => \A ip \in tracked(win') :
       LET e == win'.entries[ip]
       IN  /\ e.ring.total = LiveCount(ip)
           /\ e.state = HOT /\ config = win.cfg =>
                \/ LiveCount(ip) >= config.cold_threshold
                \/ e.inherited /\ now < win'.warm_until
           /\ e.state = COLD => e.last_seen > now - win.cfg.state_retention_seconds]_vars

\* An IP leaves the store only COLD or demoted in the same pass, either idle
\* for the whole retention with nothing live in its ring, or as the least
\* recently seen COLD IP of a full store; and a store at its cap grows only
\* when every IP it tracks is HOT (evict_due, _evict_for_capacity).
EvictionSafe ==
  /\ [][\A ip \in tracked(win) \ tracked(win') :
          /\ state(win, ip) = COLD \/ LiveCount(ip) < config.cold_threshold
          /\ \/ /\ win.entries[ip].last_seen <= now - win.cfg.state_retention_seconds
                /\ LiveCount(ip) = 0
             \/ /\ Cardinality(tracked(win)) >= max_tracked_ips
                /\ \A other \in tracked(win) : state(win, other) = COLD =>
                     win.entries[other].last_seen >= win.entries[ip].last_seen]_vars
  /\ [][Cardinality(tracked(win')) > Cardinality(tracked(win))
          => \/ Cardinality(tracked(win)) < max_tracked_ips
             \/ hot_ips(win) = tracked(win)]_vars
=============================================================================
