---- MODULE DedupStore ----
(***************************************************************************)
(* The two DedupStores behind ingest's claim: MemoryDedupStore with one    *)
(* SequenceWindow per agent (memory.py, dedup.py), and RedisDedupStore     *)
(* with one expiring key per (agent, sequence) (redis.py).                 *)
(***************************************************************************)
EXTENDS Integers, Sequences, FiniteSets, FiniteSetsExt

-----------------------------------------------------------------------------
(* SequenceWindow: a mark below which everything was seen, and the         *)
(* sequences seen ahead of a gap                                           *)

new_window == [mark |-> -1, ahead |-> {}]

contains(window, sequence) == sequence <= window.mark \/ sequence \in window.ahead

\* The mark after the run of seen sequences that follows it.
fold_contiguous_run(mark, ahead) ==
  LET run == {n \in ahead : \A k \in (mark + 1)..n : k \in ahead}
      top == IF run = {} THEN mark ELSE Max(run)
  IN  [mark |-> top, ahead |-> {n \in ahead : n > top}]

\* The oldest of too many is dropped; the mark never jumps over a gap.
bound_out_of_order_set(window, max_out_of_order) ==
  IF Cardinality(window.ahead) > max_out_of_order
  THEN [window EXCEPT !.ahead = @ \ {Min(@)}]
  ELSE window

add(window, sequence, max_out_of_order) ==
  CASE contains(window, sequence) -> window
    [] sequence = window.mark + 1 -> fold_contiguous_run(sequence, window.ahead)
    [] OTHER ->
         bound_out_of_order_set([window EXCEPT !.ahead = @ \union {sequence}], max_out_of_order)

-----------------------------------------------------------------------------
(* MemoryDedupStore: the windows in order of use, their expiry, and a heap *)
(* of expiries whose stale entries the sweep passes over                   *)

empty_memory == [windows |-> <<>>, heap |-> {}]

held(store, agent) == \E i \in DOMAIN store.windows : store.windows[i].agent = agent
entry_of(store, agent) ==
  store.windows[CHOOSE i \in DOMAIN store.windows : store.windows[i].agent = agent]
without(store, agent) == SelectSeq(store.windows, LAMBDA e : e.agent # agent)

sweep(store, now) ==
  LET due == {h \in store.heap : h.at <= now}
  IN  [windows |-> SelectSeq(store.windows,
                             LAMBDA e : [at |-> e.expires_at, agent |-> e.agent] \notin due),
       heap |-> store.heap \ due]

evict_agent_if_full(windows, max_agents) ==
  IF Len(windows) < max_agents THEN windows ELSE Tail(windows)

\* has_seen: sweeps, and touches the window of an agent it holds.
has_seen(store, agent, now) ==
  LET swept == sweep(store, now)
  IN  IF held(swept, agent)
      THEN [swept EXCEPT !.windows = Append(without(swept, agent), entry_of(swept, agent))]
      ELSE swept

\* mark_seen on a store has_seen just swept: an expiry only moves forward.
mark_seen(store, agent, sequence, expires_at, max_agents, max_out_of_order) ==
  LET old    == IF held(store, agent) THEN entry_of(store, agent).window ELSE new_window
      rest   == IF held(store, agent) THEN without(store, agent)
                ELSE evict_agent_if_full(store.windows, max_agents)
      moves  == ~held(store, agent) \/ expires_at > entry_of(store, agent).expires_at
      expiry == IF moves THEN expires_at ELSE entry_of(store, agent).expires_at
  IN  [windows |-> Append(rest, [agent |-> agent, expires_at |-> expiry,
                                 window |-> add(old, sequence, max_out_of_order)]),
       heap |-> IF moves THEN store.heap \union {[at |-> expires_at, agent |-> agent]}
                ELSE store.heap]

\* claim(): no await between the check and the mark.
memory_claim(store, agent, sequence, ttl, now, max_agents, max_out_of_order) ==
  LET looked == has_seen(store, agent, now)
      seen   == held(looked, agent) /\ contains(entry_of(looked, agent).window, sequence)
  IN  [claimed |-> ~seen,
       store |-> IF seen THEN looked
                 ELSE mark_seen(looked, agent, sequence, now + ttl, max_agents,
                                max_out_of_order)]

-----------------------------------------------------------------------------
(* RedisDedupStore: the keys and when each expires *)

\* Mutant: a plain SET takes the key from its holder.
redis_claim_sets(keys, agent, sequence, ttl, now) ==
  [claimed |-> TRUE,
   store |-> {k \in keys : k.expires_at > now}
             \union {[agent |-> agent, sequence |-> sequence, expires_at |-> now + ttl]}]

\* SET NX EX: a key past its expiry is absent.
redis_claim(keys, agent, sequence, ttl, now) ==
  LET live == {k \in keys : k.expires_at > now}
      free == \A k \in live : <<k.agent, k.sequence>> # <<agent, sequence>>
  IN  [claimed |-> free,
       store |-> IF free
                 THEN live \union {[agent |-> agent, sequence |-> sequence,
                                    expires_at |-> now + ttl]}
                 ELSE live]
====
