--------------------------- MODULE MCShardWindow ---------------------------
(* Two small instances of ShardWindow in one: a full store of several IPs   *)
(* under one configuration, and one IP through changes of configuration     *)
(* that coarsen, refine, shorten or lengthen the ring.                      *)
EXTENDS ShardWindow

CONSTANTS FullNow,  \* bound: the last second of the full store's clock
          MaxSkip   \* bound: how much newer the version is that fails, once

Cfg(v, W, B, hot, cold, retention) ==
  [version |-> v, window_seconds |-> W, bucket_seconds |-> B, hot_threshold |-> hot,
   cold_threshold |-> cold, allowed_lateness_seconds |-> 1,
   state_retention_seconds |-> retention]

\* Two buckets of a second, one request in each to turn HOT; a demoted IP
\* stays tracked for a second more than the window.
Tight == Cfg(5, 2, 1, 2, 1, 2)

\* Finer buckets, then coarser ones and a shorter window, then new thresholds
\* only.
Reconfigs == {Cfg(1, 4, 2, 3, 2, 4), Cfg(2, 4, 1, 3, 1, 4), Cfg(3, 3, 3, 3, 2, 3),
              Cfg(4, 3, 3, 2, 1, 3)}

TwoInstances == Reconfigs \cup {Tight}

Full == win.cfg = Tight

MCInit == Init /\ (~Full => Cardinality(tracked(win)) <= 1)

MCNext ==
  \/ Tick /\ (Full => now < FullNow)
  \/ \E ip \in IPs, start \in 0 .. now, delta \in Deltas, t \in {now, now + 1} :
       /\ IF Full THEN delta = 1 /\ t <= FullNow
          ELSE delta # 1 /\ tracked(win) \subseteq {ip}
       /\ Handle(ip, start, delta, t)
       /\ Full => \A S \in 0 .. MaxNow : hist'[ip][S] <= 1
  \/ Maintain
  \/ \E c \in Reconfigs : Reconfigure(c)
  \/ \E c \in Reconfigs, ip \in IPs :
       /\ c.version <= config.version + MaxSkip /\ win.cfg = config
       /\ ReconfigureFails(c, ip, {})

MCSpec == MCInit /\ [][MCNext]_vars

Symmetry == Permutations(IPs)
=============================================================================
