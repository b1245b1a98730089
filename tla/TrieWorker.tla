---- MODULE TrieWorker ----
(***************************************************************************)
(* The trie service's single writer (worker.py, publisher.py, state.py):   *)
(* it replays the hot-ip log from its first retained offset, follows it,   *)
(* and publishes the new counts of every prefix an event changed. Its      *)
(* state is in memory only; a restart replays, and publishes again only    *)
(* from the sequence of the last message of the prefix-stats log.          *)
(*                                                                         *)
(* The trie is the set of HOT addresses it implements (HotTrie). Each      *)
(* await of start(), and each message of a publish, is a step of its own;  *)
(* the apply step of handle() has no await and is one step.                *)
(***************************************************************************)
EXTENDS Integers, Sequences, FiniteSets, FiniteSetsExt

CONSTANTS
  IPs,         \* addresses of the served families
  PrefixesOf,  \* the reported prefixes of an address, shortest to host route
  Arrivals,    \* the records that may be appended at an offset
  TimeOf,      \* the payload timestamp of the record at an offset
  MaxLog,      \* bound: records appended to the hot-ip log
  MaxTrim,     \* bound: records the log's retention drops
  MaxCrash,    \* bound: crashes and stops
  MaxFail      \* bound: failed publishes

Records == [kind : {"HotIpAdded", "HotIpRemoved"}, ip : IPs]
           \union {[kind |-> "malformed"], [kind |-> "not_served"]}

ASSUME PrefixAssumption == IsFiniteSet(IPs) /\ \A ip \in IPs : IsFiniteSet(PrefixesOf[ip])
ASSUME ChoiceAssumption == \A o \in 0..(MaxLog - 1) : Arrivals[o] \subseteq Records
ASSUME TimeAssumption == \A o \in 0..(MaxLog - 1) : TimeOf[o] \in Nat
ASSUME WorkerBounds == {MaxLog, MaxTrim, MaxCrash, MaxFail} \subseteq Nat

VARIABLES
  log,        \* the hot-ip log; the record at offset o is log[o + 1]
  first,      \* the first offset the log still holds
  stats,      \* the messages in the prefix-stats log
  last,       \* the sequence of its last message, 0 for none
  late,       \* publishes whose outcome the worker did not learn
  pc,         \* where the process is: down, start()'s awaits, replay, run
  target,     \* replay_target
  floor,      \* the first_offset start() read
  republish,  \* republish_from
  position,   \* state.position, -1 for None
  hot,        \* the trie's HOT addresses
  as_of,      \* state.as_of, 0 for None
  busy,       \* a publish is in hand, under the worker's lock
  pending,    \* its messages not yet answered
  failed,     \* one of them raised
  stopping,   \* the stop flag
  seen,       \* history: the offsets handled since the start
  origin,     \* history: the log end when the process started
  faults      \* bound bookkeeping: crashes and stops, failed publishes

process == <<pc, target, floor, republish, position, hot, as_of, busy, pending, failed,
             stopping, seen, origin>>
vars == <<log, first, stats, last, late, process, faults>>

At(o) == log[o + 1]

\* The addresses whose last event among `offsets` is an add.
Adds(o, ip) == At(o).kind = "HotIpAdded" /\ At(o).ip = ip
Removes(o, ip) == At(o).kind = "HotIpRemoved" /\ At(o).ip = ip
HotOf(offsets) ==
  {ip \in IPs : \E o \in offsets :
     Adds(o, ip) /\ \A later \in offsets : later > o => ~Removes(later, ip)}

\* The number of HOT addresses beneath a prefix.
Count(set, prefix) == Cardinality({ip \in set : prefix \in PrefixesOf[ip]})

\* Mutant: encoded before note_applied moved the position.
prepare_unpositioned(set, ip, sequence) ==
  {[prefix |-> p, hot_count |-> Count(set, p), sequence |-> sequence - 1] : p \in PrefixesOf[ip]}

\* ancestor_stats of `ip` as prepare() encodes them.
prepare(set, ip, sequence) ==
  {[prefix |-> p, hot_count |-> Count(set, p), sequence |-> sequence] : p \in PrefixesOf[ip]}

event_sequence == position + 1

Init ==
  /\ log = <<>> /\ first = 0
  /\ stats = {} /\ last = 0 /\ late = {}
  /\ pc = "down" /\ target = 0 /\ floor = 0 /\ republish = 0
  /\ position = -1 /\ hot = {} /\ as_of = 0
  /\ busy = FALSE /\ pending = {} /\ failed = FALSE /\ stopping = FALSE
  /\ seen = {} /\ origin = 0
  /\ faults = [crash |-> 0, fail |-> 0]

-----------------------------------------------------------------------------
(* The two logs *)

\* The aggregators append transitions; other records may be there too.
Append1(r) ==
  /\ log' = Append(log, r)
  /\ UNCHANGED <<first, stats, last, late, process, faults>>

\* Retention drops the oldest record.
Trim ==
  /\ first < Len(log) /\ first < MaxTrim
  /\ first' = first + 1
  /\ UNCHANGED <<log, stats, last, late, process, faults>>

\* A message reaches the prefix-stats log. One whose id it already holds is
\* dropped inside the broker's duplicate window and appended again after it.
Stored(m) ==
  /\ stats' = stats \union {m}
  /\ \/ last' = m.sequence
     \/ /\ \E n \in stats : n.prefix = m.prefix /\ n.sequence = m.sequence
        /\ UNCHANGED last

-----------------------------------------------------------------------------
(* start() *)

Start ==
  /\ pc = "down"
  /\ pc' = "end" /\ origin' = Len(log)
  /\ UNCHANGED <<log, first, stats, last, late, target, floor, republish, position, hot, as_of,
                 busy, pending, failed, stopping, seen, faults>>

ReadEnd ==
  /\ pc = "end"
  /\ target' = Len(log) /\ pc' = "first"
  /\ UNCHANGED <<log, first, stats, last, late, floor, republish, position, hot, as_of, busy,
                 pending, failed, stopping, seen, origin, faults>>

ReadFirst ==
  /\ pc = "first"
  /\ floor' = first /\ pc' = "last"
  /\ UNCHANGED <<log, first, stats, last, late, target, republish, position, hot, as_of, busy,
                 pending, failed, stopping, seen, origin, faults>>

\* Mutant: the sequence after the last published one.
republish_from_next(sequence, replay_target) ==
  IF sequence > replay_target THEN 0 ELSE sequence + 1

\* _republish_from: the last message's own sequence, or 0 when there is none
\* or it is ahead of the log.
republish_from(sequence, replay_target) ==
  IF sequence > replay_target THEN 0 ELSE sequence

\* A last message of another publisher, or one the codec refuses, counts for
\* nothing.
ReadLast ==
  /\ pc = "last"
  /\ republish' \in {republish_from(last, target), 0}
  /\ pc' = "pass"
  /\ UNCHANGED <<log, first, stats, last, late, target, floor, position, hot, as_of, busy,
                 pending, failed, stopping, seen, origin, faults>>

\* Mutant: the first retained record itself is passed.
Subscribe_passes_first ==
  /\ pc = "pass"
  /\ position' = IF floor > event_sequence /\ ~stopping THEN floor ELSE position
  /\ pc' = "replay"
  /\ UNCHANGED <<log, first, stats, last, late, target, floor, republish, hot, as_of, busy,
                 pending, failed, stopping, seen, origin, faults>>

\* note_passed(first - 1) unless stop() has begun, then subscribe().
Subscribe ==
  /\ pc = "pass"
  /\ position' = IF floor > event_sequence /\ ~stopping THEN floor - 1 ELSE position
  /\ pc' = "replay"
  /\ UNCHANGED <<log, first, stats, last, late, target, floor, republish, hot, as_of, busy,
                 pending, failed, stopping, seen, origin, faults>>

\* Mutants: one record short of the end, and one past it.
caught_up_early == event_sequence + 1 >= target
caught_up_past == event_sequence > target

caught_up == event_sequence >= target

\* The replay reached the end start() read: the service becomes ready.
Ready ==
  /\ pc = "replay" /\ caught_up /\ ~busy /\ ~stopping
  /\ pc' = "run"
  /\ UNCHANGED <<log, first, stats, last, late, target, floor, republish, position, hot, as_of,
                 busy, pending, failed, stopping, seen, origin, faults>>

-----------------------------------------------------------------------------
(* handle() *)

\* What the subscription may hand over: the next record it holds, or one the
\* worker has already handled.
Next_offset == Max({event_sequence, first})
Deliverable == {o \in first..(Len(log) - 1) : o <= Next_offset}

Pumping ==
  /\ pc = "run" \/ (pc = "replay" /\ ~caught_up)
  /\ ~busy /\ ~stopping

HandleRedelivered(o) ==
  /\ Pumping /\ o <= position
  /\ UNCHANGED vars

\* Malformed, or of a family this process does not hold: note_handled.
HandleSkipped(o) ==
  /\ Pumping /\ o > position
  /\ At(o).kind \in {"malformed", "not_served"}
  /\ position' = o /\ seen' = seen \union {o}
  /\ UNCHANGED <<log, first, stats, last, late, pc, target, floor, republish, hot, as_of, busy,
                 pending, failed, stopping, origin, faults>>

\* apply_hot_ip_added / apply_hot_ip_removed on the set.
applied(set, ip, added) == IF added THEN set \union {ip} ELSE set \ {ip}

\* Mutant: the sequence to resume from is itself left out.
publishes_strict(changed, sequence) == changed /\ sequence > republish

\* Step 5a's condition.
publishes(changed, sequence) == changed /\ sequence >= republish

\* note_applied's rule for as_of.
note_as_of(old, time) == IF time > old THEN time ELSE old

\* Apply, note_applied and prepare: one section without an await.
HandleEvent(o) ==
  LET e   == At(o)
      new == applied(hot, e.ip, e.kind = "HotIpAdded")
      out == publishes(new # hot, o + 1)
  IN  /\ Pumping /\ o > position
      /\ e.kind \in {"HotIpAdded", "HotIpRemoved"}
      /\ hot' = new
      /\ position' = o /\ seen' = seen \union {o}
      /\ as_of' = note_as_of(as_of, TimeOf[o])
      /\ busy' = out /\ pending' = IF out THEN prepare(new, e.ip, o + 1) ELSE {}
      /\ UNCHANGED <<log, first, stats, last, late, pc, target, floor, republish, failed,
                     stopping, origin, faults>>

\* publish(): every message is sent at once, in no order.
PublishOne(m) ==
  /\ m \in pending
  /\ pending' = pending \ {m}
  /\ Stored(m)
  /\ UNCHANGED <<log, first, late, pc, target, floor, republish, position, hot, as_of, busy,
                 failed, stopping, seen, origin, faults>>

\* One raises: a timeout says nothing about whether it was stored.
PublishOneFails(m) ==
  /\ m \in pending /\ faults.fail < MaxFail
  /\ pending' = pending \ {m} /\ failed' = TRUE
  /\ late' = late \union {m}
  /\ faults' = [faults EXCEPT !.fail = @ + 1]
  /\ UNCHANGED <<log, first, stats, last, pc, target, floor, republish, position, hot, as_of,
                 busy, stopping, seen, origin>>

StoredLate(m) ==
  /\ m \in late
  /\ late' = late \ {m}
  /\ Stored(m)
  /\ UNCHANGED <<log, first, process, faults>>

\* Every publish returned.
PublishDone ==
  /\ busy /\ pending = {} /\ ~failed
  /\ busy' = FALSE
  /\ UNCHANGED <<log, first, stats, last, late, pc, target, floor, republish, position, hot,
                 as_of, pending, failed, stopping, seen, origin, faults>>

-----------------------------------------------------------------------------
(* The end of the process: everything in memory is gone *)

Down ==
  /\ pc' = "down" /\ target' = 0 /\ floor' = 0 /\ republish' = 0
  /\ position' = -1 /\ hot' = {} /\ as_of' = 0
  /\ busy' = FALSE /\ pending' = {} /\ failed' = FALSE /\ stopping' = FALSE
  /\ seen' = {} /\ origin' = 0
  /\ late' = late \union pending
  /\ UNCHANGED <<log, first, stats, last>>

\* PrefixStatsPublishError is re-raised: the process exits.
PublishError ==
  /\ busy /\ pending = {} /\ failed
  /\ Down /\ UNCHANGED faults

Crash ==
  /\ pc # "down" /\ faults.crash < MaxCrash
  /\ faults' = [faults EXCEPT !.crash = @ + 1]
  /\ Down

\* The startup deadline: a replay whose records were dropped meanwhile waits
\* for a message that may never come.
StartTimeout ==
  /\ pc = "replay" /\ ~caught_up /\ ~busy /\ Next_offset >= Len(log)
  /\ Down /\ UNCHANGED faults

Stop ==
  /\ pc # "down" /\ ~stopping /\ faults.crash < MaxCrash
  /\ stopping' = TRUE
  /\ faults' = [faults EXCEPT !.crash = @ + 1]
  /\ UNCHANGED <<log, first, stats, last, late, pc, target, floor, republish, position, hot,
                 as_of, busy, pending, failed, seen, origin>>

\* stop() has the lock, so no publish is in hand; the pump has returned.
Stopped ==
  /\ stopping /\ ~busy /\ pc \in {"replay", "run"}
  /\ Down /\ UNCHANGED faults

Starting == Start \/ ReadEnd \/ ReadFirst \/ ReadLast \/ Subscribe \/ Ready

Handle == \E o \in Deliverable : HandleSkipped(o) \/ HandleEvent(o)

Publishing == PublishDone \/ PublishError \/ \E m \in pending : PublishOne(m)

Next ==
  \/ Len(log) < MaxLog /\ \E r \in Arrivals[Len(log)] : Append1(r)
  \/ Trim
  \/ Starting
  \/ Handle
  \/ \E o \in Deliverable : HandleRedelivered(o)
  \/ Publishing
  \/ \E m \in pending : PublishOneFails(m)
  \/ \E m \in late : StoredLate(m)
  \/ Crash \/ StartTimeout \/ Stop \/ Stopped

Spec == Init /\ [][Next]_vars

\* The event loop runs what is enabled, a publish is answered, and the
\* supervisor restarts a process that exited.
Fairness ==
  /\ WF_vars(Starting) /\ WF_vars(Handle) /\ WF_vars(Publishing)
  /\ WF_vars(StartTimeout) /\ WF_vars(Stopped)

FairSpec == Spec /\ Fairness

-----------------------------------------------------------------------------
(* Properties *)

Messages == [prefix : UNION {PrefixesOf[ip] : ip \in IPs}, hot_count : Nat, sequence : Nat]

\* The type invariant of the worker, its process and the two logs.
TypeOK ==
  /\ log \in Seq(Records) /\ first \in Nat /\ first <= Len(log)
  /\ stats \subseteq Messages /\ late \subseteq Messages /\ pending \subseteq Messages
  /\ last \in Nat /\ target \in Nat /\ floor \in Nat /\ republish \in Nat
  /\ pc \in {"down", "end", "first", "last", "pass", "replay", "run"}
  /\ position \in Int /\ position >= -1 /\ hot \subseteq IPs /\ as_of \in Nat
  /\ busy \in BOOLEAN /\ failed \in BOOLEAN /\ stopping \in BOOLEAN
  /\ seen \subseteq Nat /\ origin \in Nat
  /\ faults \in [crash : Nat, fail : Nat]

\* The trie is the log: an address is HOT exactly when its last event among
\* the records handled is an add, whatever was redelivered, skipped or passed
\* and however often the process restarted; and no retained record at or below
\* the position was left out (TrieState.position, _handle, note_passed).
TrieIsLog ==
  /\ hot = HotOf(seen)
  /\ \A o \in 0..position : o \in seen \/ o < first

\* Ready means replayed: a ready service has every record the log held when
\* its process started, or retention had dropped it (decision 4; the end is
\* read before the first offset).
ReadyMeansReplayed == pc = "run" => \A o \in 0..(origin - 1) : o <= position \/ o < first

\* What the event at offset o publishes, by the log alone.
Changes(o) ==
  \E ip \in IPs : \/ Adds(o, ip) /\ ip \notin HotOf(0..(o - 1))
                  \/ Removes(o, ip) /\ ip \in HotOf(0..(o - 1))
Due(o) == IF Changes(o) THEN prepare(HotOf(0..o), At(o).ip, o + 1) ELSE {}

\* While retention has dropped nothing: a message is a function of its id, so
\* what a restart publishes again, what arrives late and what the broker's
\* duplicate check drops is what was there (prepare, event_id).
SameIdSameCount ==
  first = 0 => \A m \in stats \union late \union pending :
    /\ m.sequence \in 1..Len(log)
    /\ m \in Due(m.sequence - 1)

\* While retention has dropped nothing: everything due below the sequence a
\* restart would resume from is in the log already, so publishing only from
\* there loses nothing, whatever part of a publish failed before the process
\* ended (_republish_from, PrefixStatsPublishError).
ResumeSafe ==
  first = 0 => \A o \in 0..(Len(log) - 1) : o + 1 < last => Due(o) \subseteq stats

\* While retention has dropped nothing: a ready worker with no publish in hand
\* has told the truth: of the messages about a prefix the newest carries the
\* trie's count, and a prefix never mentioned has none.  And at any time as_of
\* is the newest timestamp applied, in whatever order the log has them.
StatsCurrent ==
  /\ as_of = Max({TimeOf[o] : o \in {n \in seen : At(n).kind \in {"HotIpAdded", "HotIpRemoved"}}}
                 \union {0})
  /\ first = 0 /\ pc = "run" /\ ~busy =>
       \A p \in UNION {PrefixesOf[ip] : ip \in IPs} :
         LET about == {m \in stats : m.prefix = p}
         IN  \/ about = {} /\ Count(hot, p) = 0
             \/ \E m \in about : /\ m.hot_count = Count(hot, p)
                                 /\ \A n \in about : n.sequence <= m.sequence

\* Once crashes, stops and failed publishes are over, the service is ready,
\* has followed the log to its end and published what that changed.
Converges == <>[](pc = "run" /\ ~busy /\ Next_offset >= Len(log))
====
