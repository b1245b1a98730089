----------------------------- MODULE TrieProofs -----------------------------
(***************************************************************************)
(* The trie is the log, for any addresses, log, retention and faults: the  *)
(* position invariant PosInv, and what follows from it.                    *)
(*                                                                         *)
(* Publishing again from the last published sequence loses nothing and     *)
(* contradicts nothing, while retention has dropped nothing: whatever part *)
(* of a publish failed, arrived late or was cut by a crash.                *)
(***************************************************************************)
EXTENDS TrieWorker, FiniteSetTheorems, TLAPS

-----------------------------------------------------------------------------
(* The position *)

Early == {"down", "end", "first", "last", "pass"}

\* The position never passes the log's end nor a retained record not handled;
\* the trie is what the handled records say; what start() read is not ahead of
\* the log, and the end it read is not behind the one at the start.
PosInv ==
  /\ Len(log) <= MaxLog /\ position < Len(log) /\ floor <= first
  /\ seen \subseteq 0..position
  /\ \A o \in 0..position : o \in seen \/ o < first
  /\ hot = HotOf(seen)
  /\ pc \in Early => position = -1 /\ seen = {}
  /\ origin <= Len(log) /\ target <= Len(log) /\ republish <= target
  /\ pc \notin {"down", "end"} => origin <= target
  /\ pc = "run" => target <= position + 1

WorkerInv == TypeOK /\ PosInv

USE DEF process

-----------------------------------------------------------------------------
(* The helpers *)

\* The next offset is the larger of the two.
LEMMA NextOffset ==
  ASSUME position \in Int, first \in Int
  PROVE  /\ Next_offset \in {position + 1, first}
         /\ Next_offset >= position + 1 /\ Next_offset >= first
<1> DEFINE S == {position + 1, first}
<1>1. \E x \in S : \A y \in S : x >= y
  <2>1. CASE position + 1 >= first BY <2>1
  <2>2. CASE ~(position + 1 >= first) BY <2>2
  <2> QED BY <2>1, <2>2, Zenon
<1>2. Max(S) \in S /\ \A y \in S : Max(S) >= y BY <1>1, Zenon DEF Max
<1> QED BY <1>2, Zenon DEF Next_offset, event_sequence

\* A record handed over for the first time is the next one, or the first one
\* retained when the next is gone.
LEMMA Delivered ==
  ASSUME TypeOK, PosInv, NEW o \in Deliverable, o > position
  PROVE  /\ o \in 0..(Len(log) - 1) /\ o >= first
         /\ \A k \in 0..o : k \in 0..position \/ k = o \/ k < first
<1>1. /\ Next_offset \in {position + 1, first}
      /\ position \in Int /\ position >= -1 /\ first \in Nat /\ Len(log) \in Nat
  BY NextOffset DEF TypeOK
<1>2. o \in first..(Len(log) - 1) /\ o <= Next_offset BY Zenon DEF Deliverable
<1> QED BY <1>1, <1>2

\* Appending leaves the records there as they are.
LEMMA AppendKeeps ==
  ASSUME log \in Seq(Records), NEW r \in Records, log' = Append(log, r),
         NEW o \in 0..(Len(log) - 1)
  PROVE  At(o)' = At(o)
BY DEF At

\* What the records at the given offsets say is a matter of those records.
LEMMA HotOfKeeps ==
  ASSUME NEW S, \A o \in S : At(o)' = At(o) PROVE HotOf(S)' = HotOf(S)
<1>1. \A o \in S, ip \in IPs : (Adds(o, ip)' <=> Adds(o, ip)) /\ (Removes(o, ip)' <=> Removes(o, ip))
  BY Zenon DEF Adds, Removes
<1> QED BY <1>1, Zenon DEF HotOf

\* One more record at the end: it adds its address, or removes it.
LEMMA HotOfNext ==
  ASSUME NEW S \in SUBSET Int, NEW o \in Int, \A s \in S : s < o, NEW ip \in IPs
  PROVE  ip \in HotOf(S \cup {o}) <=>
           Adds(o, ip) \/ (ip \in HotOf(S) /\ ~Removes(o, ip))
<1>1. Adds(o, ip) => ~Removes(o, ip) BY Zenon DEF Adds, Removes
<1>2. ASSUME Adds(o, ip) PROVE ip \in HotOf(S \cup {o})
  <2>1. \A later \in S \cup {o} : later > o => ~Removes(later, ip) OBVIOUS
  <2> QED BY <1>2, <2>1, Zenon DEF HotOf
<1>3. ASSUME ip \in HotOf(S), ~Removes(o, ip) PROVE ip \in HotOf(S \cup {o})
  <2>1. PICK k \in S : Adds(k, ip) /\ \A later \in S : later > k => ~Removes(later, ip)
    BY <1>3, Zenon DEF HotOf
  <2>2. \A later \in S \cup {o} : later > k => ~Removes(later, ip) BY <1>3, <2>1, Zenon
  <2> QED BY <2>1, <2>2, Zenon DEF HotOf
<1>4. ASSUME ip \in HotOf(S \cup {o}), ~Adds(o, ip) PROVE ip \in HotOf(S) /\ ~Removes(o, ip)
  <2>1. PICK k \in S \cup {o} : Adds(k, ip) /\
          \A later \in S \cup {o} : later > k => ~Removes(later, ip)
    BY <1>4, Zenon DEF HotOf
  <2>2. k \in S /\ o > k BY <1>4, <2>1, Zenon
  <2> QED BY <2>1, <2>2, Zenon DEF HotOf
<1> QED BY <1>2, <1>3, <1>4, Zenon

\* A record that is neither an add nor a removal says nothing.
LEMMA HotOfSkip ==
  ASSUME NEW S \in SUBSET Int, NEW o \in Int, \A s \in S : s < o,
         At(o).kind \in {"malformed", "not_served"}
  PROVE  HotOf(S \cup {o}) = HotOf(S)
<1>1. \A ip \in IPs : ~Adds(o, ip) /\ ~Removes(o, ip) BY Zenon DEF Adds, Removes
<1>2. \A ip \in IPs : ip \in HotOf(S \cup {o}) <=> ip \in HotOf(S) BY <1>1, HotOfNext, Zenon
<1>3. HotOf(S \cup {o}) \subseteq IPs /\ HotOf(S) \subseteq IPs BY Zenon DEF HotOf
<1> QED BY <1>2, <1>3, Zenon

\* An add or a removal is what apply_hot_ip_added and apply_hot_ip_removed do.
LEMMA HotOfEvent ==
  ASSUME NEW S \in SUBSET Int, NEW o \in Int, \A s \in S : s < o,
         At(o).kind \in {"HotIpAdded", "HotIpRemoved"}, At(o).ip \in IPs
  PROVE  HotOf(S \cup {o}) = applied(HotOf(S), At(o).ip, At(o).kind = "HotIpAdded")
<1>0. HotOf(S \cup {o}) \subseteq IPs /\ HotOf(S) \subseteq IPs BY Zenon DEF HotOf
<1>1. CASE At(o).kind = "HotIpAdded"
  <2>1. \A ip \in IPs : (Adds(o, ip) <=> ip = At(o).ip) /\ ~Removes(o, ip)
    BY <1>1, Zenon DEF Adds, Removes
  <2>2. \A ip \in IPs : ip \in HotOf(S \cup {o}) <=> ip = At(o).ip \/ ip \in HotOf(S)
    BY <2>1, HotOfNext, Zenon
  <2> QED BY <1>0, <1>1, <2>2, Zenon DEF applied
<1>2. CASE At(o).kind = "HotIpRemoved"
  <2>1. \A ip \in IPs : ~Adds(o, ip) /\ (Removes(o, ip) <=> ip = At(o).ip)
    BY <1>2, Zenon DEF Adds, Removes
  <2>2. \A ip \in IPs : ip \in HotOf(S \cup {o}) <=> ip \in HotOf(S) /\ ip # At(o).ip
    BY <2>1, HotOfNext, Zenon
  <2> QED BY <1>0, <1>2, <2>2, Zenon DEF applied
<1> QED BY <1>1, <1>2, Zenon

LEMMA RecordAt ==
  ASSUME TypeOK, NEW o \in 0..(Len(log) - 1)
  PROVE  /\ At(o) \in Records
         /\ At(o).kind \in {"HotIpAdded", "HotIpRemoved"} => At(o).ip \in IPs
<1>1. At(o) \in Records BY DEF At, TypeOK
<1> QED BY <1>1 DEF Records

\* The messages of an event are messages.
LEMMA PrepareType ==
  ASSUME NEW S \in SUBSET IPs, NEW ip \in IPs, NEW sequence \in Nat
  PROVE  prepare(S, ip, sequence) \subseteq Messages
<1>1. \A p \in PrefixesOf[ip] : Count(S, p) \in Nat
  <2> TAKE p \in PrefixesOf[ip]
  <2> DEFINE T == {i \in S : p \in PrefixesOf[i]}
  <2>1. T \in SUBSET IPs BY Zenon
  <2>2. IsFiniteSet(T) BY <2>1, PrefixAssumption, FS_Subset, Zenon
  <2>3. Cardinality(T) \in Nat BY <2>2, FS_CardinalityType, Zenon
  <2> QED BY <2>3, Zenon DEF Count
<1>2. \A p \in PrefixesOf[ip] : p \in UNION {PrefixesOf[i] : i \in IPs} BY Zenon
<1> QED BY <1>1, <1>2 DEF prepare, Messages

-----------------------------------------------------------------------------
(* Every step keeps the invariant *)

\* A step that leaves the log, the position and the trie alone.
LEMMA Aside ==
  ASSUME PosInv, UNCHANGED <<log, first, position, hot, seen>>,
         floor' <= first, origin' <= Len(log), target' <= Len(log), republish' <= target',
         pc' \in Early => pc \in Early,
         pc' \notin {"down", "end"} => origin' <= target',
         pc' = "run" => target' <= position + 1
  PROVE  PosInv'
<1>1. HotOf(seen)' = HotOf(seen)
  <2>1. \A o \in seen : At(o)' = At(o) BY Zenon DEF At
  <2>2. HotOf(seen)' = HotOf(seen') BY DEF HotOf, Adds, Removes, At
  <2> QED BY <2>2 DEF HotOf, Adds, Removes, At
<1> QED BY <1>1, Zenon DEF PosInv

LEMMA StoredType ==
  ASSUME TypeOK, NEW m \in Messages, Stored(m) PROVE stats' \subseteq Messages /\ last' \in Nat
BY Zenon DEF TypeOK, Stored, Messages

LEMMA StartingStep == ASSUME WorkerInv, Starting PROVE WorkerInv'
<1>a. TypeOK /\ PosInv BY Zenon DEF WorkerInv
<1>b. /\ Len(log) \in Nat /\ first \in Nat /\ position \in Int /\ target \in Nat
      /\ origin \in Nat /\ floor \in Nat /\ republish \in Nat /\ last \in Nat
  BY <1>a DEF TypeOK
<1>1. CASE Start
  <2>1. TypeOK' BY <1>a, <1>1 DEF Start, TypeOK
  <2>2. PosInv' BY <1>a, <1>b, <1>1, Aside DEF Start, PosInv, Early
  <2> QED BY <2>1, <2>2, Zenon DEF WorkerInv
<1>2. CASE ReadEnd
  <2>1. TypeOK' BY <1>a, <1>2 DEF ReadEnd, TypeOK
  <2>2. PosInv' BY <1>a, <1>b, <1>2, Aside DEF ReadEnd, PosInv, Early
  <2> QED BY <2>1, <2>2 DEF WorkerInv
<1>3. CASE ReadFirst
  <2>1. TypeOK' BY <1>a, <1>3, Zenon DEF ReadFirst, TypeOK
  <2>2. PosInv' BY <1>a, <1>b, <1>3, Aside DEF ReadFirst, PosInv, Early
  <2> QED BY <2>1, <2>2 DEF WorkerInv
<1>4. CASE ReadLast
  <2>0. republish' \in Nat /\ republish' <= target
    BY <1>b, <1>4 DEF ReadLast, republish_from
  <2>1. TypeOK' BY <1>a, <1>4, <2>0, Zenon DEF ReadLast, TypeOK
  <2>2. PosInv' BY <1>a, <1>b, <1>4, <2>0, Aside, Zenon DEF ReadLast, PosInv, Early
  <2> QED BY <2>1, <2>2 DEF WorkerInv
<1>5. CASE Subscribe
  <2>0. position = -1 /\ seen = {} /\ first <= Len(log) /\ floor <= first
    BY <1>a, <1>5, Zenon DEF Subscribe, PosInv, TypeOK, Early
  <2>1. position' \in Int /\ position' >= -1 /\ (position' < first \/ position' = -1)
    BY <1>b, <1>5, <2>0 DEF Subscribe, event_sequence
  <2>2. position' \in Int /\ position' >= -1 /\ position' < Len(log)
    BY <1>a, <1>b, <1>5, <2>0 DEF Subscribe, event_sequence, PosInv
  <2>3. TypeOK' BY <1>a, <1>5, <2>2, Zenon DEF Subscribe, TypeOK
  <2>4. HotOf(seen)' = HotOf(seen) BY <1>5 DEF Subscribe, HotOf, Adds, Removes, At
  <2>5. PosInv' BY <1>a, <1>b, <1>5, <2>0, <2>1, <2>2, <2>4 DEF Subscribe, PosInv, Early
  <2> QED BY <2>3, <2>5 DEF WorkerInv
<1>6. CASE Ready
  <2>1. TypeOK' BY <1>a, <1>6, Zenon DEF Ready, TypeOK
  <2>2. PosInv'
    BY <1>a, <1>b, <1>6, Aside, Zenon DEF Ready, PosInv, Early, caught_up, event_sequence
  <2> QED BY <2>1, <2>2 DEF WorkerInv
<1> QED BY <1>1, <1>2, <1>3, <1>4, <1>5, <1>6, Zenon DEF Starting

LEMMA HandleStep == ASSUME WorkerInv, Handle PROVE WorkerInv'
<1>a. TypeOK /\ PosInv BY DEF WorkerInv
<1>1. PICK o \in Deliverable : HandleSkipped(o) \/ HandleEvent(o) BY Zenon DEF Handle
<1>2. o > position BY <1>1, Zenon DEF HandleSkipped, HandleEvent
<1>3. /\ o \in 0..(Len(log) - 1) /\ o >= first
      /\ \A k \in 0..o : k \in 0..position \/ k = o \/ k < first
  BY <1>a, <1>2, Delivered, Zenon
<1>4. seen \in SUBSET Int /\ o \in Int /\ position \in Int /\ \A s \in seen : s < o
  BY <1>a, <1>2, <1>3 DEF PosInv, TypeOK
<1>5. UNCHANGED log BY <1>1, Zenon DEF HandleSkipped, HandleEvent
<1>6. position' = o /\ seen' = seen \cup {o} BY <1>1, Zenon DEF HandleSkipped, HandleEvent
<1>7. HotOf(seen)' = HotOf(seen \cup {o}) BY <1>5, <1>6, Zenon DEF HotOf, Adds, Removes, At
<1>8. ASSUME hot' = HotOf(seen \cup {o}),
             UNCHANGED <<first, pc, target, floor, republish, origin>>, pc \notin Early
      PROVE  PosInv'
  <2>0. position \in Int /\ position >= -1 /\ Len(log) \in Nat /\ first \in Nat /\ target \in Nat
    BY <1>a DEF TypeOK
  <2>1. position' < Len(log') /\ Len(log') <= MaxLog
    BY <1>a, <1>3, <1>5, <1>6, <2>0 DEF PosInv
  <2>2. seen' \subseteq 0..position'
    BY <1>a, <1>2, <1>3, <1>6, <2>0 DEF PosInv
  <2>3. \A k \in 0..position' : k \in seen' \/ k < first'
    BY <1>a, <1>3, <1>6, <1>8, Zenon DEF PosInv
  <2>4. pc' = "run" => target' <= position' + 1
    BY <1>a, <1>2, <1>3, <1>6, <1>8, <2>0 DEF PosInv
  <2>5. hot' = HotOf(seen)' BY <1>7, <1>8, Zenon
  <2> QED BY <1>a, <1>5, <1>8, <2>1, <2>2, <2>3, <2>4, <2>5, Zenon DEF PosInv
<1>9. CASE HandleSkipped(o)
  <2>1. TypeOK' BY <1>a, <1>3, <1>9 DEF HandleSkipped, TypeOK
  <2>2. HotOf(seen \cup {o}) = HotOf(seen) BY <1>4, <1>9, HotOfSkip, Zenon DEF HandleSkipped
  <2>3. pc \notin Early BY <1>9, Zenon DEF HandleSkipped, Pumping, Early
  <2>4. PosInv' BY <1>a, <1>8, <1>9, <2>2, <2>3, Zenon DEF HandleSkipped, PosInv
  <2> QED BY <2>1, <2>4, Zenon DEF WorkerInv
<1>10. CASE HandleEvent(o)
  <2> DEFINE new == applied(hot, At(o).ip, At(o).kind = "HotIpAdded")
             out == publishes(new # hot, o + 1)
  <2>1. At(o).ip \in IPs BY <1>a, <1>3, <1>10, RecordAt, Zenon DEF HandleEvent
  <2>2. new = HotOf(seen \cup {o})
    BY <1>a, <1>4, <1>10, <2>1, HotOfEvent, Zenon DEF HandleEvent, PosInv
  <2>3. new \subseteq IPs BY <1>a, <2>1, Zenon DEF applied, TypeOK
  <2>4. prepare(new, At(o).ip, o + 1) \subseteq Messages
    BY <1>3, <2>1, <2>3, PrepareType
  <2>5. TimeOf[o] \in Nat
    BY <1>a, <1>3, TimeAssumption, WorkerBounds DEF PosInv, TypeOK
  <2>6. hot' = new /\ pending' \subseteq Messages /\ as_of' \in Nat
    BY <1>a, <1>10, <2>4, <2>5, Zenon DEF HandleEvent, note_as_of, TypeOK
  <2>7. busy' \in BOOLEAN BY <1>10, Zenon DEF HandleEvent, publishes
  <2>8. TypeOK' BY <1>a, <1>3, <1>10, <2>3, <2>6, <2>7 DEF HandleEvent, TypeOK
  <2>9. pc \notin Early BY <1>10, Zenon DEF HandleEvent, Pumping, Early
  <2>10. PosInv' BY <1>8, <1>10, <2>2, <2>6, <2>9, Zenon DEF HandleEvent
  <2> QED BY <2>8, <2>10 DEF WorkerInv
<1> QED BY <1>1, <1>9, <1>10, Zenon

LEMMA DownStep == ASSUME WorkerInv, Down, faults' \in [crash : Nat, fail : Nat] PROVE WorkerInv'
<1>a. TypeOK /\ PosInv BY Zenon DEF WorkerInv
<1>0. UNCHANGED <<log, first, stats, last>> /\ late' \subseteq Messages
  BY <1>a, Zenon DEF Down, TypeOK
<1>1. TypeOK'
  <2>1. /\ pc' = "down" /\ target' = 0 /\ floor' = 0 /\ republish' = 0 /\ position' = -1
        /\ hot' = {} /\ as_of' = 0 /\ busy' = FALSE /\ pending' = {} /\ failed' = FALSE
        /\ stopping' = FALSE /\ seen' = {} /\ origin' = 0
    BY Zenon DEF Down
  <2>2. log' \in Seq(Records) /\ first' \in Nat /\ first' <= Len(log') /\ last' \in Nat
    BY <1>a, <1>0, Zenon DEF TypeOK
  <2>3. stats' \subseteq Messages /\ pending' \subseteq Messages
    BY <1>a, <1>0, <2>1, Zenon DEF TypeOK
  <2>4. position' \in Int /\ position' >= -1 BY <2>1
  <2>5. hot' \subseteq IPs /\ seen' \subseteq Nat BY <2>1, Zenon
  <2> QED BY <1>0, <2>1, <2>2, <2>3, <2>4, <2>5, Zenon DEF TypeOK
<1>2. HotOf(seen)' = {} BY Zenon DEF Down, HotOf
<1>3. PosInv' BY <1>a, <1>2 DEF Down, PosInv, TypeOK, Early
<1> QED BY <1>1, <1>3, Zenon DEF WorkerInv

LEMMA PublishingStep ==
  ASSUME WorkerInv,
         \/ PublishDone \/ Stop
         \/ \E m \in pending : PublishOne(m) \/ PublishOneFails(m)
         \/ \E m \in late : StoredLate(m)
  PROVE  WorkerInv'
<1>a. TypeOK /\ PosInv BY Zenon DEF WorkerInv
<1>f. faults \in [crash : Nat, fail : Nat] BY <1>a, Zenon DEF TypeOK
<1>1. CASE PublishDone
  <2>1. TypeOK' BY <1>a, <1>1, Zenon DEF PublishDone, TypeOK
  <2>2. PosInv' BY <1>a, <1>1, Aside, Zenon DEF PublishDone, PosInv
  <2> QED BY <2>1, <2>2, Zenon DEF WorkerInv
<1>2. CASE Stop
  <2>0. faults' \in [crash : Nat, fail : Nat] BY <1>f, <1>2 DEF Stop
  <2>1. TypeOK' BY <1>a, <1>2, <2>0, Zenon DEF Stop, TypeOK
  <2>2. PosInv' BY <1>a, <1>2, Aside, Zenon DEF Stop, PosInv
  <2> QED BY <2>1, <2>2 DEF WorkerInv
<1>3. ASSUME NEW m \in pending, PublishOne(m) PROVE WorkerInv'
  <2>0. stats' \subseteq Messages /\ last' \in Nat
    BY <1>a, <1>3, StoredType, Zenon DEF TypeOK, PublishOne
  <2>1. TypeOK' BY <1>a, <1>3, <2>0, Zenon DEF PublishOne, TypeOK
  <2>2. PosInv' BY <1>a, <1>3, Aside, Zenon DEF PublishOne, PosInv
  <2> QED BY <2>1, <2>2, Zenon DEF WorkerInv
<1>4. ASSUME NEW m \in pending, PublishOneFails(m) PROVE WorkerInv'
  <2>0. faults' \in [crash : Nat, fail : Nat] BY <1>f, <1>4 DEF PublishOneFails
  <2>1. TypeOK' BY <1>a, <1>4, <2>0, Zenon DEF PublishOneFails, TypeOK
  <2>2. PosInv' BY <1>a, <1>4, Aside, Zenon DEF PublishOneFails, PosInv
  <2> QED BY <2>1, <2>2 DEF WorkerInv
<1>5. ASSUME NEW m \in late, StoredLate(m) PROVE WorkerInv'
  <2>0. stats' \subseteq Messages /\ last' \in Nat
    BY <1>a, <1>5, StoredType, Zenon DEF TypeOK, StoredLate
  <2>1. TypeOK' BY <1>a, <1>5, <2>0, Zenon DEF StoredLate, TypeOK
  <2>2. PosInv' BY <1>a, <1>5, Aside, Zenon DEF StoredLate, PosInv
  <2> QED BY <2>1, <2>2, Zenon DEF WorkerInv
<1> QED BY <1>1, <1>2, <1>3, <1>4, <1>5, Zenon

LEMMA LogStep ==
  ASSUME WorkerInv, Trim \/ (Len(log) < MaxLog /\ \E r \in Arrivals[Len(log)] : Append1(r))
  PROVE  WorkerInv'
<1>a. TypeOK /\ PosInv BY Zenon DEF WorkerInv
<1>b. log \in Seq(Records) /\ Len(log) \in Nat /\ first \in Nat /\ MaxLog \in Nat
      /\ position \in Int /\ position < Len(log) /\ seen \subseteq 0..position
  BY <1>a, WorkerBounds DEF TypeOK, PosInv
<1>1. CASE Trim
  <2>1. TypeOK' BY <1>a, <1>1 DEF Trim, TypeOK
  <2>2. HotOf(seen)' = HotOf(seen) BY <1>1, Zenon DEF Trim, HotOf, Adds, Removes, At
  <2>3. PosInv' BY <1>a, <1>b, <1>1, <2>2 DEF Trim, PosInv, TypeOK
  <2> QED BY <2>1, <2>3, Zenon DEF WorkerInv
<1>2. ASSUME Len(log) < MaxLog, NEW r \in Arrivals[Len(log)], Append1(r) PROVE WorkerInv'
  <2>1. r \in Records BY <1>b, <1>2, ChoiceAssumption
  <2>2. log' = Append(log, r) /\ Len(log') = Len(log) + 1 /\ log' \in Seq(Records)
    BY <1>b, <1>2, <2>1 DEF Append1
  <2>3. TypeOK' BY <1>a, <1>b, <1>2, <2>2 DEF Append1, TypeOK
  <2>4. \A o \in seen : At(o)' = At(o) BY <1>b, <2>1, <2>2, AppendKeeps
  <2>5. HotOf(seen)' = HotOf(seen)
    <3>1. seen' = seen BY <1>2, Zenon DEF Append1
    <3>2. \A o \in seen, ip \in IPs : /\ Adds(o, ip)' <=> Adds(o, ip)
                                      /\ Removes(o, ip)' <=> Removes(o, ip)
      BY <2>4, Zenon DEF Adds, Removes
    <3> QED BY <3>1, <3>2, Zenon DEF HotOf
  <2>6. PosInv' BY <1>a, <1>b, <1>2, <2>2, <2>5 DEF Append1, PosInv, TypeOK
  <2> QED BY <2>3, <2>6, Zenon DEF WorkerInv
<1> QED BY <1>1, <1>2, Zenon

\* Every step keeps the invariant.
LEMMA WorkerStep == ASSUME WorkerInv, [Next]_vars PROVE WorkerInv'
<1>a. TypeOK /\ PosInv BY Zenon DEF WorkerInv
<1>f. faults \in [crash : Nat, fail : Nat] BY <1>a, Zenon DEF TypeOK
<1>1. CASE Starting BY <1>1, StartingStep, Zenon
<1>2. CASE Handle BY <1>2, HandleStep
<1>3. CASE UNCHANGED vars
  <2>1. TypeOK' BY <1>a, <1>3, Zenon DEF vars, TypeOK
  <2>2. PosInv' BY <1>a, <1>3, Aside, Zenon DEF vars, PosInv
  <2> QED BY <2>1, <2>2, Zenon DEF WorkerInv
<1>4. CASE \E o \in Deliverable : HandleRedelivered(o) BY <1>3, <1>4, Zenon DEF HandleRedelivered
<1>5. CASE PublishError \/ StartTimeout \/ Stopped
  BY <1>f, <1>5, DownStep, Zenon DEF PublishError, StartTimeout, Stopped
<1>6. CASE Crash
  <2>1. faults' \in [crash : Nat, fail : Nat] BY <1>f, <1>6 DEF Crash
  <2> QED BY <1>6, <2>1, DownStep, Zenon DEF Crash
<1> QED
  BY <1>1, <1>2, <1>3, <1>4, <1>5, <1>6, PublishingStep, LogStep, Zenon DEF Next, Publishing

LEMMA WorkerStart == ASSUME Init PROVE WorkerInv
<1>1. TypeOK
  <2>1. log \in Seq(Records) /\ first \in Nat /\ first <= Len(log) BY DEF Init
  <2>2. position \in Int /\ position >= -1 BY DEF Init
  <2>3. hot \subseteq IPs /\ seen \subseteq Nat BY Zenon DEF Init
  <2>4. stats \subseteq Messages /\ late \subseteq Messages /\ pending \subseteq Messages
    BY Zenon DEF Init
  <2>5. faults \in [crash : Nat, fail : Nat] BY Zenon DEF Init
  <2>6. {last, target, floor, republish, as_of, origin} \subseteq Nat BY DEF Init
  <2>7. pc = "down" /\ {busy, failed, stopping} \subseteq BOOLEAN BY Zenon DEF Init
  <2> QED BY <2>1, <2>2, <2>3, <2>4, <2>5, <2>6, <2>7, Zenon DEF TypeOK
<1>2. HotOf(seen) = {} BY Zenon DEF Init, HotOf
<1>3. PosInv BY <1>2, WorkerBounds DEF Init, PosInv, Early
<1> QED BY <1>1, <1>3, Zenon DEF WorkerInv

LEMMA WorkerInvariant == Spec => []WorkerInv
BY WorkerStart, WorkerStep, PTL DEF Spec

-----------------------------------------------------------------------------
(* The theorems *)

\* The worker, its process and the two logs keep their types (TrieWorker,
\* TrieState).
THEOREM WorkerTyped == Spec => []TypeOK
<1>1. WorkerInv => TypeOK BY Zenon DEF WorkerInv
<1> QED BY <1>1, WorkerInvariant, PTL

\* Whatever is redelivered, skipped, passed or lost to retention, and however
\* often the process restarts, the trie holds an address exactly when its last
\* handled event is an add, and no retained record at or below the position was
\* left out (TrieWorker._handle, TrieState.note_handled, note_passed).
THEOREM TrieFollowsLog == Spec => []TrieIsLog
<1>1. WorkerInv => TrieIsLog BY Zenon DEF WorkerInv, PosInv, TrieIsLog
<1> QED BY <1>1, WorkerInvariant, PTL

\* A ready service has every record the log held when its process started, or
\* retention had dropped it (TrieWorker.start, caught_up).
THEOREM ReadyReplayed == Spec => []ReadyMeansReplayed
<1>1. ASSUME WorkerInv PROVE ReadyMeansReplayed
  <2>1. /\ position \in Int /\ target \in Nat /\ origin \in Nat
        /\ pc = "run" => origin <= target /\ target <= position + 1
    BY <1>1, Zenon DEF WorkerInv, TypeOK, PosInv
  <2> QED BY <2>1 DEF ReadyMeansReplayed
<1> QED BY <1>1, WorkerInvariant, PTL

-----------------------------------------------------------------------------
(* Publishing again *)

\* Everything due below a sequence has been published.
Below(s) == \A o \in 0..(Len(log) - 1) : o + 1 < s => Due(o) \subseteq stats

\* Every message, stored or on its way, is due at the offset its sequence names.
MessagesSound ==
  \A m \in stats \union late \union pending :
    \E o \in 0..(Len(log) - 1) : m.sequence = o + 1 /\ m \in Due(o)

\* What the worker has been through is published, but for the publish in hand.
Settled ==
  \A o \in 0..position :
    /\ o < position \/ ~busy => Due(o) \subseteq stats
    /\ ~failed => Due(o) \subseteq stats \union pending

\* No message overtakes what is due below it, not even one that arrives late:
\* so the last one stored always marks a safe place to resume.
ResumeInv ==
  /\ MessagesSound /\ Settled
  /\ last <= Len(log) /\ Below(last) /\ Below(republish)
  /\ \A m \in late \union pending : Below(m.sequence)

-----------------------------------------------------------------------------
(* What is due is a function of the log *)

LEMMA DueSame == ASSUME UNCHANGED log PROVE \A o : Due(o)' = Due(o)
BY DEF Due, Changes, HotOf, Adds, Removes, At, prepare, Count

\* An appended record changes nothing that was due before it.
LEMMA DueKept ==
  ASSUME log \in Seq(Records), NEW r \in Records, log' = Append(log, r),
         NEW o \in 0..(Len(log) - 1)
  PROVE  Due(o)' = Due(o)
<1>0. Len(log) \in Nat OBVIOUS
<1>1. \A k \in 0..o : At(k)' = At(k) BY <1>0, AppendKeeps
<1>2. \A k \in 0..o, ip \in IPs : /\ Adds(k, ip)' <=> Adds(k, ip)
                                  /\ Removes(k, ip)' <=> Removes(k, ip)
  BY <1>1, Zenon DEF Adds, Removes
<1>3. HotOf(0..o)' = HotOf(0..o) BY <1>2, Zenon DEF HotOf
<1>4. \A k \in 0..(o - 1) : k \in 0..o BY <1>0
<1>5. HotOf(0..(o - 1))' = HotOf(0..(o - 1)) BY <1>2, <1>4, Zenon DEF HotOf
<1>6. o \in 0..o BY <1>0
<1>7. Changes(o)' <=> Changes(o) BY <1>2, <1>5, <1>6, Zenon DEF Changes
<1>8. prepare(HotOf(0..o), At(o).ip, o + 1)' = prepare(HotOf(0..o), At(o).ip, o + 1)
  BY <1>1, <1>3, <1>6, Zenon DEF prepare, Count
<1> QED BY <1>7, <1>8, Zenon DEF Due

\* Nothing is due at a record that is not an event.
LEMMA DueSkipped ==
  ASSUME NEW o, At(o).kind \in {"malformed", "not_served"} PROVE Due(o) = {}
<1>1. ~Changes(o) BY Zenon DEF Changes, Adds, Removes
<1> QED BY <1>1, Zenon DEF Due

\* With nothing dropped, the records handled are those up to the position and
\* the next one is handled next.
LEMMA InOrder ==
  ASSUME WorkerInv, first = 0, NEW o \in Deliverable, o > position
  PROVE  o = position + 1 /\ o \in 0..(Len(log) - 1) /\ hot = HotOf(0..(o - 1))
         /\ seen \union {o} = 0..o
<1>a. TypeOK /\ PosInv BY Zenon DEF WorkerInv
<1>1. /\ o \in 0..(Len(log) - 1)
      /\ \A k \in 0..o : k \in 0..position \/ k = o \/ k < first
  BY <1>a, Delivered, Zenon
<1>2. position \in Int /\ position >= -1 /\ Len(log) \in Nat BY <1>a DEF TypeOK
<1>3. o = position + 1
  <2>1. CASE position + 1 < o
    <3>1. position + 1 \in 0..o BY <1>1, <1>2, <2>1
    <3> QED BY <1>1, <1>2, <2>1, <3>1
  <2> QED BY <1>1, <1>2, <2>1
<1>4. seen = 0..position
  <2>1. \A k \in 0..position : ~(k < first) BY <1>2
  <2> QED BY <1>a, <2>1, Zenon DEF PosInv
<1>5. 0..(o - 1) = 0..position BY <1>2, <1>3
<1>6. seen \union {o} = 0..o
  <2>1. \A k \in 0..o : k \in 0..position \/ k = o BY <1>2, <1>3
  <2>2. \A k \in 0..position : k \in 0..o BY <1>2, <1>3
  <2>3. o \in 0..o BY <1>1
  <2> QED BY <1>4, <2>1, <2>2, <2>3, Zenon
<1> QED BY <1>a, <1>1, <1>3, <1>4, <1>5, <1>6, Zenon DEF PosInv

\* What applying an event changes is what is due at it.
LEMMA DueEvent ==
  ASSUME WorkerInv, first = 0, NEW o \in Deliverable, HandleEvent(o)
  PROVE  LET new == applied(hot, At(o).ip, At(o).kind = "HotIpAdded")
         IN  Due(o) = IF new # hot THEN prepare(new, At(o).ip, o + 1) ELSE {}
<1>a. TypeOK /\ PosInv BY Zenon DEF WorkerInv
<1> DEFINE new == applied(hot, At(o).ip, At(o).kind = "HotIpAdded")
<1>1. o > position /\ At(o).kind \in {"HotIpAdded", "HotIpRemoved"} BY Zenon DEF HandleEvent
<1>2. /\ o \in 0..(Len(log) - 1) /\ hot = HotOf(0..(o - 1)) /\ seen \union {o} = 0..o
      /\ o = position + 1
  BY <1>1, InOrder, Zenon
<1>3. At(o).ip \in IPs BY <1>a, <1>1, <1>2, RecordAt, Zenon
<1>4. seen \in SUBSET Int /\ o \in Int /\ \A s \in seen : s < o
  BY <1>a, <1>1, <1>2 DEF PosInv, TypeOK
<1>5. new = HotOf(0..o) BY <1>a, <1>1, <1>2, <1>3, <1>4, HotOfEvent, Zenon DEF PosInv
<1>6. Changes(o) <=> new # hot
  BY <1>1, <1>2, <1>3, Zenon DEF Changes, Adds, Removes, applied
<1> QED BY <1>5, <1>6, Zenon DEF Due

-----------------------------------------------------------------------------
(* Every step keeps the resumption invariant *)

Resumable == first = 0 => ResumeInv

\* A message reaches the log, answered or late.
LEMMA StoredKeeps ==
  ASSUME WorkerInv, ResumeInv, UNCHANGED <<log, position, busy, failed, republish>>,
         NEW m \in late \union pending, Stored(m),
         late' \subseteq late, pending' \subseteq pending,
         pending \subseteq pending' \union {m}
  PROVE  ResumeInv'
<1>k. \A o : Due(o)' = Due(o) BY DueSame, Zenon
<1>0. stats' = stats \union {m} BY Zenon DEF Stored
<1>1. MessagesSound' BY <1>k, <1>0, Zenon DEF MessagesSound, ResumeInv
<1>2. Settled' BY <1>k, <1>0, Zenon DEF Settled, ResumeInv
<1>3. Below(republish)' /\ \A n \in late \union pending : Below(n.sequence)'
  BY <1>k, <1>0, Zenon DEF Below, ResumeInv
<1>4. last' <= Len(log) /\ Below(last)'
  <2>1. CASE UNCHANGED last BY <1>k, <1>0, <2>1, Zenon DEF Below, ResumeInv
  <2>2. CASE last' = m.sequence
    <3>1. m.sequence <= Len(log) BY DEF ResumeInv, MessagesSound, WorkerInv, TypeOK
    <3> QED BY <1>k, <1>0, <2>2, <3>1, Zenon DEF Below, ResumeInv
  <2> QED BY <2>1, <2>2, Zenon DEF Stored
<1>5. \A n \in (late \union pending)' : Below(n.sequence)' BY <1>3, Zenon
<1> QED BY <1>1, <1>2, <1>3, <1>4, <1>5, Zenon DEF ResumeInv

\* Steps that store nothing and leave the position where it is.
LEMMA StillKeeps ==
  ASSUME ResumeInv, UNCHANGED <<log, stats, last, position>>,
         Below(republish)', late' \union pending' \subseteq late \union pending,
         \A o \in 0..position : o < position \/ ~busy' => Due(o) \subseteq stats,
         \A o \in 0..position : ~failed' => Due(o) \subseteq stats \union pending'
  PROVE  ResumeInv'
<1>k. \A o : Due(o)' = Due(o) BY DueSame, Zenon
<1>1. MessagesSound' BY <1>k, Zenon DEF MessagesSound, ResumeInv
<1>2. Settled' BY <1>k, Zenon DEF Settled
<1>3. Below(last)' BY <1>k, Zenon DEF Below, ResumeInv
<1>4. \A n \in (late \union pending)' : Below(n.sequence)' BY <1>k, Zenon DEF Below, ResumeInv
<1> QED BY <1>1, <1>2, <1>3, <1>4, Zenon DEF ResumeInv

\* The end of a process: what it had sent may still arrive.
LEMMA DownKeeps == ASSUME ResumeInv, Down PROVE ResumeInv'
<1>k. \A o : Due(o)' = Due(o) BY DueSame, Zenon DEF Down
<1>1. MessagesSound' BY <1>k, Zenon DEF Down, MessagesSound, ResumeInv
<1>2. Settled' BY DEF Down, Settled
<1>3. Below(republish)' BY DEF Down, Below
<1>4. Below(last)' /\ last' <= Len(log') BY <1>k, Zenon DEF Below, ResumeInv, Down
<1>5. \A n \in (late \union pending)' : Below(n.sequence)'
  BY <1>k, Zenon DEF Below, ResumeInv, Down
<1> QED BY <1>1, <1>2, <1>3, <1>4, <1>5, Zenon DEF ResumeInv

\* A record handled: what it makes due is sent, or was stored before.
LEMMA HandleKeeps ==
  ASSUME WorkerInv, first = 0, ResumeInv, Handle PROVE ResumeInv'
<1>a. TypeOK /\ PosInv BY Zenon DEF WorkerInv
<1>1. PICK o \in Deliverable : HandleSkipped(o) \/ HandleEvent(o) BY Zenon DEF Handle
<1>2. o > position /\ ~busy BY <1>1, Zenon DEF HandleSkipped, HandleEvent, Pumping
<1>3. o = position + 1 /\ o \in 0..(Len(log) - 1) BY <1>2, InOrder, Zenon
<1>4. UNCHANGED <<log, stats, last, late, republish, failed>> /\ position' = o
  BY <1>1, Zenon DEF HandleSkipped, HandleEvent
<1>k. \A k : Due(k)' = Due(k) BY <1>4, DueSame, Zenon
<1>5. position \in Int /\ Len(log) \in Nat BY <1>a DEF TypeOK
<1>6. \A k \in 0..o : k = o \/ Due(k) \subseteq stats
  <2>1. \A k \in 0..o : k = o \/ k \in 0..position BY <1>3, <1>5
  <2> QED BY <1>2, <2>1, Zenon DEF ResumeInv, Settled
<1>7. Below(republish)' /\ Below(last)' /\ \A m \in late : Below(m.sequence)'
  BY <1>4, <1>k, Zenon DEF ResumeInv, Below
<1>8. CASE HandleSkipped(o)
  <2>1. Due(o) = {} BY <1>8, DueSkipped DEF HandleSkipped
  <2>2. UNCHANGED <<busy, pending>> BY <1>8, Zenon DEF HandleSkipped
  <2>3. MessagesSound' BY <1>4, <1>k, <2>2, Zenon DEF ResumeInv, MessagesSound
  <2>4. Settled' BY <1>4, <1>6, <1>k, <2>1, Zenon DEF Settled
  <2>5. \A m \in pending' : Below(m.sequence)' BY <1>4, <1>k, <2>2, Zenon DEF ResumeInv, Below
  <2> QED BY <1>4, <1>7, <2>3, <2>4, <2>5, Zenon DEF ResumeInv
<1>9. CASE HandleEvent(o)
  <2> DEFINE new == applied(hot, At(o).ip, At(o).kind = "HotIpAdded")
  <2>1. Due(o) = IF new # hot THEN prepare(new, At(o).ip, o + 1) ELSE {}
    BY <1>9, DueEvent, Zenon
  <2>2. busy' = publishes(new # hot, o + 1)
        /\ pending' = IF busy' THEN prepare(new, At(o).ip, o + 1) ELSE {}
    BY <1>9, Zenon DEF HandleEvent
  <2> HIDE DEF new
  <2>3. busy' => pending' = Due(o) BY <2>1, <2>2, Zenon DEF publishes
  <2>4. ~busy' => pending' = {} /\ Due(o) \subseteq stats
    <3>1. CASE new = hot BY <2>1, <2>2, <3>1, Zenon DEF publishes
    <3>2. CASE new # hot /\ o + 1 < republish
      BY <1>3, <2>2, <3>2, Zenon DEF ResumeInv, Below, publishes
    <3>3. republish \in Int BY <1>a DEF TypeOK
    <3>4. o + 1 < republish \/ o + 1 >= republish BY <1>3, <1>5, <3>3
    <3>5. CASE new # hot /\ o + 1 >= republish
      <4>1. busy' BY <2>2, <3>5, Zenon DEF publishes
      <4> QED BY <4>1, Zenon
    <3> QED BY <3>1, <3>2, <3>4, <3>5, Zenon
  <2>5. \A m \in pending' : m.sequence = o + 1 /\ m \in Due(o)
    <3>1. \A m \in Due(o) : m.sequence = o + 1
      <4>1. \A m \in prepare(new, At(o).ip, o + 1) : m.sequence = o + 1 BY DEF prepare
      <4> QED BY <2>1, <4>1, Zenon
    <3> QED BY <2>3, <2>4, <3>1, Zenon
  <2>6. MessagesSound' BY <1>3, <1>4, <1>k, <2>5, Zenon DEF ResumeInv, MessagesSound
  <2>7. Settled' BY <1>4, <1>6, <1>k, <2>3, <2>4 DEF Settled
  <2>8. \A k \in 0..(Len(log) - 1) : k + 1 < o + 1 => Due(k) \subseteq stats
    <3>1. \A k \in 0..(Len(log) - 1) : k + 1 < o + 1 => k \in 0..o /\ k # o BY <1>3, <1>5
    <3> QED BY <1>6, <3>1, Zenon
  <2>9. \A m \in pending' : Below(m.sequence)' BY <1>4, <1>k, <2>5, <2>8, Zenon DEF Below
  <2> QED BY <1>4, <1>7, <2>6, <2>7, <2>9 DEF ResumeInv
<1> QED BY <1>1, <1>8, <1>9, Zenon

\* A record appended: nothing was due at it yet.
LEMMA AppendKeepsDue ==
  ASSUME WorkerInv, ResumeInv, NEW r \in Records, Append1(r) PROVE ResumeInv'
<1>a. TypeOK /\ PosInv BY Zenon DEF WorkerInv
<1>0. /\ log \in Seq(Records) /\ Len(log) \in Nat /\ position \in Int /\ position < Len(log)
      /\ last \in Nat /\ republish \in Nat /\ republish <= Len(log)
  BY <1>a DEF TypeOK, PosInv
<1>1. /\ log' = Append(log, r)
      /\ UNCHANGED <<stats, last, late, pending, position, busy, failed, republish>>
  BY Zenon DEF Append1, process
<1>2. Len(log') = Len(log) + 1 BY <1>0, <1>1
<1>k. \A o \in 0..(Len(log) - 1) : Due(o)' = Due(o) BY <1>0, <1>1, DueKept, Zenon
<1>3. \A o \in 0..(Len(log) - 1) : o \in 0..(Len(log') - 1) BY <1>0, <1>2
<1>4. \A o \in 0..(Len(log') - 1) : o \in 0..(Len(log) - 1) \/ o = Len(log) BY <1>0, <1>2
<1>5. \A s \in Int : s <= Len(log) /\ Below(s) => Below(s)'
  <2>1. \A s \in Int : s <= Len(log) => ~(Len(log) + 1 < s) BY <1>0
  <2> QED BY <1>1, <1>4, <1>k, <2>1, Zenon DEF Below
<1>6. MessagesSound' BY <1>1, <1>3, <1>k, Zenon DEF ResumeInv, MessagesSound
<1>7. \A o \in 0..position : o \in 0..(Len(log) - 1) BY <1>0
<1>8. Settled' BY <1>1, <1>7, <1>k, Zenon DEF ResumeInv, Settled
<1>9. Below(last)' /\ Below(republish)'
  BY <1>0, <1>1, <1>4, <1>k DEF ResumeInv, Below
<1>10. \A m \in late \union pending : m.sequence \in Int /\ m.sequence <= Len(log)
  BY <1>0 DEF ResumeInv, MessagesSound
<1>11. \A m \in (late \union pending)' : Below(m.sequence)'
  BY <1>1, <1>5, <1>10, Zenon DEF ResumeInv
<1>12. last' <= Len(log') BY <1>0, <1>1, <1>2 DEF ResumeInv
<1> QED BY <1>6, <1>8, <1>9, <1>11, <1>12, Zenon DEF ResumeInv

\* Every step keeps the resumption invariant.
LEMMA ResumeStep == ASSUME WorkerInv, Resumable, [Next]_vars PROVE Resumable'
<1>a. TypeOK /\ PosInv BY Zenon DEF WorkerInv
<1>t. CASE Trim
  <2>1. first' # 0 BY <1>a, <1>t DEF Trim, TypeOK
  <2> QED BY <2>1, Zenon DEF Resumable
<1>s. SUFFICES ASSUME first = 0, ~Trim PROVE ResumeInv'
  <2>1. Trim \/ UNCHANGED first
    BY Zenon
    DEF Next, vars, Append1, Starting, Start, ReadEnd, ReadFirst, ReadLast, Subscribe, Ready,
           Handle, HandleSkipped, HandleEvent, HandleRedelivered, Publishing, PublishDone,
           PublishError, PublishOne, PublishOneFails, StoredLate, Crash, StartTimeout, Stop,
           Stopped, Down
  <2> QED BY <1>t, <2>1, Zenon DEF Resumable
<1>i. ResumeInv BY <1>s, Zenon DEF Resumable
<1>b. Below(republish) /\ Settled BY <1>i, Zenon DEF ResumeInv
<1>1. CASE UNCHANGED vars
  <2>1. UNCHANGED <<log, stats, last, late, pending, failed, busy, position, republish>>
    BY <1>1, Zenon DEF vars, process
  <2>2. Below(republish)' BY <1>b, <2>1, DueSame, Zenon DEF Below
  <2> QED BY <1>i, <1>b, <2>1, <2>2, StillKeeps, Zenon DEF Settled
<1>2. CASE \E o \in Deliverable : HandleRedelivered(o) BY <1>1, <1>2, Zenon DEF HandleRedelivered
<1>3. CASE Len(log) < MaxLog /\ \E r \in Arrivals[Len(log)] : Append1(r)
  <2>1. Arrivals[Len(log)] \subseteq Records
    BY <1>a, <1>3, ChoiceAssumption, WorkerBounds DEF TypeOK
  <2> QED BY <1>i, <1>3, <2>1, AppendKeepsDue, Zenon
<1>4. CASE Starting
  <2>k. UNCHANGED log
    BY <1>4, Zenon DEF Starting, Start, ReadEnd, ReadFirst, ReadLast, Subscribe, Ready
  <2>0. \A o : Due(o)' = Due(o) BY <2>k, DueSame, Zenon
  <2>1. UNCHANGED <<log, stats, last, late, busy, pending, failed>>
    BY <1>4, Zenon DEF Starting, Start, ReadEnd, ReadFirst, ReadLast, Subscribe, Ready
  <2>2. UNCHANGED position
    <3>1. floor = 0 BY <1>a, <1>s DEF TypeOK, PosInv
    <3>2. pc = "pass" => position = -1 BY <1>a, Zenon DEF PosInv, Early
    <3> QED BY <1>4, <3>1, <3>2 DEF Starting, Start, ReadEnd, ReadFirst, ReadLast, Subscribe,
                                    Ready, event_sequence
  <2>3. Below(republish)'
    <3>1. republish' \in {republish, last, 0}
      BY <1>4, Zenon
      DEF Starting, Start, ReadEnd, ReadFirst, ReadLast, Subscribe, Ready, republish_from
    <3>2. Below(last) /\ Below(0) BY <1>i DEF ResumeInv, Below
    <3> QED BY <1>b, <2>0, <2>1, <3>1, <3>2, Zenon DEF Below
  <2> QED BY <1>i, <1>b, <2>1, <2>2, <2>3, StillKeeps, Zenon DEF Settled
<1>5. CASE Handle BY <1>s, <1>i, <1>5, HandleKeeps, Zenon
<1>6. CASE PublishDone
  <2>1. UNCHANGED <<log, stats, last, late, pending, failed, position, republish>>
        /\ pending = {} /\ ~failed
    BY <1>6, Zenon DEF PublishDone
  <2>2. Below(republish)' BY <1>b, <2>1, DueSame, Zenon DEF Below
  <2>3. \A o \in 0..position : Due(o) \subseteq stats BY <1>b, <2>1, Zenon DEF Settled
  <2> QED BY <1>i, <2>1, <2>2, <2>3, StillKeeps, Zenon
<1>7. CASE Stop
  <2>1. UNCHANGED <<log, stats, last, late, pending, failed, busy, position, republish>>
    BY <1>7, Zenon DEF Stop
  <2>2. Below(republish)' BY <1>b, <2>1, DueSame DEF Below
  <2> QED BY <1>i, <1>b, <2>1, <2>2, StillKeeps DEF Settled
<1>8. ASSUME NEW m \in pending, PublishOneFails(m) PROVE ResumeInv'
  <2>1. UNCHANGED <<log, stats, last, busy, position, republish>>
        /\ failed' = TRUE /\ late' = late \union {m} /\ pending' = pending \ {m}
    BY <1>8, Zenon DEF PublishOneFails
  <2>2. Below(republish)' BY <1>b, <2>1, DueSame, Zenon DEF Below
  <2> QED BY <1>i, <1>b, <2>1, <2>2, StillKeeps, Zenon DEF Settled
<1>9. ASSUME NEW m \in pending, PublishOne(m) PROVE ResumeInv'
  <2>1. UNCHANGED <<log, late, busy, failed, position, republish>>
        /\ pending' = pending \ {m} /\ Stored(m)
    BY <1>9, Zenon DEF PublishOne
  <2> QED BY <1>i, <2>1, StoredKeeps, Zenon
<1>10. ASSUME NEW m \in late, StoredLate(m) PROVE ResumeInv'
  <2>1. UNCHANGED <<log, pending, busy, failed, position, republish>>
        /\ late' = late \ {m} /\ Stored(m)
    BY <1>10, Zenon DEF StoredLate, process
  <2> QED BY <1>i, <2>1, StoredKeeps, Zenon
<1>11. CASE PublishError \/ Crash \/ StartTimeout \/ Stopped
  BY <1>i, <1>11, DownKeeps, Zenon DEF PublishError, Crash, StartTimeout, Stopped
<1> QED
  BY <1>s, <1>1, <1>2, <1>3, <1>4, <1>5, <1>6, <1>7, <1>8, <1>9, <1>10, <1>11, Zenon
     DEF Next, Publishing

LEMMA ResumeInvariant == Spec => [](WorkerInv /\ Resumable)
<1>1. ASSUME Init PROVE Resumable
  BY <1>1 DEF Init, Resumable, ResumeInv, MessagesSound, Settled, Below
<1>2. WorkerInv /\ Resumable /\ [Next]_vars => WorkerInv' /\ Resumable'
  BY WorkerStep, ResumeStep, Zenon
<1> QED BY <1>1, <1>2, WorkerStart, PTL DEF Spec

-----------------------------------------------------------------------------
(* The theorems *)

\* A restart, a late arrival and the broker's duplicate check never meet two
\* messages with one id and two counts: a message is what its record makes due
\* (PrefixStatsPublisher.prepare, compute_event_id).
THEOREM MessagesRepeatable == Spec => []SameIdSameCount
<1>1. ASSUME WorkerInv, Resumable PROVE SameIdSameCount
  <2>1. SUFFICES ASSUME first = 0, NEW m \in stats \union late \union pending
                 PROVE  m.sequence \in 1..Len(log) /\ m \in Due(m.sequence - 1)
    BY Zenon DEF SameIdSameCount
  <2>2. PICK o \in 0..(Len(log) - 1) : m.sequence = o + 1 /\ m \in Due(o)
    BY <1>1, <2>1, Zenon DEF Resumable, ResumeInv, MessagesSound
  <2>3. Len(log) \in Nat BY <1>1 DEF WorkerInv, TypeOK
  <2>4. o = m.sequence - 1 /\ m.sequence \in 1..Len(log) BY <2>2, <2>3
  <2> QED BY <2>2, <2>4, Zenon
<1> QED BY <1>1, ResumeInvariant, PTL

\* Everything due below the last stored sequence is stored, so publishing again
\* only from that sequence loses nothing, whatever part of a publish failed or
\* arrived after the process had ended (TrieWorker._republish_from, _publish).
THEOREM ResumptionSafe == Spec => []ResumeSafe
<1>1. ASSUME WorkerInv, Resumable PROVE ResumeSafe
  BY <1>1, Zenon DEF Resumable, ResumeInv, Below, ResumeSafe
<1> QED BY <1>1, ResumeInvariant, PTL
=============================================================================
