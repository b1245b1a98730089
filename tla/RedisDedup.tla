----------------------------- MODULE RedisDedup -----------------------------
(***************************************************************************)
(* RedisDedupStore for one (agent, sequence): one key with an expiry,      *)
(* claim's single SET NX, and mark_seen's SET NX, EXPIRE GT and second     *)
(* SET NX, with other callers' commands and the key's own expiry between   *)
(* them.                                                                   *)
(***************************************************************************)
EXTENDS Integers, FiniteSetsExt

CONSTANTS Callers,
          Durations,  \* ttl_seconds: a configuration change may bring another
          MaxTime,    \* bound: seconds
          MaxMarks    \* bound: calls of mark_seen

ASSUME DedupAssumption ==
  /\ Durations # {} /\ Durations \subseteq Nat \ {0}
  /\ MaxTime \in Nat /\ MaxMarks \in Nat

VARIABLES goes,    \* when the key goes; it is there while time < goes
          time,
          marking, \* each caller's mark_seen: where it is, its ttl, when it began
          marks    \* calls of mark_seen begun

dedupVars == <<goes, time, marking, marks>>

Resting == [at |-> "rest", ttl |-> 0, began |-> 0]

DedupInit ==
  /\ goes = 0 /\ time = 0
  /\ marking = [c \in Callers |-> Resting]
  /\ marks = 0

exists == time < goes

\* SET key EX ttl NX: whether it set the key is whether it was absent.
SetNx(ttl) == goes' = IF exists THEN goes ELSE time + ttl

\* Granted when it set the key; the caller's answer is ingest's business.
Claim(ttl) ==
  /\ SetNx(ttl)
  /\ UNCHANGED <<time, marking, marks>>

Mark(c, ttl) ==
  /\ marking[c].at = "rest" /\ marks < MaxMarks
  /\ marking' = [marking EXCEPT ![c] = [at |-> "set", ttl |-> ttl, began |-> time]]
  /\ marks' = marks + 1
  /\ UNCHANGED <<goes, time>>

MarkSet(c) ==
  /\ marking[c].at = "set"
  /\ SetNx(marking[c].ttl)
  /\ marking' = [marking EXCEPT ![c] = IF exists THEN [@ EXCEPT !.at = "expire"] ELSE Resting]
  /\ UNCHANGED <<time, marks>>

\* EXPIRE GT acts on a key that is there and would go sooner.
extends(ttl) == exists /\ time + ttl > goes

\* Mutant: the answer of EXPIRE is not looked at.
unextended_ignored(marked) == Resting

\* A falsy answer: the key has gone since, or lasts long enough.
unextended(marked) == [marked EXCEPT !.at = "again"]

MarkExpire(c) ==
  /\ marking[c].at = "expire"
  /\ goes' = IF extends(marking[c].ttl) THEN time + marking[c].ttl ELSE goes
  /\ marking' = [marking EXCEPT ![c] = IF extends(@.ttl) THEN Resting ELSE unextended(@)]
  /\ UNCHANGED <<time, marks>>

MarkAgain(c) ==
  /\ marking[c].at = "again"
  /\ SetNx(marking[c].ttl)
  /\ marking' = [marking EXCEPT ![c] = Resting]
  /\ UNCHANGED <<time, marks>>

Second ==
  /\ time < MaxTime
  /\ time' = time + 1
  /\ UNCHANGED <<goes, marking, marks>>

DedupNext ==
  \/ Second
  \/ \E ttl \in Durations : Claim(ttl) \/ \E c \in Callers : Mark(c, ttl)
  \/ \E c \in Callers : MarkSet(c) \/ MarkExpire(c) \/ MarkAgain(c)

DedupSpec == DedupInit /\ [][DedupNext]_dedupVars

-----------------------------------------------------------------------------
(* No command of any caller makes a key that is there go sooner: a shorter    *)
(* ttl_seconds after a configuration change does not shorten a retention.     *)
NeverShortened == [][exists => goes' >= goes]_dedupVars

(* When mark_seen returns, the pair is marked, although the key may have gone *)
(* between its commands and another caller may have brought it back, and it   *)
(* stays marked for at least the shortest ttl_seconds in use from the call on.*)
MarkedOnReturn ==
  [][\A c \in Callers :
       marking[c].at # "rest" /\ marking'[c].at = "rest" =>
         exists' /\ goes' >= marking[c].began + Min(Durations)]_dedupVars

(* Marking neither fails to mark nor takes away from another caller's mark.   *)
MarkSound == NeverShortened /\ MarkedOnReturn
=============================================================================
