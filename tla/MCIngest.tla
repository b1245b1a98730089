---- MODULE MCIngest ----
(* Two agents: A sends two sequences and retries them, its second address    *)
(* list overflows or repeats an address; B is disabled. Two failure sources. *)
EXTENDS Ingest, TLC

E1(ip, n) == [ip |-> ip, count |-> n]

Base == [agent |-> "A", credential |-> "current", source |-> "s", form |-> "ok",
         body_agent |-> "A", sequence |-> 0, window_start |-> 2, window_seconds |-> 1,
         entries |-> <<E1("x", 1), E1("y", 1)>>]

Zero == [Base EXCEPT !.sequence = 2,
                     !.entries = <<E1("x", 1), E1("y", 0), E1("x", 1)>>]
Overflow == [Base EXCEPT !.sequence = 4, !.entries = <<E1("x", 2), E1("x", 1)>>]
Rotated == [Base EXCEPT !.sequence = 4, !.entries = <<E1("x", 2)>>, !.credential = "previous"]
Stranger == [Base EXCEPT !.agent = "C", !.credential = "wrong"]
Elsewhere == [Stranger EXCEPT !.source = "t", !.credential = "missing"]
Disabled == [Base EXCEPT !.agent = "B"]

\* First messages, what follows them, and the retries.
Sent == <<{"base"}, {"base", "zero", "disabled"}, {"base", "overflow", "rotated", "stranger",
           "elsewhere"}>>

Named == [base |-> Base, zero |-> Zero, overflow |-> Overflow, rotated |-> Rotated,
          stranger |-> Stranger, elsewhere |-> Elsewhere, disabled |-> Disabled]

Agents == ("A" :> [enabled |-> TRUE, previous_until |-> 1, rate |-> 2])
          @@ ("B" :> [enabled |-> FALSE, previous_until |-> 0, rate |-> 2])

Slots == ("A" :> 1) @@ ("B" :> 0) @@ ("C" :> 0)

Versions == <<[bucket_seconds |-> 2, allowed_lateness_seconds |-> 1],
              [bucket_seconds |-> 4, allowed_lateness_seconds |-> 0]>>

Settings == [burst |-> 3, eps |-> 2, source_rate |-> 1, source_burst |-> 3,
             slot_rate |-> 1, slot_burst |-> 2, unit |-> 2, keys |-> 1, agents |-> 1,
             out_of_order |-> 1, count |-> 2]

CONSTANT Concurrent

\* Bounds: the requests above `Concurrent` arrive when the others are answered;
\* the clock is set back only under the store that reads it; the stop, which
\* requests in flight do not notice, comes between requests; and the world
\* stands still once all are answered.
Open == {r \in Requests : req[r].pc # "done"}
Quiet == \A r \in Open : req[r].pc = "idle"
MCNext ==
  /\ Open # {}
  /\ Next
  /\ \A r \in Requests :
       r > Concurrent /\ req[r].pc = "idle" /\ req'[r].pc # "idle" => Open = {r}
  /\ back' # back => kind = "memory"
  /\ ready' # ready => Quiet

MCSpec == Init /\ [][MCNext]_vars
====
