---- MODULE PrefixMetadata ----
(***************************************************************************)
(* Metadata declared on prefixes and combined down a path (combine.py,     *)
(* local.py). A document maps keys to values; a value is a record of its   *)
(* kind and its set: the tags of a Tags, the set bits of a Bitmask, the    *)
(* one value of an Override.                                               *)
(***************************************************************************)
EXTENDS Addressing, Sequences, TLC
LOCAL INSTANCE SequencesExt

EMPTY_METADATA == <<>>

\* What a combination of two kinds under one key yields: an exception.
MIXED == [kind |-> "mixed", set |-> {}]


\* Tags and bit masks accumulate; the more specific Override wins.
combine_values(less, more) ==
  CASE less.kind # more.kind -> MIXED
    [] less.kind = "Override" -> more
    [] OTHER -> [less EXCEPT !.set = @ \union more.set]

combine(less, more) ==
  [k \in DOMAIN less \union DOMAIN more |->
     CASE k \notin DOMAIN less -> more[k]
       [] k \notin DOMAIN more -> less[k]
       [] OTHER -> combine_values(less[k], more[k])]

combine_path(documents) == FoldLeft(combine, EMPTY_METADATA, documents)

-----------------------------------------------------------------------------
(* The store: a function from declared prefixes to documents *)

\* No key with two kinds on one path; the declaration being replaced is not
\* compared.
check_path(d, prefix, document) ==
  \A other \in DOMAIN d \ {prefix} : covers(other, prefix) \/ covers(prefix, other) =>
     \A k \in DOMAIN document \intersect DOMAIN d[other] : document[k].kind = d[other][k].kind

\* A rejected document changes nothing.
declare(d, prefix, document) ==
  IF check_path(d, prefix, document) THEN (prefix :> document) @@ d ELSE d

revoke(d, prefix) == [p \in DOMAIN d \ {prefix} |-> d[p]]

local(d, prefix) == IF prefix \in DOMAIN d THEN d[prefix] ELSE EMPTY_METADATA

\* The declarations on `prefix`'s path, lengths 0..through, least specific
\* first.
fold(d, prefix, through) ==
  LET at(l)   == prefix_of(prefix.network, l - 1)
      lengths == SelectSeq([l \in 1..(through + 1) |-> l], LAMBDA l : at(l) \in DOMAIN d)
  IN  combine_path([i \in DOMAIN lengths |-> d[at(lengths[i])]])

inherited(d, prefix) == fold(d, prefix, prefix.length - 1)

effective_for_prefix(d, prefix) == fold(d, prefix, prefix.length)
====
