---- MODULE MCTrieFamily ----
(* Small instances of TrieFamily: every sequence of calls on a few addresses. *)
EXTENDS TrieFamily

CONSTANTS MaxHot, MaxDeclared

TextLengths == [d \in {"default", "tagged", "rejected"} |->
                  CASE d = "default" -> 2 [] d = "tagged" -> 5 [] OTHER -> -1]

\* Two addresses carry texts of different lengths.
DocumentsOf == [a \in Addresses |-> IF a \in {2, 3} THEN {"tagged", "rejected"} ELSE {"rejected"}]

tags(s) == [kind |-> "Tags", set |-> s]
policy(v) == [kind |-> "Override", set |-> {v}]

MetadataDocuments == {("k" :> tags({1})), ("k" :> policy(1)), ("k" :> policy(2))}

\* Bounds: at most MaxHot HOT addresses and MaxDeclared declarations. The
\* metadata store and the tries share no state, so each is explored while the
\* other is empty.
MCNext ==
  \/ declarations = <<>> /\ TrieNext /\ Cardinality(DOMAIN records') <= MaxHot
  \/ trie = empty_trie /\ MetadataNext /\ Cardinality(DOMAIN declarations') <= MaxDeclared

MCSpec == Init /\ [][MCNext]_vars
====
