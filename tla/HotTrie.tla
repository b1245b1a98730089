---- MODULE HotTrie ----
(***************************************************************************)
(* What a trie promises (the HotTrie protocol, node.py, and the contract   *)
(* both implementations state): a set of HOT addresses. Adding and         *)
(* removing answer whether the set changed. The compressed trie and the    *)
(* bit-by-bit reference trie are both shown to implement this module.      *)
(***************************************************************************)
EXTENDS Addressing

VARIABLES
  hot,      \* the HOT addresses
  changed   \* the answer of the last add or remove

vars == <<hot, changed>>

Init == hot = {} /\ changed = FALSE

add_hot_ip(a) == changed' = (a \notin hot) /\ hot' = hot \union {a}

remove_hot_ip(a) == changed' = (a \in hot) /\ hot' = hot \ {a}

clear == hot' = {} /\ UNCHANGED changed

Next == clear \/ \E a \in Addresses : add_hot_ip(a) \/ remove_hot_ip(a)

Spec == Init /\ [][Next]_vars
====
