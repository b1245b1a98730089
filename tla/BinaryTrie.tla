---- MODULE BinaryTrie ----
(***************************************************************************)
(* The bit-by-bit reference trie (binary_trie.py). Every node stands for   *)
(* the prefix its path spells, so a trie is a function from the prefixes   *)
(* that have a node to their hot_count, and the node counter the code      *)
(* keeps beside it. A node's child is the node one bit longer.             *)
(***************************************************************************)
EXTENDS Addressing, TLC

empty_binary == [node |-> <<>>, node_count |-> 0]

\* The count stored for `prefix`, 0 where there is no node.
binary_hot_count(b, prefix) ==
  IF prefix \in DOMAIN b.node THEN b.node[prefix] ELSE 0

binary_contains(b, value) == binary_hot_count(b, prefix_of(value, Bits)) = 1

binary_hot_ip_count(b) == binary_hot_count(b, prefix_of(0, 0))

binary_ancestor_counts(b, value) ==
  [l \in 0..Bits |-> binary_hot_count(b, prefix_of(value, l))]

binary_longest_match(b, value) ==
  Max({l \in 0..Bits : binary_hot_count(b, prefix_of(value, l)) > 0} \union {-1})

binary_hot_addresses(b) == {p.network : p \in {q \in DOMAIN b.node : q.length = Bits}}

\* Every node on the path counts the new address; missing ones are created.
binary_add(b, value) ==
  LET path == {prefix_of(value, l) : l \in 0..Bits}
      new  == path \ DOMAIN b.node
  IN  IF binary_contains(b, value) THEN b
      ELSE [node |-> [p \in path |-> binary_hot_count(b, p) + 1] @@ b.node,
            node_count |-> b.node_count + Cardinality(new)]

\* The walk decrements from the root and detaches the first node it empties,
\* with everything below it.
binary_remove(b, value) ==
  LET path  == {prefix_of(value, l) : l \in 0..Bits}
      empty == Min({l \in 0..Bits : b.node[prefix_of(value, l)] = 1})
      kept  == {p \in DOMAIN b.node : ~covers(prefix_of(value, empty), p)}
  IN  IF ~binary_contains(b, value) THEN b
      ELSE [node |-> [p \in kept |-> IF p \in path THEN b.node[p] - 1 ELSE b.node[p]],
            node_count |-> b.node_count - (Bits - empty + 1)]
====
