---- MODULE PatriciaTrie ----
(***************************************************************************)
(* The path-compressed trie over its node arena (patricia.py, arena.py),   *)
(* and the representation check the repository runs on it (invariants.py). *)
(*                                                                         *)
(* A trie is a record: root (a node id or NO_NODE), slots (the arena's     *)
(* parallel lists as one record per id) and free_ids (released ids, last   *)
(* one reused first). A released slot is marked dead by length = -1; its   *)
(* other fields are stale in the code and absent here, so that a walk      *)
(* reading one is an error of the run.                                     *)
(***************************************************************************)
EXTENDS Addressing, Sequences, TLC
LOCAL INSTANCE SequencesExt

NO_NODE == -1

empty_trie == [root |-> NO_NODE, slots |-> <<>>, free_ids |-> <<>>]

-----------------------------------------------------------------------------
(* The arena *)

Capacity(t) == Cardinality(DOMAIN t.slots)

is_live(t, id) == id \in DOMAIN t.slots /\ t.slots[id].length >= 0

live_count(t) == Capacity(t) - Len(t.free_ids)

\* The id the next allocation returns.
next_id(t) == IF t.free_ids = <<>> THEN Capacity(t) ELSE Last(t.free_ids)

allocate(t, network, length, hot_count) ==
  [t EXCEPT !.free_ids = IF @ = <<>> THEN @ ELSE Front(@),
            !.slots = (next_id(t) :> [network |-> network, length |-> length,
                                      hot_count |-> hot_count,
                                      child |-> [b \in 0..1 |-> NO_NODE]]) @@ @]

release(t, id) ==
  [t EXCEPT !.slots[id] = [length |-> -1], !.free_ids = Append(@, id)]

-----------------------------------------------------------------------------
(* Walks *)

\* The ids from `nid` toward `value`, ending at the first node that diverges
\* from it or is a leaf.
RECURSIVE path_from(_, _, _)
path_from(t, nid, value) ==
  LET n == t.slots[nid]
  IN  IF common_prefix_length(n.network, value) < n.length \/ n.length = Bits
      THEN <<nid>>
      ELSE <<nid>> \o path_from(t, n.child[bit_at(value, n.length)], value)

\* The count of the prefix network/length.
RECURSIVE count_at(_, _, _, _)
count_at(t, nid, network, length) ==
  IF nid = NO_NODE THEN 0
  ELSE LET n == t.slots[nid]
       IN  IF common_prefix_length(n.network, network) < Min({n.length, length}) THEN 0
           ELSE IF n.length >= length THEN n.hot_count
           ELSE count_at(t, n.child[bit_at(network, n.length)], network, length)

\* Mutant: a node fills its whole edge, past the divergence.
counts_along_past(t, nid, value, counts, filled) ==
  IF nid = NO_NODE THEN counts
  ELSE [l \in 0..Bits |-> IF l \in (filled + 1)..t.slots[nid].length
                         THEN t.slots[nid].hot_count ELSE counts[l]]

\* The counts of every prefix of `value`, by length. One walk: a node fills
\* the lengths past `filled` down to the divergence, the rest stay 0.
RECURSIVE counts_along(_, _, _, _, _)
counts_along(t, nid, value, counts, filled) ==
  IF nid = NO_NODE THEN counts
  ELSE LET n == t.slots[nid]
           common == common_prefix_length(n.network, value)
           last == Min({n.length, common})
           new == [l \in 0..Bits |-> IF l \in (filled + 1)..last THEN n.hot_count ELSE counts[l]]
       IN  IF common < n.length \/ n.length = Bits THEN new
           ELSE counts_along(t, n.child[bit_at(value, n.length)], value, new,
                             Max({filled, last}))

\* Pre-order by link, branch 0 first: pairs <<id, length of the parent>>.
RECURSIVE dfs(_, _, _)
dfs(t, nid, parent_length) ==
  IF nid = NO_NODE THEN <<>>
  ELSE LET n == t.slots[nid]
       IN  <<<<nid, parent_length>>>> \o dfs(t, n.child[0], n.length) \o dfs(t, n.child[1], n.length)

Visits(t) == dfs(t, t.root, -1)

-----------------------------------------------------------------------------
(* Queries *)

hot_ip_count(t) == IF t.root = NO_NODE THEN 0 ELSE t.slots[t.root].hot_count

node_count(t) == live_count(t)

contains(t, value) == count_at(t, t.root, value, Bits) = 1

hot_count(t, prefix) == count_at(t, t.root, prefix.network, prefix.length)

ancestor_counts(t, value) == counts_along(t, t.root, value, [l \in 0..Bits |-> 0], -1)

\* The length of the longest prefix of `value` with a HOT address in it, or
\* -1 for none.
longest_matching_prefix(t, value) ==
  Max({l \in 0..Bits : ancestor_counts(t, value)[l] > 0} \union {-1})

\* Every compressed edge expanded into the prefixes it stands for.
edge_counts(t, visit) ==
  LET n == t.slots[visit[1]]
      lengths == IF n.hot_count <= 0 THEN {} ELSE (visit[2] + 1)..n.length
  IN  SetToSeq({<<prefix_of(n.network, l), n.hot_count>> : l \in lengths})

iter_prefix_counts(t) ==
  FoldLeft(LAMBDA acc, visit : acc \o edge_counts(t, visit), <<>>, Visits(t))

iter_nodes(t) == LET visits == Visits(t) IN [i \in DOMAIN visits |-> t.slots[visits[i][1]]]

iter_hot_addresses(t) ==
  LET leaves == SelectSeq(iter_nodes(t), LAMBDA n : n.length = Bits)
  IN  [i \in DOMAIN leaves |-> leaves[i].network]

-----------------------------------------------------------------------------
(* Mutation *)

\* Mutant: the parent's first child is replaced, whichever branch led here.
relink_first(t, parent, value, id) ==
  IF parent = NO_NODE THEN [t EXCEPT !.root = id]
  ELSE [t EXCEPT !.slots[parent].child[0] = id]

\* Point `parent`'s branch toward `value`, or the root, at `id`.
relink(t, parent, value, id) ==
  IF parent = NO_NODE THEN [t EXCEPT !.root = id]
  ELSE [t EXCEPT !.slots[parent].child[bit_at(value, t.slots[parent].length)] = id]

\* hot_count moved by `delta` on every node of `path`.
bumped(t, path, delta) ==
  [t EXCEPT !.slots = [id \in DOMAIN @ |->
     IF id \in Range(path) THEN [@[id] EXCEPT !.hot_count = @ + delta] ELSE @[id]]]

\* Split the edge above `nid` with a new internal node holding `nid` and a new
\* leaf for `value`.
split(t, parent, nid, value) ==
  LET common   == common_prefix_length(t.slots[nid].network, value)
      internal == next_id(t)
      t1       == allocate(t, masked(value, common), common, t.slots[nid].hot_count + 1)
      leaf     == next_id(t1)
      t2       == allocate(t1, value, Bits, 1)
      branch   == bit_at(value, common)
      t3       == [t2 EXCEPT !.slots[internal].child = (branch :> leaf) @@ (1 - branch :> nid)]
  IN  relink(t3, parent, value, internal)

\* A leaf for `value` whose count is not 1: add_hot_ip raises, changing nothing.
corrupt_leaf(t, value) ==
  /\ t.root # NO_NODE
  /\ ~contains(t, value)
  /\ LET n == t.slots[Last(path_from(t, t.root, value))]
     IN  common_prefix_length(n.network, value) >= n.length

add_hot_ip(t, value) ==
  IF contains(t, value) \/ corrupt_leaf(t, value) THEN t
  ELSE IF t.root = NO_NODE
  THEN [allocate(t, value, Bits, 1) EXCEPT !.root = next_id(t)]
  ELSE LET path   == path_from(t, t.root, value)
           above  == Front(path)
           parent == IF above = <<>> THEN NO_NODE ELSE Last(above)
       IN  bumped(split(t, parent, Last(path), value), above, 1)

\* Mutant: the parent of the removed leaf is decremented, the grandparents not.
remove_hot_ip_counts_parent(t, value) ==
  IF ~contains(t, value) THEN t
  ELSE LET path == path_from(t, t.root, value)
           leaf == Last(path)
           n    == Len(path)
       IN  IF n = 1 THEN release([t EXCEPT !.root = NO_NODE], leaf)
           ELSE LET parent  == path[n - 1]
                    branch  == bit_at(value, t.slots[parent].length)
                    sibling == t.slots[parent].child[1 - branch]
                    grand   == IF n >= 3 THEN path[n - 2] ELSE NO_NODE
                IN  release(release(bumped(relink(t, grand, value, sibling),
                                           <<parent>>, -1), leaf), parent)

\* Removing a leaf collapses its parent: the grandparent (or the root) takes
\* the sibling, and leaf and parent are released in that order.
remove_hot_ip(t, value) ==
  IF ~contains(t, value) THEN t
  ELSE LET path == path_from(t, t.root, value)
           leaf == Last(path)
           n    == Len(path)
       IN  IF n = 1 THEN release([t EXCEPT !.root = NO_NODE], leaf)
           ELSE LET parent  == path[n - 1]
                    branch  == bit_at(value, t.slots[parent].length)
                    sibling == t.slots[parent].child[1 - branch]
                    grand   == IF n >= 3 THEN path[n - 2] ELSE NO_NODE
                IN  release(release(bumped(relink(t, grand, value, sibling),
                                           SubSeq(path, 1, n - 2), -1), leaf), parent)

-----------------------------------------------------------------------------
(* check_patricia *)

\* The clauses for one node reached as child `branch` of `parent`, then its
\* subtrees. Strict extension is checked before the links are followed, so
\* the walk ends on any arena.
RECURSIVE shape_ok(_, _, _, _)
shape_ok(t, nid, parent, branch) ==
  /\ is_live(t, nid)
  /\ LET n == t.slots[nid]
         children == {n.child[b] : b \in 0..1}
     IN  /\ n.length <= Bits
         /\ n.network \in Addresses /\ masked(n.network, n.length) = n.network
         /\ parent # NO_NODE =>
              LET p == t.slots[parent]
              IN  /\ n.length > p.length
                  /\ common_prefix_length(n.network, p.network) >= p.length
                  /\ bit_at(n.network, p.length) = branch
         /\ \/ children = {NO_NODE} /\ n.length = Bits /\ n.hot_count = 1
            \/ /\ NO_NODE \notin children
               /\ \A b \in 0..1 : shape_ok(t, n.child[b], nid, b)
               /\ n.hot_count = t.slots[n.child[0]].hot_count + t.slots[n.child[1]].hot_count

\* The free list holds exactly the dead slots, each once.
check_free_list(t) ==
  /\ Range(t.free_ids) = {id \in DOMAIN t.slots : t.slots[id].length < 0}
  /\ Cardinality(Range(t.free_ids)) = Len(t.free_ids)

check_patricia(t) ==
  /\ t.root # NO_NODE => shape_ok(t, t.root, NO_NODE, 0)
  /\ check_free_list(t)
  /\ LET visits  == Visits(t)
         reached == [i \in DOMAIN visits |-> visits[i][1]]
         size    == Len(reached)
         leaves  == Cardinality({id \in Range(reached) : t.slots[id].length = Bits})
     IN  /\ Cardinality(Range(reached)) = size
         /\ size = live_count(t)
         /\ size # 0 => size = 2 * leaves - 1 /\ leaves = hot_ip_count(t)

\* The counts recomputed bottom-up from the HOT addresses, compared both ways
\* with the ones the trie reports; nothing is reported twice.
check_hot_counts(t) ==
  LET hot    == iter_hot_addresses(t)
      stored == iter_prefix_counts(t)
      under(p) == Cardinality({a \in Range(hot) : prefix_contains(p, a)})
  IN  /\ Cardinality(Range(hot)) = Len(hot) /\ hot_ip_count(t) = Len(hot)
      /\ Cardinality({c[1] : c \in Range(stored)}) = Len(stored)
      /\ Range(stored) = {<<p, under(p)>> : p \in {q \in AllPrefixes : under(q) > 0}}

\* No node or prefix of count zero survives.
check_no_orphaned_nodes(t) ==
  /\ \A c \in Range(iter_prefix_counts(t)) : c[2] > 0
  /\ \A n \in Range(iter_nodes(t)) : n.hot_count > 0
  /\ Len(iter_nodes(t)) = node_count(t)
  /\ (hot_ip_count(t) = 0) = (node_count(t) = 0)

\* The attribute records mirror the HOT set.
check_attribute_records(t, keys) ==
  /\ Cardinality(keys) = hot_ip_count(t)
  /\ keys = Range(iter_hot_addresses(t))
====
