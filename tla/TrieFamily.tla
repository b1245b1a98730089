---- MODULE TrieFamily ----
(***************************************************************************)
(* What the trie service keeps for one address family: the compressed trie *)
(* with the per-IP attribute records (FamilyState, ip_attributes.py), next *)
(* to the reference trie the code is tested against, and the prefix        *)
(* metadata store. Both tries see every call; both implement HotTrie.      *)
(***************************************************************************)
EXTENDS PatriciaTrie, BinaryTrie, PrefixMetadata
LOCAL INSTANCE SequencesExt

CONSTANTS
  Documents,  \* attribute documents a HotIpAdded may carry, by address
  TextLength, \* the length of a document's canonical text; -1: rejected
  Default,    \* the document that stands for no attributes (None)
  Counts,     \* window counts a HotIpAdded may carry
  Metadata    \* metadata documents an operator may declare

ASSUME DocumentAssumption ==
  /\ \A a \in Addresses : Documents[a] \subseteq DOMAIN TextLength
  /\ TextLength[Default] >= 0
  /\ Counts \subseteq Nat

VARIABLES
  trie,         \* the compressed trie
  oracle,       \* the reference trie
  records,      \* address -> [text, request_count]
  bytes,        \* serialized_bytes
  changed,      \* the answer of the last add or remove
  declarations  \* prefix -> metadata document

vars == <<trie, oracle, records, bytes, changed, declarations>>

Init ==
  /\ trie = empty_trie /\ oracle = empty_binary
  /\ records = <<>> /\ bytes = 0 /\ changed = FALSE
  /\ declarations = <<>>

-----------------------------------------------------------------------------
(* Attribute records *)

stored_length(a) == IF a \in DOMAIN records THEN TextLength[records[a].text] ELSE 0

\* _commit: the whole record is replaced and the byte total moved.
commit(a, text, request_count) ==
  /\ records' = (a :> [text |-> text, request_count |-> request_count]) @@ records
  /\ bytes' = bytes + TextLength[text] - stored_length(a)

discard(a) ==
  /\ records' = [x \in DOMAIN records \ {a} |-> records[x]]
  /\ bytes' = bytes - stored_length(a)

\* The text stored for a document: one the validator rejects is retried as
\* the default (_apply_added).
accepted(document) == IF TextLength[document] >= 0 THEN document ELSE Default

-----------------------------------------------------------------------------
(* The upward view *)

prefix_stats(prefix) == [prefix |-> prefix, hot_count |-> hot_count(trie, prefix)]

aggregate(parent, parts) ==
  [prefix |-> parent, hot_count |-> MapThenSumSet(LAMBDA s : s.hot_count, parts)]

-----------------------------------------------------------------------------
(* The operations *)

\* The record is replaced whatever the trie answered.
apply_hot_ip_added(a, document, count) ==
  /\ trie' = add_hot_ip(trie, a) /\ oracle' = binary_add(oracle, a)
  /\ changed' = ~contains(trie, a)
  /\ commit(a, accepted(document), count)
  /\ UNCHANGED declarations

apply_hot_ip_removed(a) ==
  /\ trie' = remove_hot_ip(trie, a) /\ oracle' = binary_remove(oracle, a)
  /\ changed' = contains(trie, a)
  /\ discard(a)
  /\ UNCHANGED declarations

\* clear() of the tries and the records.
Clear ==
  /\ trie' = empty_trie /\ oracle' = empty_binary
  /\ records' = <<>> /\ bytes' = 0
  /\ UNCHANGED <<changed, declarations>>

Declare(prefix, document) ==
  /\ declarations' = declare(declarations, prefix, document)
  /\ UNCHANGED <<trie, oracle, records, bytes, changed>>

Revoke(prefix) ==
  /\ prefix \in DOMAIN declarations
  /\ declarations' = revoke(declarations, prefix)
  /\ UNCHANGED <<trie, oracle, records, bytes, changed>>

TrieNext ==
  \/ \E a \in Addresses, c \in Counts : \E d \in Documents[a] : apply_hot_ip_added(a, d, c)
  \/ \E a \in Addresses : apply_hot_ip_removed(a)
  \/ Clear

MetadataNext ==
  \E p \in AllPrefixes : Revoke(p) \/ \E m \in Metadata : Declare(p, m)

Next == TrieNext \/ MetadataNext

Spec == Init /\ [][Next]_vars

-----------------------------------------------------------------------------
(* Properties *)

HotAddresses == Range(iter_hot_addresses(trie))

Beneath(prefix) == Cardinality({a \in HotAddresses : prefix_contains(prefix, a)})

\* The compressed trie stays well formed through every sequence of calls: the
\* repository's own representation check passes, so no node is leaked, shared
\* or reachable after its release, and every internal node has two children
\* (check_patricia, _check_free_list, check_no_orphaned_nodes).
ShapeSound == check_patricia(trie) /\ check_no_orphaned_nodes(trie)

\* Every count a reader of the compressed trie can ask for is the number of
\* HOT addresses beneath the prefix, whichever of the walks answers, and the
\* counts of the parts of a prefix at any length add up to its own
\* (check_hot_counts, aggregate; _count_at, _counts_along,
\* iter_prefix_counts, longest_matching_prefix).
CountsExact ==
  /\ check_hot_counts(trie)
  /\ \A p \in AllPrefixes :
       /\ hot_count(trie, p) = Beneath(p)
       /\ \A l \in p.length..Bits :
            LET parts == {q \in AllPrefixes : q.length = l /\ covers(p, q)}
            IN  aggregate(p, {prefix_stats(q) : q \in parts}) = prefix_stats(p)
  /\ \A a \in Addresses :
       /\ ancestor_counts(trie, a) = [l \in 0..Bits |-> Beneath(prefix_of(a, l))]
       /\ longest_matching_prefix(trie, a) =
            Max({l \in 0..Bits : Beneath(prefix_of(a, l)) > 0} \union {-1})

\* The two representations agree on every answer, and the reference trie keeps
\* exactly the nodes of positive count and counts them right (section 27,
\* check_no_orphaned_nodes).
Equivalent ==
  /\ HotAddresses = binary_hot_addresses(oracle)
  /\ hot_ip_count(trie) = binary_hot_ip_count(oracle)
  /\ \A p \in AllPrefixes : hot_count(trie, p) = binary_hot_count(oracle, p)
  /\ \A a \in Addresses :
       /\ ancestor_counts(trie, a) = binary_ancestor_counts(oracle, a)
       /\ longest_matching_prefix(trie, a) = binary_longest_match(oracle, a)
  /\ \A p \in DOMAIN oracle.node : oracle.node[p] > 0
  /\ oracle.node_count = Cardinality(DOMAIN oracle.node)
  /\ oracle.node_count = Len(iter_prefix_counts(trie))

\* Every query of either representation is answered by the HOT set alone.
QueriesExact == CountsExact /\ Equivalent

\* The attribute records mirror the HOT set: one record per HOT address, none
\* without one, and the byte total is the sum of their texts
\* (check_attribute_records, serialized_bytes).
RecordsMirror ==
  /\ check_attribute_records(trie, DOMAIN records)
  /\ bytes = MapThenSumSet(LAMBDA a : TextLength[records[a].text], DOMAIN records)

\* The representation checks the repository has of its own, check_patricia,
\* check_no_orphaned_nodes and check_attribute_records, pass after every
\* sequence of calls, on the trie and on the records beside it.
ChecksHold == ShapeSound /\ RecordsMirror

\* No sequence of accepted declarations makes a reader fail: the fold down any
\* path meets one kind per key (declare, _check_path).
FoldTotal ==
  \A p \in AllPrefixes : \A k \in DOMAIN effective_for_prefix(declarations, p) :
    effective_for_prefix(declarations, p)[k] # MIXED


\* The compressed trie implements the set of HOT addresses: each call changes
\* the leaves as the set changes and answers whether it did.
CompressedSet == INSTANCE HotTrie WITH hot <- HotAddresses
CompressedIsSet == CompressedSet!Spec

\* The reference trie implements it too, with the same answers.
ReferenceSet == INSTANCE HotTrie WITH hot <- binary_hot_addresses(oracle)
ReferenceIsSet == ReferenceSet!Spec

\* Both tries implement the one specification of a HOT set.
ImplementSet == CompressedIsSet /\ ReferenceIsSet
====
