---- MODULE Addressing ----
(***************************************************************************)
(* Addresses and prefixes as fixed-width bit vectors: the integers the     *)
(* tries walk (hammertime.core.addressing). One address family; its width  *)
(* is the constant Bits (32 or 128 in the program).                        *)
(***************************************************************************)
EXTENDS Integers, FiniteSets, FiniteSetsExt

CONSTANT Bits

ASSUME BitsAssumption == Bits \in Nat \ {0}

Addresses == 0..(2^Bits - 1)

\* `value` with its last Bits - length bits zeroed: (value >> host) << host.
masked(value, length) == LET host == 2^(Bits - length) IN (value \div host) * host

\* The prefix of `value` that has `length` bits.
prefix_of(value, length) == [network |-> masked(value, length), length |-> length]

AllPrefixes == {prefix_of(v, l) : v \in Addresses, l \in 0..Bits}

\* Bit `index`, counted from the most significant one.
bit_at(value, index) == (value \div 2^(Bits - 1 - index)) % 2

\* The length of the run of leading bits `a` and `b` share.
common_prefix_length(a, b) == Max({l \in 0..Bits : masked(a, l) = masked(b, l)})

prefix_contains(prefix, value) == masked(value, prefix.length) = prefix.network

\* Whether `outer` contains `inner` or is it.
covers(outer, inner) ==
  /\ outer.length <= inner.length
  /\ prefix_contains(outer, inner.network)
====
