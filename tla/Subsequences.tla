---------------------------- MODULE Subsequences ----------------------------
(* Parts of sequences by their positions, and sorting, in a form that      *)
(* proofs can use.                                                         *)
EXTENDS Integers, Sequences, FiniteSets

\* f enumerates the numbers of I in increasing order.
Enumerates(f, I) ==
  /\ \A k, l \in 1..Cardinality(I) : k < l => f[k] < f[l]
  /\ \A i \in I : \E k \in 1..Cardinality(I) : f[k] = i

InOrder(I) == CHOOSE f \in [1..Cardinality(I) -> I] : Enumerates(f, I)

\* The elements of s at the positions I, in their order.
ElementsAt(s, I) == [k \in 1..Cardinality(I) |-> s[InOrder(I)[k]]]

\* The positions that the relation R puts before i.
Before(R, n, i) == {j \in 1..n : <<j, i>> \in R}

\* s sorted, where R orders its positions: in place k is the one that k - 1 are before.
SortedBy(s, R) ==
  [k \in 1..Len(s) |->
     s[CHOOSE i \in 1..Len(s) : Cardinality(Before(R, Len(s), i)) = k - 1]]
=============================================================================
