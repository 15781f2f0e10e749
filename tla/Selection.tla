----------------------------- MODULE Selection ------------------------------
(* What is selected of a sequence by position: a Python comprehension with a *)
(* condition, which keeps the order of what it draws from; and a sort.       *)
EXTENDS Naturals, FiniteSets

\* What a sequence has at some of its positions, in their order.
Kept(seq, at) ==
  [k \in 1..Cardinality(at) |-> seq[CHOOSE i \in at : Cardinality({j \in at : j <= i}) = k]]

\* A set in the order of a key that no two of its members share.
SortedBy(S, key) ==
  [n \in 1..Cardinality(S) |-> CHOOSE x \in S : Cardinality({y \in S : key[y] < key[x]}) = n - 1]
=============================================================================
