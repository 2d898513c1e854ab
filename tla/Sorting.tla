------------------------------- MODULE Sorting -------------------------------
(***************************************************************************)
(* What Array.prototype.sort does, by rank: an element has the place that  *)
(* the number of the elements before it gives it.                          *)
(***************************************************************************)
EXTENDS Integers, FiniteSets

\* The members of S in the order of `before`, a set of pairs that is total on S.
Sorted(S, before) ==
  [k \in 1 .. Cardinality(S) |->
     CHOOSE x \in S : Cardinality({y \in S : <<y, x>> \in before}) = k - 1]

\* The entries of s at the indices that `key` has, by key; those that tie stay in place.
StableSort(s, key) ==
  LET I == DOMAIN key
      before(i) == {j \in I : key[j] < key[i] \/ (key[j] = key[i] /\ j < i)}
  IN  [k \in 1 .. Cardinality(I) |-> s[CHOOSE i \in I : Cardinality(before(i)) = k - 1]]
=============================================================================
