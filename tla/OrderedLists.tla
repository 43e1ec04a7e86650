---------------------------- MODULE OrderedLists ----------------------------
(***************************************************************************)
(* Sorting, said by what it gives: each element of a finite set stands     *)
(* behind as many as come before it.                                       *)
(***************************************************************************)
EXTENDS Naturals, FiniteSets

\* The pairs of before say which element comes before which.
Preceding(S, before, x) == {y \in S : <<y, x>> \in before}
Standing(S, before, k) == CHOOSE x \in S : Cardinality(Preceding(S, before, x)) = k - 1

Ordered(S, before) == [k \in 1 .. Cardinality(S) |-> Standing(S, before, k)]

Ascending(S) == Ordered(S, {p \in S \X S : p[1] < p[2]})
Descending(S) == Ordered(S, {p \in S \X S : p[2] < p[1]})
=============================================================================
