------------------------------- MODULE Ordered -------------------------------
(***************************************************************************)
(* The members of a finite set of numbers one after the other, and the     *)
(* elements of a sequence that are at such places, in their order.         *)
(***************************************************************************)
EXTENDS Integers, Sequences, FiniteSets

\* The members of S are counted from the least one on.
Rank(S, n) == Cardinality({k \in S : k <= n})
InOrder(S) == [k \in 1..Cardinality(S) |-> CHOOSE n \in S : Rank(S, n) = k]
Pick(s, S) == [k \in 1..Cardinality(S) |-> s[InOrder(S)[k]]]
=============================================================================
