-------------------------------- MODULE Orders --------------------------------
(***************************************************************************)
(* The elements of a finite set of naturals in their order, and the part   *)
(* of a sequence at a set of places: what SetToSortSeq and SelectSeq give, *)
(* without recursion.                                                      *)
(***************************************************************************)
EXTENDS Naturals, Sequences, FiniteSets

\* Sequence s has the elements of S, once each and in their order
IsInOrder(s, S) ==
    /\ {s[i] : i \in DOMAIN s} = S
    /\ \A i, j \in DOMAIN s : i < j => s[i] < s[j]

Smaller(S, x) == {y \in S : y < x}

InOrder(S) == [i \in 1..Cardinality(S) |-> CHOOSE x \in S : Cardinality(Smaller(S, x)) = i - 1]

\* The part of sequence s at the places P
Selected(s, P) == [i \in 1..Cardinality(P) |-> s[InOrder(P)[i]]]
===============================================================================
