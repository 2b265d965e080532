------------------------------ MODULE Sublists ------------------------------
(* The n-th of a set of numbers, and the items of a list with these numbers. *)
EXTENDS Naturals, SequencesExt

Nth(I, n) == CHOOSE i \in I : Cardinality({j \in I : j < i}) = n - 1

Sublist(list, I) == [n \in 1..Cardinality(I) |-> list[Nth(I, n)]]
=============================================================================
