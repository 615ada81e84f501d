----------------------------- MODULE Selections -----------------------------
(***************************************************************************)
(* The elements of a sequence at given places, in their order: what a       *)
(* filter keeps.  SelectSeq says the same by recursion; this is a closed    *)
(* form, so that what a filter keeps can be proved for every sequence.      *)
(***************************************************************************)
EXTENDS Naturals, Sequences, FiniteSets

\* The places up to i, and the n-th of them.
Upto(keep, i) == {j \in keep : j <= i}
Nth(keep, n) == CHOOSE i \in keep : Cardinality(Upto(keep, i)) = n

Chosen(s, keep) == [n \in 1..Cardinality(keep) |-> s[Nth(keep, n)]]
=============================================================================
