------------------------------- MODULE Lists --------------------------------
(***************************************************************************)
(* Sorted lists of the code, for the prover as well as for TLC:            *)
(* what takes an operator and is defined by recursion (SortSeq, SelectSeq) *)
(* is beyond the prover.                                                   *)
(***************************************************************************)
EXTENDS Integers, Sequences, FiniteSets, SequencesExt

\* The elements of S in a strict total order: as many come before the k-th as
\* there are places before it.
InOrder(S, before(_, _)) ==
  [k \in 1..Cardinality(S) |->
     CHOOSE x \in S : Cardinality({y \in S : before(y, x)}) = k - 1]

\* The elements of a list at some places, in their order.
Picked(s, places) == LET order == InOrder(places, <) IN [k \in DOMAIN order |-> s[order[k]]]
=============================================================================
