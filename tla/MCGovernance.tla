---------------------------- MODULE MCGovernance ----------------------------
(* Governance for TLC.                                                     *)
EXTENDS Governance, TLC

CONSTANTS ann, bob, con, c1, c2, w1, w2, w3

Symmetry == Permutations(Workers) \cup Permutations(Cases)
=============================================================================
