------------------------------- MODULE MCTeam -------------------------------
(***************************************************************************)
(* Instances of Team and Invitations for TLC.                              *)
(***************************************************************************)
EXTENDS Invitations

CONSTANTS ann, bob, w1, w2

Symmetry == Permutations(Users) \cup Permutations(Workers)
=============================================================================
