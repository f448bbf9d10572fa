---------------------------- MODULE MCMatchResult ----------------------------
(***************************************************************************)
(* MatchResult for TLC.  User ids are only compared; scores and slots are  *)
(* ordered.                                                                *)
(***************************************************************************)
EXTENDS MatchResult, TLC

Symmetry == Permutations(User)

\* A debt, nothing, and two sums that add up to each other.
Reports == {-1, 0, 1, 2}
=============================================================================
