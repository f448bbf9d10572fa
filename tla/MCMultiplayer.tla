---------------------------- MODULE MCMultiplayer ----------------------------
(***************************************************************************)
(* Multiplayer for TLC.  User ids are only ever compared, so they are      *)
(* model values and, for safety, symmetric.  Slots and room ids are        *)
(* ordered and stay numbers.                                               *)
(***************************************************************************)
EXTENDS Multiplayer, TLC

Symmetry == Permutations(User)

\* A bound for the run with fresh ids: at most one score frame or load report, and none
\* while there are two rooms; no handler reads them to decide who sits where.
OneEntry ==
    LET entries == Cardinality(match_last_scores) + Cardinality(match_loaded_users)
    IN  entries + Cardinality(DOMAIN matches) =< 2
=============================================================================
