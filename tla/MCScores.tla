------------------------------- MODULE MCScores -------------------------------
(***************************************************************************)
(* Scores for TLC.  Users and requests are only compared.                  *)
(***************************************************************************)
EXTENDS Scores, TLC

Symmetry == Permutations(User) \cup Permutations(Request)

A(checksum, map, mode, score, pp) ==
    [checksum |-> checksum, map |-> map, mode |-> mode, relax |-> FALSE, score |-> score, pp |-> pp]

\* Two scores on a map, of which one is higher and the other has more points, and
\* another one.
Plays == {A(1, "m", "osu", 2, 1), A(2, "m", "osu", 1, 2), A(3, "n", "mania", 1, 1)}

\* A bound: three scores, of either user or both.
FewScores == Cardinality(scores) =< 3

\* A bound: one row that no submission has written yet.
OneBlank == Cardinality({k \in DOMAIN stats : stats[k].play_count = 0}) =< 1

\* Two scores in mania.
ManiaPlays == {A(1, "m", "mania", 1, 1), A(2, "n", "mania", 2, 2)}
=============================================================================
