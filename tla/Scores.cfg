\* Two users, two submissions at once, three plays.
CONSTANTS
    User = {u1, u2}
    Request = {q1, q2}
    Play <- Plays
SPECIFICATION Spec
CONSTRAINTS FewScores OneBlank
SYMMETRY Symmetry
INVARIANTS TypeOK CountedOnce RankedScoreShown BestShown RankIsPlace
