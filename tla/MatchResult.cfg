\* Three slots, three players: two in one team can tie with one in the other.
CONSTANTS
    User = {u1, u2, u3}
    Nobody = Nobody
    MaxSlot = 2
    Score <- Reports
SPECIFICATION Spec
SYMMETRY Symmetry
INVARIANTS TypeOK RightWinner RightSideWon
\* The computation ends.
CHECK_DEADLOCK FALSE
