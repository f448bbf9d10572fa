\* One user, one submission at a time, two plays in mania.
CONSTANTS
    User = {u1}
    Request = {q1}
    Play <- ManiaPlays
SPECIFICATION Spec
INVARIANT BestOfUser
