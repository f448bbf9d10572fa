\* Room ids wrap around onto live rooms.
CONSTANTS
    User = {u1, u2, u3}
    NoUser = NoUser
    MaxSlot = 2
    MaxMatchId = 1
SPECIFICATION Spec
SYMMETRY Symmetry
INVARIANTS TypeOK SlotsConsistent OneSeat HostIsPlayer PlayingInRound ScoresOfLiveRooms
