\* No live room holds the next id.
CONSTANTS
    User = {u1, u2, u3}
    NoUser = NoUser
    MaxSlot = 1
    MaxMatchId = 2
SPECIFICATION SpecFresh
CONSTRAINT OneEntry
SYMMETRY Symmetry
INVARIANT MappedIsSeated
PROPERTIES RoundsApart OnlyOwnSteps IsDirectory
