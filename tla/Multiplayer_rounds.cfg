\* Clients that stay to the end of their rounds.
CONSTANTS
    User = {u1, u2, u3}
    NoUser = NoUser
    MaxSlot = 1
    MaxMatchId = 1
SPECIFICATION SpecCommitted
PROPERTIES RoundEnds
