\* Tasks run in any order, and none fails.
CONSTANTS
    User = {u1, u2}
    NoUser = NoUser
    MaxSlot = 1
    MaxMatchId = 2
    MaxTasks = 3
    TasksFail = FALSE
SPECIFICATION LiveSpec
CONSTRAINT Plain
INVARIANT OnlyActiveRooms
