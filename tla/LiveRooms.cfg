\* Tasks run in any order, and may fail.
CONSTANTS
    User = {u1, u2}
    NoUser = NoUser
    MaxSlot = 1
    MaxMatchId = 2
    MaxTasks = 3
    TasksFail = TRUE
SPECIFICATION LiveSpec
CONSTRAINTS Plain FewAtOnce
SYMMETRY Symmetry
INVARIANTS LiveTypeOK OnlyStaleGhosts NobodyMissing
