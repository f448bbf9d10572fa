\* Chat, friends, images and beatmaps, one at a time.  The bounds end
\* behaviours, so that deadlock is not an error.
SPECIFICATION Spec
CHECK_DEADLOCK FALSE
SYMMETRY Symmetry

CONSTANTS
    People = {p1, p2}
    Channels = {osu}
    Osu = osu
    HistoryLimit = 1
    Handlers = {h1, h2}
    MaxSent = 2
    MaxLogins = 2
    Ids = {1, 2, 3}
    Registered = {1, 2}
    Tabs = {t1, t2}
    MaxClicks = 4
    Pictures = {"a", "b", "x"}
    Kind <- MCKind
    Extensions <- MCExtensions
    Images = {"i"}
    Junk = {"j"}
    Uploaders = {h1, h2}
    MaxRequests = 3
    Maps = {"m"}
    IdOf <- MCIdOf
    Askers = {h1, h2}
    MaxAsked = 4
    NoRow = NoRow

INVARIANTS
    TypeOK
    UploadShown
    MutualTold
    NoMessageMissed
    WarnedOnce

PROPERTY
    FoundStays
