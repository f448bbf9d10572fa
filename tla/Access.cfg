\* The rate limiter, accounts and machines, one at a time.  The bounds end
\* behaviours, so that deadlock is not an error.
SPECIFICATION Spec
CHECK_DEADLOCK FALSE
CONSTRAINTS FewSessions FewRows
SYMMETRY Symmetry

CONSTANTS
    Clients = {c1}
    Tiers = {"general", "sensitive"}
    Rpm <- MCRpm
    Minute = 4
    IdleMax = 5
    Jumps = {1, 4}
    MaxClock = 10
    Nothing = Nothing
    Users = {u1}
    Words = {"w", " w"}
    WordLength <- MCWordLength
    Trimmed <- MCTrimmed
    Texts <- MCTexts
    Browsers = {b1, b2}
    AutoRegister = TRUE
    TTL = 1
    MaxTime = 2
    MaxHashes = 2
    MaxSessions = 2
    MaxCrashes = 1
    NoAccount = NoAccount
    Names = {"a", "b", "[x] b"}
    Clean <- MCClean
    Hardware <- MCHardware
    Logins = {l1, l2}
    RegisterOnLogin = TRUE
    MaxPerMachine = 1
    Unknown = Unknown

INVARIANTS
    TypeOK
    PasswordSignsIn
    SignedOutStaysOut
    AccountsPerMachine
    RetryIsHonest

PROPERTY
    NeverForgets
