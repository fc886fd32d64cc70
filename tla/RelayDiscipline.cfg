SPECIFICATION RelaySpec
CONSTANTS
    j1 = j1
    j2 = j2
    p1 = p1
    p2 = p2
    Jobs = {j1}
    Pairs = {p1}
    Topups = {}
    NoOwner = NoOwner
    Foreign = Foreign
    InvalidJobs = {}
    Ladder <- GethLadder
    MaxBumps = 1
    MaxNonce = 1
    MaxSerial = 3
    MaxEpoch = 1
    MaxEvents = 6
    TrustRejects = TRUE
    Immediate = FALSE
    Mishaps = {"reorg", "stale", "foreign", "drop", "fee", "bind", "void", "admin", "recover"}
    MaxMishaps = 2
INVARIANTS
    ExecutedAtMostOnce
PROPERTIES
    DriverKeepsDiscipline
CHECK_DEADLOCK FALSE
