SPECIFICATION RelaySpec
CONSTANTS
    j1 = j1
    j2 = j2
    p1 = p1
    p2 = p2
    Jobs = {j1}
    Pairs = {p1}
    Topups = {}
    NoOwner = NoOwner
    Foreign = Foreign
    InvalidJobs = {}
    Ladder <- GethLadder
    MaxBumps = 1
    MaxNonce = 1
    MaxSerial = 2
    MaxEpoch = 0
    MaxEvents = 6
    TrustRejects = TRUE
    Immediate = FALSE
    Mishaps = {"lost", "stale"}
    MaxMishaps = 2
INVARIANTS
    ExecutedAtMostOnce
CHECK_DEADLOCK FALSE
