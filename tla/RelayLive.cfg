SPECIFICATION RelayFairSpec
CONSTANTS
    j1 = j1
    j2 = j2
    p1 = p1
    p2 = p2
    Jobs = {j1}
    Pairs = {p1}
    Topups = {}
    NoOwner = NoOwner
    Foreign = Foreign
    InvalidJobs = {}
    Ladder <- GethLadder
    MaxBumps = 1
    MaxNonce = 2
    MaxSerial = 3
    MaxEpoch = 1
    MaxEvents = 6
    TrustRejects = TRUE
    Immediate = FALSE
    Mishaps = {"lost", "drop", "foreign", "stale", "fee", "cap", "reorg"}
    MaxMishaps = 2
PROPERTIES
    JobEndsOrAlerts
    RecoveryRunsIfSeen
CHECK_DEADLOCK FALSE
