SPECIFICATION RelaySpec
CONSTANTS
    j1 = j1
    j2 = j2
    p1 = p1
    p2 = p2
    Jobs = {j1, j2}
    Pairs = {p1, p2}
    Topups = {}
    NoOwner = NoOwner
    Foreign = Foreign
    InvalidJobs = {j2}
    Ladder <- MonadLadder
    MaxBumps = 1
    MaxNonce = 1
    MaxSerial = 2
    MaxEpoch = 1
    MaxEvents = 6
    TrustRejects = TRUE
    Immediate = TRUE
    Mishaps = {"lost", "drop", "foreign", "void", "funds", "requeue", "admin"}
    MaxMishaps = 2
SYMMETRY PairSymmetry
INVARIANTS
    RelayTypeOK
    ExecutedAtMostOnce
    TerminalIsTrue
    NetworkIsRecorded
    NonceIsNext
    NothingForgotten
CHECK_DEADLOCK FALSE
