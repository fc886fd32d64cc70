SPECIFICATION RelaySpec
CONSTANTS
    j1 = j1
    j2 = j2
    p1 = p1
    p2 = p2
    Jobs = {j1, j2}
    Pairs = {p1}
    Topups = {}
    NoOwner = NoOwner
    Foreign = Foreign
    InvalidJobs = {}
    Ladder <- MonadLadder
    MaxBumps = 1
    MaxNonce = 1
    MaxSerial = 2
    MaxEpoch = 1
    MaxEvents = 6
    TrustRejects = TRUE
    Immediate = FALSE
    Mishaps = {"reorg", "stale", "recover"}
    MaxMishaps = 1
SYMMETRY JobSymmetry
INVARIANTS
    TerminalIsTrue
    NothingForgotten
    NoDeadLetter
CHECK_DEADLOCK FALSE
