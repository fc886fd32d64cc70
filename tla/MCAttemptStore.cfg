SPECIFICATION StoreSpec
CONSTANTS
    j1 = j1
    j2 = j2
    Jobs = {j1, j2}
    Topups = {t1}
    Pairs = {p1}
    NoOwner = NoOwner
    MaxNonce = 1
    MaxSerial = 2
    MaxEpoch = 1
    MaxEvents = 3
SYMMETRY JobSymmetry
INVARIANTS
    TypeOK
    NonceBelongsToOwner
    OneWinnerPerNonce
    SettlementApplies
    JobFollowsAttempts
    InFlightIsRecoverable
    GasCountedOnce
    RollupCountsTerminalJobs
    OutboxTellsTheStory
PROPERTIES
    TerminalIsForever
    KeepsContract
CHECK_DEADLOCK FALSE
