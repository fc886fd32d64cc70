SPECIFICATION LedgerSpec
CONSTANTS
    Start = 4
    Costs = {1, 2}
    TopupAmount = 2
    Delayed = FALSE
    Modes = {TRUE, FALSE}
    StampedLag = 2
    PlainLag = 0
    MaxTxs = 2
    MaxTopups = 0
    MaxRefills = 1
    MaxEmpty = 1
    MaxReads = 1
    MaxBadReads = 1
    MaxRecoveries = 1
    MaxRestarts = 0
INVARIANT LedgerTypeOK
INVARIANT SpendableIsReal
