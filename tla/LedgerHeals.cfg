SPECIFICATION LedgerFairSpec
CONSTANTS
    Start = 4
    Costs = {1, 2}
    TopupAmount = 2
    Delayed = TRUE
    Modes = {FALSE}
    StampedLag = 1
    PlainLag = 1
    MaxTxs = 1
    MaxTopups = 1
    MaxRefills = 0
    MaxEmpty = 0
    MaxReads = 0
    MaxBadReads = 1
    MaxRecoveries = 1
    MaxRestarts = 1
PROPERTY LedgerConverges
