SPECIFICATION OutboxFairSpec
CONSTANTS
    j1 = j1
    j2 = j2
    h1 = h1
    Jobs = {j1}
    Hosts = {h1}
    HostOf <- OneHost
    MaxSeq = 2
    MaxConcurrency = 2
    MaxPerHost = 1
    MaxAttempts = 2
    Threshold = 2
    Mishaps = {"redeliver", "slow", "store", "restart"}
    MaxMishaps = 3
INVARIANT OutboxTypeOK
INVARIANT OutboxInv
INVARIANT NeverLost
INVARIANT SeenInOrder
INVARIANT SlotsAreExact
PROPERTY EventSettles
CHECK_DEADLOCK FALSE
