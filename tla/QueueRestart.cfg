SPECIFICATION QueueSpec
CONSTANTS
    j1 = j1
    j2 = j2
    j3 = j3
    w1 = w1
    w2 = w2
    Nobody = Nobody
    Jobs = {j1, j2}
    Workers = {w1}
    Window = 1
    MaxDepth = 9
    Mishaps = {"insert", "deploy", "restart", "left", "requeue", "void", "cancel", "store", "reorg", "recover", "late"}
    MaxMishaps = 2
SYMMETRY Symmetry
INVARIANT QueueTypeOK
INVARIANT QueuedHeldOnce
INVARIANT KnownIsTracked
PROPERTY OverIsOver
CHECK_DEADLOCK FALSE
