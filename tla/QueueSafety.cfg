SPECIFICATION QueueSpec
CONSTANTS
    j1 = j1
    j2 = j2
    j3 = j3
    w1 = w1
    w2 = w2
    Nobody = Nobody
    Jobs = {j1, j2}
    Workers = {w1, w2}
    Window = 2
    MaxDepth = 9
    Mishaps = {"block", "requeue", "void", "unsure", "halt"}
    MaxMishaps = 2
SYMMETRY Symmetry
INVARIANT NoLostWakeup
INVARIANT QueuedHeldOnce
CHECK_DEADLOCK FALSE
