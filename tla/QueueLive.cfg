SPECIFICATION QueueFairSpec
CONSTANTS
    j1 = j1
    j2 = j2
    j3 = j3
    w1 = w1
    w2 = w2
    Nobody = Nobody
    Jobs = {j1, j2}
    Workers = {w1}
    Window = 1
    MaxDepth = 9
    Mishaps = {"block", "deploy", "requeue", "void", "left", "halt"}
    MaxMishaps = 2
PROPERTY QueuedIsTaken
CHECK_DEADLOCK FALSE
