SPECIFICATION FairSpec
CONSTANTS
    c1 = c1
    c2 = c2
    w1 = w1
    w2 = w2
    w3 = w3
    Callers = {c1, c2}
    Workers = {w1, w2, w3}
    MaxSize = 2
    MaxTasks = 5
    TornSize = FALSE
PROPERTY EveryTaskResumed
CHECK_DEADLOCK FALSE
