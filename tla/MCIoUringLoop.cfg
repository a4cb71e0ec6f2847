SPECIFICATION FairSpec
CONSTANTS
    t1 = t1
    t2 = t2
    Threads = {t1, t2}
    MaxFunctors = 3
    QuitBeforeLoop = FALSE
INVARIANTS NoLostWakeup NoLostQuit RunInOrder
PROPERTIES ImplementsExecutor QuitEndsLoop
CHECK_DEADLOCK FALSE
