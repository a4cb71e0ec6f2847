SPECIFICATION FairSpec
CONSTANTS
    Workers = TRUE
    SingleLoop = FALSE
    KeepRef = FALSE
    ReuseFd = TRUE
    MaxFunctors = 3
INVARIANTS RequestsHeld OneRequestEach NoStuckCoroutine
PROPERTY ClosedIsReleased
CHECK_DEADLOCK FALSE
