SPECIFICATION Spec
CONSTANTS
    Workers = TRUE
    SingleLoop = FALSE
    KeepRef = FALSE
    ReuseFd = FALSE
    MaxFunctors = 3
INVARIANT DestroyedOnlyWhenSuspended
CHECK_DEADLOCK FALSE
