SPECIFICATION Spec
CONSTANTS
    MaxSlices = 2
    HighWater = 2
    SendLens = {0, 1, 2}
    MaxBytes = 6
    MaxSends = 6
    EmptyRuns = TRUE
    RetryErrors = TRUE
INVARIANT NonEmptyBatch
CHECK_DEADLOCK FALSE
