SPECIFICATION FairSpec
CONSTANTS
    MaxSlices = 2
    HighWater = 2
    SendLens = {0, 1, 2}
    MaxBytes = 6
    MaxSends = 6
    EmptyRuns = FALSE
    RetryErrors = FALSE
INVARIANTS SqeHeld BatchIsFront RetrieveIsLoop
PROPERTIES WriterResumes ImplementsByteStream
CHECK_DEADLOCK FALSE
