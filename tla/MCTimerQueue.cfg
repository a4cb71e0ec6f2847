SPECIFICATION FairSpec
CONSTANTS
    Threads = {t1}
    t1 = t1
    MaxTimers = 2
    MaxCancels = 2
    MaxTime = 3
    Delays = {0, 2}
    Intervals = {1}
    PollTime = 3
INVARIANTS IndexesAgree OneOwner CancelIsFinal NoTimerLost
PROPERTIES NoOversleep EveryTimerRuns
CHECK_DEADLOCK FALSE
