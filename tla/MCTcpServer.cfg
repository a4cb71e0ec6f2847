SPECIFICATION FairSpec
CONSTANTS
    NumThreads = 2
    MaxConns = 3
INVARIANTS LiveIsMapped EstablishedFirst NoStrayFunctor
PROPERTIES AcceptedIsStarted ClosedLeavesMap DestructorReturns
CHECK_DEADLOCK FALSE
