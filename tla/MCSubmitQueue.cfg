SPECIFICATION SqFairSpec
CONSTANTS
    Contexts = {acceptor, read1, write1, read2, write2}
    acceptor = acceptor
    read1 = read1
    write1 = write1
    read2 = read2
    write2 = write2
    eventfd = eventfd
    Wakeup = eventfd
    RingSize = 3
    LowWater = 1
    PerTurn = 4
    MaxDrain = 2
INVARIANTS SqeAvailable QueuedOnce
PROPERTIES WaitingReachesKernel
CHECK_DEADLOCK FALSE
