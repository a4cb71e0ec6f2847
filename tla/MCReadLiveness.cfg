SPECIFICATION FairSpec
CONSTANTS
    c1 = c1
    c2 = c2
    k1 = k1
    k2 = k2
    Conns = {c1}
    Chunks = {k1, k2}
    ChunkSize = 2
    HighWater = 2
    HighWaterChunk = 1
    MaxArrive = 4
PROPERTIES CancelEnds 
CHECK_DEADLOCK FALSE
