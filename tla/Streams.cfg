SPECIFICATION StreamsSpec
CONSTANTS
    LastRead = 3
    MaxQueued = 1
    LastFrame = 4
    MaxBatch = 2
INVARIANTS
    TcpInv
    WsInv
PROPERTIES
    EveryTaskEnds
CHECK_DEADLOCK FALSE
