SPECIFICATION StreamsSpec
CONSTANTS
    LastRead = 3
    MaxQueued = 1
    LastFrame = 4
    MaxBatch = 2
INVARIANT
    OneCallAtATime
CHECK_DEADLOCK FALSE
