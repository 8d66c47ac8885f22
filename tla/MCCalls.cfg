SPECIFICATION CallsSpec
CONSTANTS
    k1 = k1
    k2 = k2
    k3 = k3
    Callers <- MCCallers
    Capacity = 2
    PeerCallers <- MCPair
    PeerCapacity = 1
    Requests <- MCCallers
    LastDrop = 2
INVARIANTS
    CommandInv
    PeerInv
    DrainInv
PROPERTIES
    CallsSettle
    DrainEnds
CHECK_DEADLOCK FALSE
