SPECIFICATION ConnectionsSpec
CONSTANTS
    p1 = p1
    p2 = p2
    p3 = p3
    h1 = h1
    Peers <- MCPeers
    Requested = 0
    Watched = p1
    Idle = 4
    Handlers <- MCHandlers
INVARIANTS
    AcceptInv
    WatchInv
PROPERTIES
    FiresOnlyWhenIdle
    KeepsAccepting
    VanishedPeerFreesSlot
CHECK_DEADLOCK FALSE
