SPECIFICATION QuestionsSpec
CONSTANTS
    r1 = r1
    r2 = r2
    r3 = r3
    a1 = a1
    a2 = a2
    o1 = o1
    o2 = o2
    x1 = x1
    x2 = x2
    None = None
    Requests <- MCPair
    Agents <- MCAgents
    Events <- MCRequests
    Operators <- MCOperators
    ScriptEvents <- MCPair
    Procs <- MCProcs
    Noisy <- MCNoisy
    MaxUnread = 1
INVARIANTS
    QueueInv
    PendingInv
    ScriptInv
PROPERTIES
    ImplementsRendezvous
    PendingImplementsRendezvous
    EventsGoOn
CHECK_DEADLOCK FALSE
