SPECIFICATION LimiterFairSpec
CONSTANTS
    u1 = u1
    n1 = n1
    n2 = n2
    Tasks <- MCTasks
    Users <- MCUsers
    Limits = {0, 2}
    InitialLimit = 1
    MaxResizes = 2
    MaxQueued = 1
    TokenLimit = 1
INVARIANTS
    NoLostWakeup
    LimiterInv
    BudgetOvershootBounded
PROPERTIES
    NoOvertaking
    Served
    NetworkReturns
