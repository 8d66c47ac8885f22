SPECIFICATION FairSpec
CONSTANTS
    r1 = r1
    r2 = r2
    r3 = r3
    Requests <- MCRequests
    ConfiguredThreshold = 2
    Cooldown = 2
    CounterMax = 3
    MaxFaults = 5
    MaxOverrides = 2
INVARIANTS
    ProbeIsBacked
PROPERTIES
    ImplementsBreakerSpec
    Recovers
