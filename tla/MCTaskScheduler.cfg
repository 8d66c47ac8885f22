SPECIFICATION FairSpec
CONSTANTS
    tui = tui
    mcp = mcp
    n1 = n1
    Tickers <- MCTickers
    Owned <- MCOwned
    LastTask = 2
    Names <- MCNames
    NameOf <- MCNameOf
    OneShot = {1}
    MaxExecutions <- MCMaxExecutions
    Scopes <- MCScopes
    MaxFailures = 2
    MaxRuns = 3
INVARIANTS
    ScheduleInv
    OneExecution
    RemovedIsAborted
PROPERTIES
    DueTaskRuns
CHECK_DEADLOCK FALSE
