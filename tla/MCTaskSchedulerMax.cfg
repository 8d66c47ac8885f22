SPECIFICATION Spec
CONSTANTS
    tui = tui
    mcp = mcp
    n1 = n1
    Tickers <- MCTickers
    Owned <- MCOwned
    LastTask = 1
    Names <- MCNames
    NameOf <- MCNameOf
    OneShot = {}
    MaxExecutions <- MCMaxExecutions
    Scopes <- MCScopes
    MaxFailures = 2
    MaxRuns = 3
INVARIANT
    ExecutionsWithinMax
CHECK_DEADLOCK FALSE
