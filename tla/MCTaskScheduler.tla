-------------------------- MODULE MCTaskScheduler --------------------------
(* Model-checking instance of TaskScheduler: a dashboard ticker (tui) that *)
(* never closes and an MCP ticker (mcp) that may; two tasks that share a   *)
(* name, one of them recurring with a limit of two runs.                   *)
EXTENDS TaskScheduler

CONSTANTS tui, mcp, n1

MCTickers == {tui, mcp}
MCOwned == {mcp}
MCNames == {n1}
MCNameOf == [t \in TaskIds |-> n1]
MCMaxExecutions == [t \in TaskIds |-> 2]
MCScopes == {TaskIds}
=============================================================================
