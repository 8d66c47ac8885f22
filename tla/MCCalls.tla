------------------------------ MODULE MCCalls -------------------------------
(* Model-checking instance of Calls: three calls to a client and a channel *)
(* of two, two calls to a peer and a channel of one, three MCP requests.   *)
EXTENDS Calls

CONSTANTS k1, k2, k3

MCCallers == {k1, k2, k3}
MCPair == {k1, k2}
=============================================================================
