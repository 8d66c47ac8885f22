--------------------------- MODULE MCConnections ----------------------------
(* Model-checking instance of Connections: three peers compete for the one *)
(* slot of a server that asked for a cap of zero.                          *)
EXTENDS Connections

CONSTANTS p1, p2, p3, h1

MCPeers == {p1, p2, p3}
MCHandlers == {h1}
=============================================================================
