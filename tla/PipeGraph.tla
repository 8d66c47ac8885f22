----------------------------- MODULE PipeGraph ------------------------------
(***************************************************************************)
(* Directed graphs over server ids: what "a delivery cycle" means, free of *)
(* any algorithm.  Pipes uses it for the guard of add_pipe and for the     *)
(* property; PipeSearch shows that the search in the code computes it.     *)
(***************************************************************************)
CONSTANT Nodes    \* server ids

\* No edge of E leaves S.
ClosedUnder(E, S) == \A n, m \in Nodes : (n \in S /\ <<n, m>> \in E) => m \in S

\* Every closed set with a in it has b in it: there is a path from a to b.
Reaches(E, a, b) == \A S \in SUBSET Nodes : (a \in S /\ ClosedUnder(E, S)) => b \in S

\* Every set of nodes has one without an edge into the set.  For finitely
\* many nodes: there is no cycle.
IsAcyclic(E) ==
    \A C \in SUBSET Nodes : C # {} => \E n \in C : \A m \in C : <<n, m>> \notin E
=============================================================================
