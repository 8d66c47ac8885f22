----------------------------- MODULE MCAppState -----------------------------
(* Model-checking instance of AppState: three servers to pipe between; a   *)
(* server with a worker and a connection that has a worker of its own; a   *)
(* client with two workers; a session with two servers, a pipe, a wrapper  *)
(* and a task.                                                             *)
EXTENDS AppState, TLC

CONSTANTS s1, s2, s3, k1, d1, c1, w1, w2, e1, t1

MCNodes == {s1, s2, s3}
MCPermits == {k1}
MCDispatchers == {d1}

MCServers == {s1}
MCConns == {c1}
MCServerOf == c1 :> s1
MCWorkers == {w1, w2}
MCKeyOf == w1 :> s1 @@ w2 :> c1

MCClients == {d1}
MCClientOf == [w \in MCWorkers |-> d1]

MCInstances == {s1, s2}
=============================================================================
