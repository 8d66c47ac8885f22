--------------------------- MODULE MCRateLimiter ---------------------------
(* Model-checking instance of RateLimiter and of the gate inside it: one   *)
(* user and two network requests.                                          *)
EXTENDS RateLimiter

CONSTANTS u1, n1, n2

MCUsers == {u1}
MCTasks == {u1, n1, n2}
=============================================================================
