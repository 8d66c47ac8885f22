---------------------------- MODULE MCQuestions -----------------------------
(* Model-checking instances of Questions: two requests and two tool calls  *)
(* of the agent, three parked events and two operators, two dispatches and *)
(* two processes of a resident script, in one of which it prints; and one  *)
(* of each.                                                                *)
EXTENDS Questions

CONSTANTS r1, r2, r3, a1, a2, o1, o2, x1, x2

MCRequests == {r1, r2, r3}
MCPair == {r1, r2}
MCAgents == {a1, a2}
MCOperators == {o1, o2}
MCProcs == {x1, x2}
MCNoisy == {x2}

MCOne == {r1}
MCOneAgent == {a1}
MCOneOperator == {o1}
=============================================================================
