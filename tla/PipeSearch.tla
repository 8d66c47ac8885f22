----------------------------- MODULE PipeSearch -----------------------------
(***************************************************************************)
(* would_create_cycle of src/pipe/mod.rs: the search that decides whether  *)
(* a new pipe from -> to would close a cycle among the existing pipes.     *)
(*                                                                         *)
(* One step is one round of the while loop: a node is popped and the pipes *)
(* that leave it are looked at.  A node enters the stack once, when it is  *)
(* first seen, so the stack is a set here; the order in which it is popped *)
(* is left open and cannot matter.                                         *)
(***************************************************************************)
EXTENDS PipeGraph

VARIABLES existing,  \* the pipes, as pairs <<from, to>>
          from, to,  \* the pipe that is asked about
          stack,
          seen,
          answer     \* "none" while the loop runs

vars == <<existing, from, to, stack, seen, answer>>

TypeOK ==
    /\ existing \in SUBSET (Nodes \X Nodes)
    /\ from \in Nodes /\ to \in Nodes
    /\ stack \in SUBSET Nodes
    /\ seen \in SUBSET Nodes
    /\ answer \in {"none", "cycle", "free"}

\* The question is asked and the self-loop answered at once.
Init ==
    /\ existing \in SUBSET {e \in Nodes \X Nodes : e[1] # e[2]}
    /\ from \in Nodes /\ to \in Nodes
    /\ stack = {to}
    /\ seen = {to}
    /\ answer = IF from = to THEN "cycle" ELSE "none"

Sources(n) == {m \in Nodes : <<m, n>> \in existing}
Targets(n) == {m \in Nodes : <<n, m>> \in existing}

\* The targets that are looked at for the first time.
Unseen(n) == Targets(n) \ seen

\* A popped node has a pipe into `from`: return true.
find(n) ==
    /\ answer = "none"
    /\ n \in stack
    /\ from \in Targets(n)
    /\ answer' = "cycle"
    /\ UNCHANGED <<existing, from, to, stack, seen>>

\* It has none: its unseen targets are pushed.
push(n) ==
    /\ answer = "none"
    /\ n \in stack
    /\ from \notin Targets(n)
    /\ seen' = seen \cup Unseen(n)
    /\ stack' = (stack \ {n}) \cup Unseen(n)
    /\ UNCHANGED <<existing, from, to, answer>>

\* The stack is empty: return false.
finish ==
    /\ answer = "none"
    /\ stack = {}
    /\ answer' = "free"
    /\ UNCHANGED <<existing, from, to, stack, seen>>

Next == finish \/ \E n \in Nodes : find(n) \/ push(n)

Spec == Init /\ [][Next]_vars

\* The loop is a plain function: it runs.
Fairness == WF_vars(Next)

FairSpec == Spec /\ Fairness

-----------------------------------------------------------------------------
(***************************************************************************)
(* What the loop maintains: a seen node that left the stack has only seen  *)
(* targets and no pipe into `from`, and only reachable nodes are seen.     *)
(***************************************************************************)
SearchInvariant ==
    /\ TypeOK
    /\ to \in seen
    /\ stack \subseteq seen
    /\ \A n \in seen : Reaches(existing, to, n)
    /\ answer = "none" => /\ from # to
                          /\ from \notin seen
                          /\ \A n \in seen \ stack : Targets(n) \subseteq seen \ {from}

(***************************************************************************)
(* would_create_cycle "detects the self-loop from == to and any to ->*     *)
(* from path", and nothing else: the answer is that of the reference.      *)
(***************************************************************************)
SearchIsCorrect ==
    answer # "none" => (answer = "cycle" <=> Reaches(existing, to, from))

(***************************************************************************)
(* The search ends on every pipe graph, one with cycles included: no node  *)
(* is pushed twice.                                                        *)
(***************************************************************************)
SearchEnds == <>(answer # "none")

(***************************************************************************)
(* What the loop of would_create_cycle maintains and what it answers.      *)
(***************************************************************************)
SearchInv == SearchInvariant /\ SearchIsCorrect
=============================================================================
