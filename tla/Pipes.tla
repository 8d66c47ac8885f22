------------------------------- MODULE Pipes --------------------------------
(***************************************************************************)
(* Pipes (src/pipe/mod.rs, with their table in src/state/app_state.rs):    *)
(* an event of one server is forwarded, as bytes on a short connection,    *)
(* into another server, whose own events feed its pipes in turn.           *)
(*                                                                         *)
(* Each step is one stretch under the state lock or one await: an event    *)
(* takes a snapshot of the matching pipes (pipes_matching), then looks up  *)
(* the target of each in turn, and hands the delivery to a detached task   *)
(* that holds a permit of PIPE_INFLIGHT.  Servers and pipes come and go    *)
(* meanwhile, so a delivery may find its target gone, or another server on *)
(* the target's old address.                                               *)
(*                                                                         *)
(* Server and pipe ids are never reused.  Payloads, templates and the      *)
(* event name a pipe listens to are left out: a snapshot is any subset of  *)
(* the pipes that leave the server, and rendering may fail.                *)
(***************************************************************************)
EXTENDS Naturals, FiniteSets, PipeGraph

CONSTANTS Permits,      \* the permits of PIPE_INFLIGHT
          Dispatchers,  \* bound: events dispatched at the same time
          LastPipe,     \* bound: pipe ids 1..LastPipe are handed out
          LastEvent     \* bound: events from outside the pipes

ASSUME PipesAssumption == LastPipe \in Nat /\ LastEvent \in Nat

VARIABLES servers,      \* ids with a row
          fresh,        \* ids not handed out yet
          running,      \* rows with status Running and a bound address
          pipes,        \* the table: <<id, from, to>>
          next_pipe,
          dispatch,     \* the rest of the snapshot, per dispatcher
          delivery,     \* the target of the delivery that holds a permit
          events        \* bound: outside events so far

vars == <<servers, fresh, running, pipes, next_pipe, dispatch, delivery, events>>

PipeSpec == (1..LastPipe) \X Nodes \X Nodes

TypeOK ==
    /\ servers \subseteq Nodes
    /\ fresh \subseteq Nodes \ servers
    /\ running \subseteq servers
    /\ pipes \subseteq PipeSpec
    /\ next_pipe \in 1..(LastPipe + 1)
    /\ \A p \in pipes : p[1] < next_pipe
    /\ dispatch \in [Dispatchers -> SUBSET PipeSpec]
    /\ delivery \in [Permits -> SUBSET Nodes]
    /\ events \in 0..LastEvent

Init ==
    /\ servers = {}
    /\ fresh = Nodes
    /\ running = {}
    /\ pipes = {}
    /\ next_pipe = 1
    /\ dispatch = [d \in Dispatchers |-> {}]
    /\ delivery = [k \in Permits |-> {}]
    /\ events = 0

Edges == {<<p[2], p[3]>> : p \in pipes}

-----------------------------------------------------------------------------
\* add_server; the row is Starting.
add_server(s) ==
    /\ s \in fresh
    /\ fresh' = fresh \ {s}
    /\ servers' = servers \cup {s}
    /\ UNCHANGED <<running, pipes, next_pipe, dispatch, delivery, events>>

\* The start succeeds (Running, address known), or close_server marks the row
\* Stopped and leaves it, with its pipes, to the reaper.
set_status(s) ==
    /\ s \in servers
    /\ running' = IF s \in running THEN running \ {s} ELSE running \cup {s}
    /\ UNCHANGED <<servers, fresh, pipes, next_pipe, dispatch, delivery, events>>

\* teardown_server: the pipes that touch s, as source or as sink.
Doomed(s) == {p \in pipes : p[2] = s \/ p[3] = s}

\* remove_server, or cleanup_old_servers for a Stopped row.
remove_server(s) ==
    /\ s \in servers
    /\ servers' = servers \ {s}
    /\ running' = running \ {s}
    /\ pipes' = pipes \ Doomed(s)
    /\ UNCHANGED <<fresh, next_pipe, dispatch, delivery, events>>

\* would_create_cycle: the self-loop, and any path from `to` back to `from`.
SelfLoop(from, to) == from = to
OppositePipe(from, to) == from = to \/ <<to, from>> \in Edges
would_create_cycle(from, to) == from = to \/ Reaches(Edges, to, from)

\* add_pipe; both ends are looked up under the lock that inserts the pipe.
EndsExist(from, to) == from \in servers /\ to \in servers
add_pipe(from, to) ==
    /\ EndsExist(from, to)
    /\ ~would_create_cycle(from, to)
    /\ next_pipe <= LastPipe
    /\ next_pipe' = next_pipe + 1
    /\ pipes' = pipes \cup {<<next_pipe, from, to>>}
    /\ UNCHANGED <<servers, fresh, running, dispatch, delivery, events>>

remove_pipe(p) ==
    /\ p \in pipes
    /\ pipes' = pipes \ {p}
    /\ UNCHANGED <<servers, fresh, running, next_pipe, dispatch, delivery, events>>

-----------------------------------------------------------------------------
\* dispatch_pipes starts for an event of server s: pipes_matching.
Snapshot(s, d) ==
    /\ dispatch[d] = {}
    /\ \E matching \in SUBSET {p \in pipes : p[2] = s} :
          dispatch' = [dispatch EXCEPT ![d] = matching]

\* An event that did not come through a pipe.
outside_event(s, d) ==
    /\ s \in running
    /\ events < LastEvent
    /\ events' = events + 1
    /\ Snapshot(s, d)
    /\ UNCHANGED <<servers, fresh, running, pipes, next_pipe, delivery>>

Rest(d, p) == dispatch' = [dispatch EXCEPT ![d] = @ \ {p}]

\* One pipe of the snapshot is dropped: its mapping fails, its target is gone
\* or not running, or no permit is free.
drop_delivery(d, p) ==
    /\ p \in dispatch[d]
    /\ Rest(d, p)
    /\ UNCHANGED <<servers, fresh, running, pipes, next_pipe, delivery, events>>

\* Or its target is running and a permit is free: the delivery is spawned.
spawn_delivery(d, p, k) ==
    /\ p \in dispatch[d]
    /\ p[3] \in running
    /\ delivery[k] = {}
    /\ delivery' = [delivery EXCEPT ![k] = {p[3]}]
    /\ Rest(d, p)
    /\ UNCHANGED <<servers, fresh, running, pipes, next_pipe, events>>

\* The task that dispatches is aborted with its server: the rest is not sent.
abort_dispatch(d) ==
    /\ dispatch[d] # {}
    /\ dispatch' = [dispatch EXCEPT ![d] = {}]
    /\ UNCHANGED <<servers, fresh, running, pipes, next_pipe, delivery, events>>

\* deliver fails or times out; the permit is released.
delivery_fails(k) ==
    /\ delivery[k] # {}
    /\ delivery' = [delivery EXCEPT ![k] = {}]
    /\ UNCHANGED <<servers, fresh, running, pipes, next_pipe, dispatch, events>>

\* deliver succeeds: the bytes reach the target or, when it no longer listens,
\* whichever server has its address now.  There they are an event.
Listeners(t) == IF t \in running THEN {t} ELSE running
delivery_arrives(k, s, d) ==
    /\ \E t \in delivery[k] : s \in Listeners(t)
    /\ delivery' = [delivery EXCEPT ![k] = {}]
    /\ Snapshot(s, d)
    /\ UNCHANGED <<servers, fresh, running, pipes, next_pipe, events>>

dispatch_step(d) == \E p \in dispatch[d] :
                       drop_delivery(d, p) \/ \E k \in Permits : spawn_delivery(d, p, k)
delivery_step(k) == \/ delivery_fails(k)
                    \/ \E s \in Nodes, d \in Dispatchers : delivery_arrives(k, s, d)

Next ==
    \/ \E s \in Nodes : add_server(s) \/ set_status(s) \/ remove_server(s)
    \/ \E from, to \in Nodes : add_pipe(from, to)
    \/ \E p \in pipes : remove_pipe(p)
    \/ \E s \in Nodes, d \in Dispatchers : outside_event(s, d)
    \/ \E d \in Dispatchers : dispatch_step(d) \/ abort_dispatch(d)
    \/ \E k \in Permits : delivery_step(k)

Spec == Init /\ [][Next]_vars

\* A dispatch loop runs on and a delivery ends, by its timeouts at the latest.
Fairness == /\ \A d \in Dispatchers : WF_vars(dispatch_step(d))
            /\ \A k \in Permits : WF_vars(delivery_step(k))

FairSpec == Spec /\ Fairness

-----------------------------------------------------------------------------
(***************************************************************************)
(* "The obvious A -> B -> A flood cannot be declared", nor a longer one:   *)
(* whatever is added, removed and torn down, the pipes have no cycle.      *)
(***************************************************************************)
NoDeliveryCycle == IsAcyclic(Edges)

(***************************************************************************)
(* "A pipe cannot outlive either of its endpoints" (teardown_server).      *)
(***************************************************************************)
PipesHaveEndpoints == \A p \in pipes : p[2] \in servers /\ p[3] \in servers

(***************************************************************************)
(* A cascade dies out: after the last event from outside, and once the     *)
(* operator leaves servers and pipes alone, every dispatch and delivery    *)
(* ends, also when a delivery lands on a server that took over an address. *)
(***************************************************************************)
Quiet == dispatch = [d \in Dispatchers |-> {}] /\ delivery = [k \in Permits |-> {}]
Settled == [][UNCHANGED <<servers, running, pipes, events>>]_vars
CascadesDieOut == <>Settled => <>[]Quiet

(***************************************************************************)
(* The invariant of the pipes: their types, no delivery cycle, and both    *)
(* endpoints of every pipe.                                                *)
(***************************************************************************)
PipesInv == TypeOK /\ NoDeliveryCycle /\ PipesHaveEndpoints
=============================================================================
