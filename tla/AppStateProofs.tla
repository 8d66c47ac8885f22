--------------------------- MODULE AppStateProofs ---------------------------
(***************************************************************************)
(* Proofs about AppState, for any servers, pipes, connections, clients,    *)
(* workers and sessions.                                                   *)
(*                                                                         *)
(* PipesInv, SearchInv, ServerInv and ClientInv are inductive as they      *)
(* stand.  Servers and clients: a worker and a handle enter their registry *)
(* under the lock under which the row is looked up, and a removal takes    *)
(* the row and everything registered for it under one lock.  A restore     *)
(* needs two more facts: who holds the notes (Handover), and that a        *)
(* routing entry has its wrapper (Routed).                                 *)
(***************************************************************************)
EXTENDS AppState, TLAPS

(***************************************************************************)
(* Fewer edges, fewer cycles.                                              *)
(***************************************************************************)
LEMMA AcyclicSubset ==
    ASSUME NEW E, NEW F \in SUBSET E, IsAcyclic(E)
    PROVE  IsAcyclic(F)
BY DEF IsAcyclic

(***************************************************************************)
(* An edge closes a cycle only when there is a path back: the nodes that   *)
(* its target reaches have a last one that the edge does not leave.        *)
(***************************************************************************)
LEMMA EdgeKeepsAcyclic ==
    ASSUME NEW E, NEW a \in Nodes, NEW b \in Nodes,
           IsAcyclic(E), ~Reaches(E, b, a)
    PROVE  IsAcyclic(E \cup {<<a, b>>})
<1>1. PICK S \in SUBSET Nodes : b \in S /\ ClosedUnder(E, S) /\ a \notin S
  BY DEF Reaches
<1> SUFFICES ASSUME NEW C \in SUBSET Nodes, C # {}
             PROVE  \E n \in C : \A m \in C : <<n, m>> \notin E \cup {<<a, b>>}
  BY DEF IsAcyclic
<1>2. CASE C \cap S = {}
  <2>1. PICK n \in C : \A m \in C : <<n, m>> \notin E
    BY DEF IsAcyclic
  <2>2. b \notin C
    BY <1>1, <1>2
  <2> QED
    BY <2>1, <2>2
<1>3. CASE C \cap S # {}
  <2>1. PICK n \in C \cap S : \A m \in C \cap S : <<n, m>> \notin E
    BY <1>3 DEF IsAcyclic
  <2>2. \A m \in C : <<n, m>> \notin E
    BY <1>1, <2>1 DEF ClosedUnder
  <2>3. n # a
    BY <1>1, <2>1
  <2> QED
    BY <2>1, <2>2, <2>3
<1> QED
  BY <1>2, <1>3

(***************************************************************************)
(* Reachability, step by step and at the start.                            *)
(***************************************************************************)
LEMMA ReachesItself == \A E, n : Reaches(E, n, n)
  BY DEF Reaches

(***************************************************************************)
(* One edge more.                                                          *)
(***************************************************************************)
LEMMA ReachesNext ==
    ASSUME NEW E, NEW a, NEW n \in Nodes, NEW m \in Nodes,
           Reaches(E, a, n), <<n, m>> \in E
    PROVE  Reaches(E, a, m)
BY DEF Reaches, ClosedUnder

-----------------------------------------------------------------------------
(***************************************************************************)
(* Adding a pipe: its two ends are there, and the search found no way back *)
(* from its target to its source.                                          *)
(***************************************************************************)
LEMMA AddPipeKeeps ==
    ASSUME PipesInv, NEW f \in Nodes, NEW g \in Nodes, add_pipe(f, g)
    PROVE  PipesInv'
<1> DEFINE p == <<next_pipe, f, g>>
<1>1. next_pipe \in 1..LastPipe /\ p \in PipeSpec
  BY PipesAssumption DEF add_pipe, PipesInv, TypeOK, PipeSpec
<1>2. p[1] = next_pipe /\ p[2] = f /\ p[3] = g
  OBVIOUS
<1>3. pipes' = pipes \cup {p} /\ next_pipe' = next_pipe + 1
  BY DEF add_pipe
<1> HIDE DEF p
<1>4. TypeOK'
  <2>1. pipes' \subseteq PipeSpec /\ next_pipe' \in 1..(LastPipe + 1)
    BY <1>1, <1>3, PipesAssumption DEF PipesInv, TypeOK
  <2>2. \A q \in pipes' : q[1] < next_pipe'
    <3> SUFFICES ASSUME NEW q \in pipes' PROVE q[1] < next_pipe'
      OBVIOUS
    <3>1. CASE q \in pipes
      <4>1. q \in PipeSpec /\ q[1] < next_pipe
        BY <3>1 DEF PipesInv, TypeOK
      <4>2. q[1] \in Nat /\ next_pipe \in Nat
        BY <4>1, <1>1 DEF PipeSpec
      <4> QED BY <4>1, <4>2, <1>3
    <3>2. CASE q = p
      BY <3>2, <1>1, <1>2, <1>3
    <3> QED BY <3>1, <3>2, <1>3
  <2> QED
    BY <2>1, <2>2 DEF add_pipe, PipesInv, TypeOK
<1>5. Edges' = Edges \cup {<<f, g>>}
  BY <1>2, <1>3 DEF Edges
<1>6. IsAcyclic(Edges')
  <2>1. ~Reaches(Edges, g, f)
    BY DEF add_pipe, would_create_cycle
  <2> QED
    BY <2>1, <1>5, EdgeKeepsAcyclic DEF PipesInv, NoDeliveryCycle
<1>7. \A q \in pipes' : q[2] \in servers' /\ q[3] \in servers'
  BY <1>2, <1>3 DEF add_pipe, EndsExist, PipesInv, PipesHaveEndpoints
<1> QED
  BY <1>4, <1>6, <1>7 DEF PipesInv, NoDeliveryCycle, PipesHaveEndpoints

(***************************************************************************)
(* Servers and pipes go: what is left of the graph has no new edge, and no *)
(* pipe of a server that goes is left.                                     *)
(***************************************************************************)
LEMMA RemovalKeeps ==
    ASSUME PipesInv,
           \/ \E s \in Nodes : add_server(s) \/ set_status(s) \/ remove_server(s)
           \/ \E p \in pipes : remove_pipe(p)
    PROVE  PipesInv'
<1>1. /\ pipes' \subseteq pipes
      /\ UNCHANGED <<next_pipe, dispatch, delivery, events>>
  BY DEF add_server, set_status, remove_server, remove_pipe
<1>2. servers' \subseteq Nodes /\ fresh' \subseteq Nodes \ servers' /\ running' \subseteq servers'
  BY DEF add_server, set_status, remove_server, remove_pipe, PipesInv, TypeOK
<1>3. TypeOK'
  BY <1>1, <1>2 DEF PipesInv, TypeOK
<1>4. IsAcyclic(Edges')
  <2>1. Edges' \in SUBSET Edges
    BY <1>1 DEF Edges
  <2> QED
    BY <2>1, AcyclicSubset DEF PipesInv, NoDeliveryCycle
<1>5. \A p \in pipes' : p[2] \in servers' /\ p[3] \in servers'
  BY DEF add_server, set_status, remove_server, remove_pipe, Doomed, PipesInv, PipesHaveEndpoints
<1> QED
  BY <1>3, <1>4, <1>5 DEF PipesInv, NoDeliveryCycle, PipesHaveEndpoints

(***************************************************************************)
(* Events and deliveries leave servers and pipes alone.                    *)
(***************************************************************************)
LEMMA DeliveryKeeps ==
    ASSUME PipesInv,
           \/ \E s \in Nodes, d \in Dispatchers : outside_event(s, d)
           \/ \E d \in Dispatchers : dispatch_step(d) \/ abort_dispatch(d)
           \/ \E k \in Permits : delivery_step(k)
           \/ UNCHANGED vars
    PROVE  PipesInv'
<1>1. UNCHANGED <<servers, fresh, running, pipes, next_pipe>>
  BY DEF outside_event, dispatch_step, drop_delivery, spawn_delivery, abort_dispatch,
         delivery_step, delivery_fails, delivery_arrives, vars
<1>2. dispatch' \in [Dispatchers -> SUBSET PipeSpec]
  BY DEF outside_event, dispatch_step, drop_delivery, spawn_delivery, abort_dispatch,
         delivery_step, delivery_fails, delivery_arrives, vars, Snapshot, Rest, PipesInv, TypeOK
<1>3. delivery' \in [Permits -> SUBSET Nodes]
  BY DEF outside_event, dispatch_step, drop_delivery, spawn_delivery, abort_dispatch,
         delivery_step, delivery_fails, delivery_arrives, vars, PipesInv, TypeOK, PipeSpec
<1>4. events' \in 0..LastEvent
  BY PipesAssumption
  DEF outside_event, dispatch_step, drop_delivery, spawn_delivery, abort_dispatch,
         delivery_step, delivery_fails, delivery_arrives, vars, PipesInv, TypeOK
<1>5. TypeOK'
  BY <1>1, <1>2, <1>3, <1>4 DEF PipesInv, TypeOK
<1>6. Edges' = Edges
  BY <1>1 DEF Edges
<1> QED
  BY <1>1, <1>5, <1>6 DEF PipesInv, NoDeliveryCycle, PipesHaveEndpoints

(***************************************************************************)
(* Every step of the pipes.                                                *)
(***************************************************************************)
LEMMA PipesStep ==
    ASSUME PipesInv, Next \/ UNCHANGED vars
    PROVE  PipesInv'
BY AddPipeKeeps, RemovalKeeps, DeliveryKeeps, Zenon DEF Next

(***************************************************************************)
(* No pipes at the start.                                                  *)
(***************************************************************************)
LEMMA PipesInit == Init => PipesInv
<1> SUFFICES ASSUME Init PROVE PipesInv
  OBVIOUS
<1>1. TypeOK
  BY PipesAssumption DEF Init, TypeOK
<1>2. Edges = {}
  BY DEF Init, Edges
<1> QED
  BY <1>1, <1>2 DEF Init, PipesInv, NoDeliveryCycle, IsAcyclic, PipesHaveEndpoints

(***************************************************************************)
(* Whatever is added, removed and torn down, the pipes have no delivery    *)
(* cycle and no pipe outlives either of its endpoints, for any servers.    *)
(***************************************************************************)
THEOREM PipesStayAcyclic == Spec => []PipesInv
<1>1. PipesInv /\ [Next]_vars => PipesInv'
  BY PipesStep
<1> QED
  BY <1>1, PipesInit, PTL DEF Spec

-----------------------------------------------------------------------------
(***************************************************************************)
(* The reference of the search is the guard of add_pipe.                   *)
(***************************************************************************)
LEMMA SameReaches == \A E, a, b : Search!Reaches(E, a, b) <=> Reaches(E, a, b)
  BY DEF Reaches, ClosedUnder, Search!Reaches, Search!ClosedUnder

(***************************************************************************)
(* Every round of the loop of would_create_cycle.                          *)
(***************************************************************************)
LEMMA SearchStep ==
    ASSUME SearchInv, Search!Next \/ UNCHANGED searchVars
    PROVE  SearchInv'
<1> USE DEF SearchInv, Search!SearchInv, Search!SearchInvariant, Search!TypeOK
<1>1. ASSUME NEW n \in Nodes, Search!find(n) PROVE SearchInv'
  <2>1. Reaches(existing, to, from)
    <3>1. n \in seen /\ from \in Nodes /\ <<n, from>> \in existing
      BY <1>1 DEF Search!find, Search!Targets
    <3>2. Reaches(existing, to, n)
      BY <3>1, SameReaches
    <3> QED
      BY <3>1, <3>2, ReachesNext
  <2>2. UNCHANGED <<existing, from, to, stack, seen>> /\ answer' = "cycle"
    BY <1>1 DEF Search!find
  <2> QED
    BY <2>1, <2>2, SameReaches DEF Search!SearchIsCorrect
<1>2. ASSUME NEW n \in Nodes, Search!push(n) PROVE SearchInv'
  <2>1. \A m \in seen' : Reaches(existing, to, m)
    <3> SUFFICES ASSUME NEW m \in seen' PROVE Reaches(existing, to, m)
      OBVIOUS
    <3>1. CASE m \in seen
      BY <3>1, SameReaches
    <3>2. CASE m \in Search!Unseen(n)
      <4>1. n \in seen /\ m \in Nodes /\ <<n, m>> \in existing
        BY <1>2, <3>2 DEF Search!push, Search!Unseen, Search!Targets
      <4>2. Reaches(existing, to, n)
        BY <4>1, SameReaches
      <4> QED
        BY <4>1, <4>2, ReachesNext
    <3> QED
      BY <1>2, <3>1, <3>2 DEF Search!push
  <2>2. UNCHANGED <<existing, from, to, answer>> /\ answer = "none"
    BY <1>2 DEF Search!push
  <2>3. seen' \in SUBSET Nodes /\ stack' \in SUBSET Nodes /\ stack' \subseteq seen' /\ to \in seen'
    BY <1>2 DEF Search!push, Search!Unseen, Search!Targets
  <2>4. from \notin seen'
    BY <1>2 DEF Search!push, Search!Unseen, Search!Targets
  <2>5. \A m \in seen' \ stack' : Search!Targets(m) \subseteq seen' \ {from}
    BY <1>2 DEF Search!push, Search!Unseen, Search!Targets
  <2>6. \A m : Search!Targets(m)' = Search!Targets(m)
    BY <2>2 DEF Search!Targets
  <2> QED
    BY <2>1, <2>2, <2>3, <2>4, <2>5, <2>6, SameReaches DEF Search!SearchIsCorrect
<1>3. CASE Search!finish
  <2>1. UNCHANGED <<existing, from, to, stack, seen>> /\ answer' = "free"
    BY <1>3 DEF Search!finish
  <2>2. seen \in SUBSET Nodes /\ to \in seen /\ from \notin seen
    BY <1>3 DEF Search!finish
  <2>3. ClosedUnder(existing, seen)
    BY <1>3 DEF Search!finish, Search!Targets, ClosedUnder
  <2>4. ~Reaches(existing, to, from)
    BY <2>2, <2>3 DEF Reaches
  <2> QED
    BY <2>1, <2>4, SameReaches DEF Search!SearchIsCorrect, Search!Targets
<1>4. CASE UNCHANGED searchVars
  BY <1>4 DEF searchVars, Search!SearchIsCorrect, Search!Targets
<1> QED
  BY <1>1, <1>2, <1>3, <1>4, Zenon DEF Search!Next

(***************************************************************************)
(* The first node is seen and reaches itself.                              *)
(***************************************************************************)
LEMMA SearchInit == Search!Init => SearchInv
  BY ReachesItself, SameReaches
  DEF Search!Init, SearchInv, Search!SearchInv, Search!SearchInvariant, Search!TypeOK,
      Search!SearchIsCorrect

(***************************************************************************)
(* The loop of would_create_cycle answers "cycle" exactly when the new     *)
(* pipe is a self-loop or its target reaches its source, on any graph of   *)
(* any size, which is the guard that PipesStayAcyclic rests on.            *)
(***************************************************************************)
THEOREM SearchFindsCycles == Search!Spec => []SearchInv
<1>1. SearchInv /\ [Search!Next]_(Search!vars) => SearchInv'
  BY SearchStep DEF Search!vars, searchVars
<1> QED
  BY <1>1, SearchInit, PTL DEF Search!Spec

-----------------------------------------------------------------------------

StartPlaces == {"new", "scheduling", "spawning", "up", "failing", "removing", "cleanup", "over"}

(***************************************************************************)
(* Aborting any set of workers only takes workers out of the registry.     *)
(***************************************************************************)
LEMMA ServerAbortKeeps ==
    ASSUME Server!TypeOK, NEW ws, Server!Abort(ws)
    PROVE  /\ worker' \in [Workers -> Server!Alive \cup {"unborn", "dead"}]
           /\ \A w \in Workers : worker'[w] = "registered" => worker[w] = "registered" /\ w \notin ws
BY DEF Server!TypeOK, Server!Abort, Server!Alive

(***************************************************************************)
(* A teardown, from whatever side, leaves nothing of the server.           *)
(***************************************************************************)
LEMMA ServerTeardownKeeps ==
    ASSUME Server!ServerInv, NEW s \in Servers, Server!teardown_server(s),
           start' \in [Servers -> StartPlaces],
           \A z \in Servers : start'[z] = "new" => start[z] = "new",
           UNCHANGED <<status, closing, conn, unlinking>>
    PROVE  Server!ServerInv'
<1>1. /\ worker' \in [Workers -> Server!Alive \cup {"unborn", "dead"}]
      /\ \A w \in Workers :
            worker'[w] = "registered" => worker[w] = "registered" /\ w \notin Server!Of(s)
  BY ServerAbortKeeps DEF Server!ServerInv, Server!teardown_server, Server!AbortAll
<1>2. Server!TypeOK'
  BY <1>1 DEF Server!ServerInv, Server!TypeOK, Server!teardown_server, Server!HandlesLeft, StartPlaces
<1>3. \A w \in Workers : worker'[w] = "registered" => Server!Owner(KeyOf[w]) \in rows'
  BY <1>1 DEF Server!ServerInv, Server!NothingOutlivesServer, Server!teardown_server, Server!Of
<1>4. \A c \in handles' : ServerOf[c] \in rows'
  BY DEF Server!ServerInv, Server!NothingOutlivesServer, Server!teardown_server, Server!HandlesLeft
<1> QED
  BY <1>2, <1>3, <1>4 DEF Server!ServerInv, Server!NothingOutlivesServer

(***************************************************************************)
(* The start of a server, cancelled or not.                                *)
(***************************************************************************)
LEMMA ServerStartKeeps ==
    ASSUME Server!ServerInv, NEW s \in Servers,
           Server!add_server(s) \/ Server!start_step(s) \/ Server!cancel_start(s) \/ Server!cleanup(s)
    PROVE  Server!ServerInv'
<1> USE DEF Server!ServerInv, Server!TypeOK, Server!NothingOutlivesServer, Server!StartGoes
<1>1. CASE Server!add_server(s)
  BY <1>1 DEF Server!add_server
<1>2. CASE Server!add_task(s)
  BY <1>2 DEF Server!add_task
<1>3. CASE Server!spawn_called(s) \/ Server!spawn_returns(s)
  BY <1>3 DEF Server!spawn_called, Server!spawn_returns
<1>4. CASE Server!set_running(s) \/ Server!set_error(s)
  BY <1>4 DEF Server!set_running, Server!set_error, Server!SetStatus
<1>5. CASE Server!remove_failed(s) \/ Server!cleanup(s)
  <2>1. /\ Server!teardown_server(s)
        /\ start' \in [Servers -> StartPlaces]
        /\ \A z \in Servers : start'[z] = "new" => start[z] = "new"
        /\ UNCHANGED <<status, closing, conn, unlinking>>
    BY <1>5 DEF Server!remove_failed, Server!cleanup, StartPlaces
  <2> QED
    BY <2>1, ServerTeardownKeeps
<1>6. CASE Server!cancel_start(s)
  BY <1>6 DEF Server!cancel_start, Server!SpawnCleanup
<1> QED
  BY <1>1, <1>2, <1>3, <1>4, <1>5, <1>6, Zenon DEF Server!start_step

(***************************************************************************)
(* Stop, close and the reaper.                                             *)
(***************************************************************************)
LEMMA ServerRowKeeps ==
    ASSUME Server!ServerInv, NEW s \in Servers,
           \/ Server!remove_server(s) \/ Server!close_server(s) \/ Server!cleanup_server_tasks(s)
           \/ Server!cleanup_old_servers(s)
    PROVE  Server!ServerInv'
<1>1. CASE Server!remove_server(s) \/ Server!cleanup_old_servers(s)
  <2>1. Server!teardown_server(s) /\ UNCHANGED <<start, status, closing, conn, unlinking>>
    BY <1>1 DEF Server!remove_server, Server!cleanup_old_servers
  <2>2. /\ start' \in [Servers -> StartPlaces]
        /\ \A z \in Servers : start'[z] = "new" => start[z] = "new"
    BY <2>1 DEF Server!ServerInv, Server!TypeOK, StartPlaces
  <2> QED
    BY <2>1, <2>2, ServerTeardownKeeps
<1>2. CASE Server!close_server(s)
  BY <1>2 DEF Server!close_server, Server!SetStatus, Server!ServerInv, Server!TypeOK, Server!NothingOutlivesServer
<1>3. CASE Server!cleanup_server_tasks(s)
  BY <1>3 DEF Server!cleanup_server_tasks, Server!ServerInv, Server!TypeOK, Server!NothingOutlivesServer
<1> QED
  BY <1>1, <1>2, <1>3

(***************************************************************************)
(* The life of a worker: it is registered only beside its server's row.    *)
(***************************************************************************)
LEMMA ServerWorkerKeeps ==
    ASSUME Server!ServerInv, NEW w \in Workers,
           Server!spawn_worker(w) \/ Server!register_task(w) \/ Server!drop_registration(w) \/ Server!worker_ends(w)
    PROVE  Server!ServerInv'
<1> USE DEF Server!ServerInv, Server!TypeOK, Server!NothingOutlivesServer, Server!Alive
<1>1. CASE Server!spawn_worker(w)
  BY <1>1 DEF Server!spawn_worker
<1>2. CASE Server!register_task(w)
  BY <1>2 DEF Server!register_task, Server!OwnerIsThere
<1>3. CASE Server!drop_registration(w)
  BY <1>3 DEF Server!drop_registration
<1>4. CASE Server!worker_ends(w)
  BY <1>4 DEF Server!worker_ends
<1> QED
  BY <1>1, <1>2, <1>3, <1>4

(***************************************************************************)
(* A connection: its handle exists only while its task is open or closing, *)
(* and only beside the server's row.                                       *)
(***************************************************************************)
LEMMA ServerConnectionKeeps ==
    ASSUME Server!ServerInv, NEW c \in Conns,
           \/ Server!add_connection(c) \/ Server!register_peer_handle(c) \/ Server!prune_handle(c)
           \/ Server!close_connection(c) \/ Server!finish_close(c)
           \/ Server!close_from_outside(c) \/ Server!finish_from_outside(c)
    PROVE  Server!ServerInv'
<1> USE DEF Server!ServerInv, Server!TypeOK, Server!NothingOutlivesServer, Server!ConnGoes
<1>1. CASE Server!add_connection(c)
  BY <1>1 DEF Server!add_connection
<1>2. CASE Server!register_peer_handle(c)
  BY <1>2 DEF Server!register_peer_handle
<1>3. CASE Server!prune_handle(c)
  BY <1>3 DEF Server!prune_handle
<1>4. CASE Server!close_connection(c)
  BY <1>4 DEF Server!close_connection
<1>5. CASE Server!finish_close(c)
  <2>1. /\ worker' \in [Workers -> Server!Alive \cup {"unborn", "dead"}]
        /\ \A w \in Workers : worker'[w] = "registered" => worker[w] = "registered"
    BY <1>5, ServerAbortKeeps DEF Server!finish_close, Server!remove_peer
  <2> QED
    BY <1>5, <2>1 DEF Server!finish_close, Server!remove_peer
<1>6. CASE Server!close_from_outside(c)
  BY <1>6 DEF Server!close_from_outside
<1>7. CASE Server!finish_from_outside(c)
  <2>1. /\ worker' \in [Workers -> Server!Alive \cup {"unborn", "dead"}]
        /\ \A w \in Workers : worker'[w] = "registered" => worker[w] = "registered"
    BY <1>7, ServerAbortKeeps DEF Server!finish_from_outside, Server!remove_peer
  <2> QED
    BY <1>7, <2>1 DEF Server!finish_from_outside, Server!remove_peer
<1> QED
  BY <1>1, <1>2, <1>3, <1>4, <1>5, <1>6, <1>7, Zenon

(***************************************************************************)
(* Every step of a server, its workers and its connections.                *)
(***************************************************************************)
LEMMA ServerStep ==
    ASSUME Server!ServerInv, Server!Next \/ UNCHANGED serverVars
    PROVE  Server!ServerInv'
<1>1. CASE UNCHANGED serverVars
  BY <1>1 DEF serverVars, Server!ServerInv, Server!TypeOK, Server!NothingOutlivesServer
<1>2. CASE Server!Next
  BY <1>2, ServerStartKeeps, ServerRowKeeps, ServerWorkerKeeps, ServerConnectionKeeps, Zenon
     DEF Server!Next
<1> QED
  BY <1>1, <1>2

(***************************************************************************)
(* There is nothing at the start.                                          *)
(***************************************************************************)
LEMMA ServerInit == Server!Init => Server!ServerInv
  BY DEF Server!Init, Server!ServerInv, Server!TypeOK, Server!NothingOutlivesServer, Server!Alive

-----------------------------------------------------------------------------

(***************************************************************************)
(* A removal, from whatever side, leaves nothing of the client.            *)
(***************************************************************************)
LEMMA ClientRemoveKeeps ==
    ASSUME Client!ClientConstantsOK, Client!ClientInv, NEW c \in Clients, Client!remove(c),
           client_start' \in [Clients -> {"new", "scheduling", "connecting", "up", "failing",
                                   "removing", "cleanup", "over"}]
    PROVE  Client!ClientInv'
<1>1. Client!TypeOK'
  <2>1. /\ calls' \in [Clients -> 0..LastCall]
        /\ \A d \in Clients : CallLimit > 0 => calls'[d] <= CallLimit
    BY DEF Client!ClientConstantsOK, Client!ClientInv, Client!TypeOK, Client!remove
  <2>2. client_worker' \in [Workers -> Client!Alive \cup {"unborn", "dead"}]
    BY DEF Client!ClientInv, Client!TypeOK, Client!remove, Client!AbortTasks, Client!Abort, Client!Alive
  <2>3. /\ client_rows' \subseteq Clients /\ client_handles' \subseteq Clients
        /\ UNCHANGED <<client_status, dial, hanging, client_closing>>
    BY DEF Client!ClientInv, Client!TypeOK, Client!remove
  <2> QED
    BY <2>1, <2>2, <2>3 DEF Client!ClientInv, Client!TypeOK
<1>2. \A w \in Workers : client_worker'[w] = "registered" => ClientOf[w] \in client_rows'
  BY DEF Client!ClientConstantsOK, Client!ClientInv, Client!TypeOK, Client!NothingOutlivesClient,
         Client!remove, Client!AbortTasks, Client!Abort, Client!Of
<1>3. client_handles' \subseteq client_rows' /\ \A d \in Clients : calls'[d] > 0 => d \in client_rows'
  BY DEF Client!ClientInv, Client!TypeOK, Client!NothingOutlivesClient, Client!remove
<1> QED
  BY <1>1, <1>2, <1>3 DEF Client!ClientInv, Client!NothingOutlivesClient

(***************************************************************************)
(* The start, guarded or not, and the dial.                                *)
(***************************************************************************)
LEMMA ClientStartKeeps ==
    ASSUME Client!ClientConstantsOK, Client!ClientInv, NEW c \in Clients,
           \/ Client!add_client(c) \/ Client!start_step(c) \/ Client!cancel_start(c)
           \/ Client!open_client(c) \/ Client!reconnect(c) \/ Client!dial_step(c)
    PROVE  Client!ClientInv'
<1> USE DEF Client!ClientInv, Client!TypeOK, Client!NothingOutlivesClient, Client!StartGoes, Client!DialGoes
<1>1. CASE Client!add_client(c)
  BY <1>1 DEF Client!add_client
<1>2. CASE Client!connect_step(c)
  BY <1>2 DEF Client!connect_step
<1>3. CASE Client!set_result(c)
  BY <1>3 DEF Client!set_result, Client!SetStatus
<1>4. CASE Client!remove_failed(c) \/ Client!cleanup(c)
  <2>1. /\ Client!remove(c)
        /\ client_start' \in [Clients -> {"new", "scheduling", "connecting", "up", "failing",
                                   "removing", "cleanup", "over"}]
    BY <1>4 DEF Client!remove_failed, Client!cleanup
  <2> QED
    BY <2>1, ClientRemoveKeeps
<1>5. CASE Client!cancel_start(c)
  BY <1>5 DEF Client!cancel_start, Client!SpawnCleanup
<1>6. CASE Client!open_client(c)
  BY <1>6 DEF Client!open_client
<1>7. CASE Client!reconnect(c)
  BY <1>7 DEF Client!reconnect
<1>8. CASE Client!dial_returns(c)
  BY <1>8 DEF Client!dial_returns
<1>9. CASE Client!dial_ends(c)
  BY <1>9 DEF Client!dial_ends, Client!SetStatus
<1> QED
  BY <1>1, <1>2, <1>3, <1>4, <1>5, <1>6, <1>7, <1>8, <1>9, Zenon DEF Client!start_step, Client!dial_step

(***************************************************************************)
(* What operators and the client's own code do to its row, handle and      *)
(* budget.                                                                 *)
(***************************************************************************)
LEMMA ClientRowKeeps ==
    ASSUME Client!ClientConstantsOK, Client!ClientInv, NEW c \in Clients,
           \/ Client!remove_client(c) \/ Client!disconnect_client(c) \/ Client!set_disconnected(c)
           \/ Client!close_client(c) \/ Client!cleanup_client_tasks(c)
           \/ Client!register_handle(c) \/ Client!remove_handle(c) \/ Client!try_consume_call(c)
    PROVE  Client!ClientInv'
<1> USE DEF Client!ClientInv, Client!TypeOK, Client!NothingOutlivesClient
<1>1. CASE Client!remove_client(c)
  BY <1>1, ClientRemoveKeeps DEF Client!remove_client
<1>2. CASE Client!disconnect_client(c)
  BY <1>2 DEF Client!disconnect_client, Client!Abort, Client!Alive
<1>3. CASE Client!set_disconnected(c)
  BY <1>3 DEF Client!set_disconnected, Client!SetStatus
<1>4. CASE Client!close_client(c)
  BY <1>4 DEF Client!close_client, Client!SetStatus
<1>5. CASE Client!cleanup_client_tasks(c)
  BY <1>5 DEF Client!cleanup_client_tasks
<1>6. CASE Client!register_handle(c)
  BY <1>6 DEF Client!register_handle
<1>7. CASE Client!remove_handle(c)
  BY <1>7 DEF Client!remove_handle
<1>8. CASE Client!try_consume_call(c)
  BY <1>8 DEF Client!ClientConstantsOK, Client!try_consume_call, Client!Counted, Client!MayCall
<1> QED
  BY <1>1, <1>2, <1>3, <1>4, <1>5, <1>6, <1>7, <1>8, Zenon

(***************************************************************************)
(* The life of a worker: it is registered only beside its client's row.    *)
(***************************************************************************)
LEMMA ClientWorkerKeeps ==
    ASSUME Client!ClientConstantsOK, Client!ClientInv, NEW w \in Workers,
           Client!spawn_worker(w) \/ Client!register_task(w) \/ Client!drop_registration(w) \/ Client!worker_ends(w)
    PROVE  Client!ClientInv'
<1> USE DEF Client!ClientInv, Client!TypeOK, Client!NothingOutlivesClient, Client!Alive
<1>1. CASE Client!spawn_worker(w)
  BY <1>1 DEF Client!spawn_worker
<1>2. CASE Client!register_task(w)
  BY <1>2 DEF Client!register_task, Client!OwnerIsThere
<1>3. CASE Client!drop_registration(w)
  BY <1>3 DEF Client!drop_registration
<1>4. CASE Client!worker_ends(w)
  BY <1>4 DEF Client!worker_ends
<1> QED
  BY <1>1, <1>2, <1>3, <1>4

(***************************************************************************)
(* Every step of a client, its workers, its handle and its budget.         *)
(***************************************************************************)
LEMMA ClientStep ==
    ASSUME Client!ClientInv, Client!Next \/ UNCHANGED clientVars
    PROVE  Client!ClientInv'
<1>1. CASE UNCHANGED clientVars
  BY <1>1 DEF clientVars, Client!ClientInv, Client!TypeOK, Client!NothingOutlivesClient
<1>2. CASE Client!Next
  BY <1>2, TablesAssumption, ClientStartKeeps, ClientRowKeeps, ClientWorkerKeeps, Zenon
     DEF Client!Next
<1> QED
  BY <1>1, <1>2

(***************************************************************************)
(* There is nothing at the start.                                          *)
(***************************************************************************)
LEMMA ClientInit == Client!Init => Client!ClientInv
  BY TablesAssumption
  DEF Client!ClientConstantsOK, Client!Init, Client!ClientInv, Client!TypeOK,
      Client!NothingOutlivesClient, Client!Alive

-----------------------------------------------------------------------------

\* The spawned cleanup has work only after a drop: a drop would lose what an
\* earlier one had handed over.  The record is empty once a restore is over.
Handover == /\ cleanup # {} => restore = "cancelled"
            /\ restore \in {"failed", "cancelled"} => owned = {}

\* A routing entry has its wrapper, which nobody else removes.
Routed == linked \/ restore = "linking" => Wrapper \in made

\* The types, without the Boolean variables ...
Places ==
    /\ made \subseteq Session!Made /\ owned \subseteq Session!Made /\ cleanup \subseteq Session!Made
    /\ todo \subseteq Instances /\ removing \subseteq Session!Made
    /\ piped => PipeEnds \subseteq made
    /\ restore \in {"starting", "piping", "wrapping", "linking", "tasking",
               "rolling", "failed", "cancelled", "committed"}

\* ... and these.
Flags == piped \in BOOLEAN /\ linked \in BOOLEAN

Core == Places /\ Session!OwnedUntilCommitted /\ Handover /\ Routed

SessionIInv == Session!TypeOK /\ Session!OwnedUntilCommitted /\ Handover /\ Routed

(***************************************************************************)
(* The two halves of the types are proved apart.                           *)
(***************************************************************************)
LEMMA SessionHalves == Session!TypeOK <=> Places /\ Flags
  BY DEF Session!TypeOK, Places, Flags

(***************************************************************************)
(* The same in the next state.                                             *)
(***************************************************************************)
LEMMA SessionHalvesNext == Session!TypeOK' <=> Places' /\ Flags'
  BY DEF Session!TypeOK, Places, Flags

(***************************************************************************)
(* The pipe and the routing entry are there or not.                        *)
(***************************************************************************)
LEMMA SessionStepFlags == ASSUME Flags, Session!Next \/ UNCHANGED sessionVars PROVE Flags'
<1>1. ASSUME NEW x, Session!Remove(x) PROVE Flags'
  BY <1>1, Zenon DEF Session!Remove, Session!PipeAfter, Flags
<1>2. ASSUME NEW x \in Instances, Session!create(x) PROVE Flags'
  BY <1>2, Zenon DEF Session!create, Flags
<1>3. CASE Session!add_pipe
  BY <1>3, Zenon DEF Session!add_pipe, Flags
<1>4. CASE Session!add_easy_instance \/ Session!link_to_easy \/ Session!add_task
  BY <1>4, Zenon DEF Session!add_easy_instance, Session!link_to_easy, Session!add_task, Flags
<1>5. CASE Session!rollback
  <2>1. CASE Session!rolled_back
    BY <2>1, Zenon DEF Session!rolled_back, Flags
  <2>2. ASSUME NEW x \in Session!Made, Session!remove_last(x) PROVE Flags'
    BY <2>2, Zenon DEF Session!remove_last, Flags
  <2>3. ASSUME NEW x \in Session!Made, Session!removal_returns(x) PROVE Flags'
    BY <2>3, <1>1, Zenon DEF Session!removal_returns
  <2> QED
    BY <1>5, <2>1, <2>2, <2>3, Zenon DEF Session!rollback
<1>6. CASE Session!drop
  BY <1>6, Zenon DEF Session!drop, Flags
<1>7. ASSUME NEW x \in Session!Made, Session!clean(x) \/ Session!remove_from_outside(x) PROVE Flags'
  BY <1>7, <1>1, Zenon DEF Session!clean, Session!remove_from_outside
<1>8. CASE UNCHANGED sessionVars
  BY <1>8, Zenon DEF sessionVars, Flags
<1> QED
  BY <1>2, <1>3, <1>4, <1>5, <1>6, <1>7, <1>8, Zenon DEF Session!Next

(***************************************************************************)
(* Every step of the restore, of its rollback, of the cleanup and of       *)
(* others keeps the notes complete.                                        *)
(***************************************************************************)
LEMMA SessionStepCore ==
    ASSUME Core, Session!Next \/ UNCHANGED sessionVars
    PROVE  Core'
<1> USE DEF Core, Places, Session!OwnedUntilCommitted, Handover, Routed
<1>1. ASSUME NEW x \in Instances, Session!create(x)
      PROVE  Core'
  BY <1>1 DEF Session!create, Session!Noted, Session!Made
<1>2. CASE Session!add_pipe
  BY <1>2 DEF Session!add_pipe
<1>3. CASE Session!add_easy_instance
  BY <1>3 DEF Session!add_easy_instance, Session!Noted, Session!Made
<1>4. CASE Session!link_to_easy
  BY <1>4 DEF Session!link_to_easy
<1>5. CASE Session!add_task
  BY <1>5 DEF Session!add_task, Session!Noted, Session!Made
<1>6. CASE Session!rolled_back
  BY <1>6 DEF Session!rolled_back
<1>7. ASSUME NEW x \in Session!Made, Session!remove_last(x)
      PROVE  Core'
  BY <1>7 DEF Session!remove_last, Session!ListMeanwhile, Session!PeekFirst
<1>8. ASSUME NEW x \in Session!Made, Session!removal_returns(x)
      PROVE  Core'
  BY <1>8 DEF Session!removal_returns, Session!Remove, Session!PipeAfter
<1>9. CASE Session!drop
  BY <1>9 DEF Session!drop, Session!CleanupTakes, Session!HandedOver
<1>10. ASSUME NEW x \in Session!Made, Session!clean(x)
       PROVE  Core'
  <2>1. x \in cleanup
    BY <1>10 DEF Session!clean, Session!FirstOf
  <2> QED
    BY <1>10, <2>1 DEF Session!clean, Session!Remove, Session!PipeAfter
<1>11. ASSUME NEW x \in Session!Made, Session!remove_from_outside(x)
       PROVE  Core'
  BY <1>11 DEF Session!remove_from_outside, Session!Remove, Session!PipeAfter
<1>12. CASE UNCHANGED sessionVars
  BY <1>12 DEF sessionVars
<1> HIDE DEF Core, Places, Session!OwnedUntilCommitted, Handover, Routed
<1> QED
  BY <1>1, <1>2, <1>3, <1>4, <1>5, <1>6, <1>7, <1>8, <1>9, <1>10, <1>11, <1>12, Zenon
     DEF Session!Next, Session!rollback

(***************************************************************************)
(* A restore begins with nothing.                                          *)
(***************************************************************************)
LEMMA SessionStart == Session!Init => SessionIInv
  BY DEF Session!Init, SessionIInv, Session!TypeOK, Session!OwnedUntilCommitted, Handover, Routed, Session!Made

(***************************************************************************)
(* Nothing is left over: the record and the cleanup's list are empty, so   *)
(* nothing is in the table, hence no end of the pipe and no wrapper.       *)
(***************************************************************************)
LEMMA EmptyAtTheEnd == Session!PlanIsClosed /\ SessionIInv => Session!NothingLeftOver
<1> SUFFICES ASSUME Session!PlanIsClosed, SessionIInv,
                    restore = "failed" \/ (restore = "cancelled" /\ cleanup = {})
             PROVE  made = {} /\ ~piped /\ ~linked
  BY DEF Session!NothingLeftOver
<1>1. owned = {} /\ cleanup = {}
  BY DEF SessionIInv, Handover
<1>2. made = {}
  BY <1>1 DEF SessionIInv, Session!OwnedUntilCommitted
<1>3. ~piped
  BY <1>2 DEF Session!PlanIsClosed, SessionIInv, Session!TypeOK
<1>4. ~linked
  BY <1>2 DEF SessionIInv, Routed
<1> QED
  BY <1>2, <1>3, <1>4

(***************************************************************************)
(* The invariant of a restore is inductive.                                *)
(***************************************************************************)
LEMMA SessionStep ==
    ASSUME SessionIInv, Session!Next \/ UNCHANGED sessionVars
    PROVE  SessionIInv'
<1>1. Core /\ Flags
  BY SessionHalves DEF SessionIInv, Core
<1>2. Core'
  BY <1>1, SessionStepCore
<1>3. Flags'
  BY <1>1, SessionStepFlags
<1> QED
  BY <1>2, <1>3, SessionHalvesNext DEF SessionIInv, Core

(***************************************************************************)
(* It says that nothing is left over.                                      *)
(***************************************************************************)
LEMMA SessionImplied == SessionIInv => SessionInv
  BY TablesAssumption, EmptyAtTheEnd DEF SessionIInv, SessionInv, Session!SessionInv

(***************************************************************************)
(* Whatever a restore has made and is still there is noted where a drop at *)
(* the next await will find it: in the ownership record while the restore  *)
(* or its rollback runs, in the hands of the cleanup afterwards; and when  *)
(* both are through nothing is left, for any set of saved instances.       *)
(***************************************************************************)
THEOREM RestoreLeavesNothing == Session!Spec => []SessionInv
<1>1. SessionIInv /\ [Session!Next]_(Session!vars) => SessionIInv'
  BY SessionStep DEF Session!vars, sessionVars
<1> QED
  BY <1>1, SessionStart, SessionImplied, PTL DEF Session!Spec

-----------------------------------------------------------------------------
(***************************************************************************)
(* Each component of the composition takes a step of its own or stutters.  *)
(***************************************************************************)
LEMMA TablesStep ==
    ASSUME [TablesNext]_<<table, vars, searchVars, serverVars, clientVars, sessionVars>>
    PROVE  /\ Next \/ UNCHANGED vars
           /\ Search!Next \/ UNCHANGED searchVars
           /\ Server!Next \/ UNCHANGED serverVars
           /\ Client!Next \/ UNCHANGED clientVars
           /\ Session!Next \/ UNCHANGED sessionVars
BY DEF TablesNext

(***************************************************************************)
(* Whatever races with the removal of a server or of a client, no worker,  *)
(* handle or budget is kept for one that is gone, and the budget is never  *)
(* exceeded, for any servers, connections, clients, workers and limit.     *)
(***************************************************************************)
THEOREM NothingOutlivesItsOwner == TablesSpec => []NothingOutlivesOwner
<1>1. TablesInit => NothingOutlivesOwner
  BY ServerInit, ClientInit DEF TablesInit, NothingOutlivesOwner
<1>2. ASSUME NothingOutlivesOwner,
             [TablesNext]_<<table, vars, searchVars, serverVars, clientVars, sessionVars>>
      PROVE  NothingOutlivesOwner'
  BY <1>2, TablesStep, ServerStep, ClientStep DEF NothingOutlivesOwner
<1> QED
  BY <1>1, <1>2, PTL DEF TablesSpec

(***************************************************************************)
(* The tables side by side keep all four invariants.                       *)
(***************************************************************************)
THEOREM TablesSafe == TablesSpec => [](PipesInv /\ SearchInv /\ NothingOutlivesOwner /\ SessionInv)
<1> DEFINE All == PipesInv /\ SearchInv /\ SessionIInv
<1>1. TablesInit => All
  BY PipesInit, SearchInit, SessionStart DEF TablesInit
<1>2. ASSUME All, [TablesNext]_<<table, vars, searchVars, serverVars, clientVars, sessionVars>>
      PROVE  All'
  BY <1>2, TablesStep, PipesStep, SearchStep, SessionStep
<1>3. All => PipesInv /\ SearchInv /\ SessionInv
  BY SessionImplied
<1> QED
  BY <1>1, <1>2, <1>3, NothingOutlivesItsOwner, PTL DEF TablesSpec
=============================================================================
