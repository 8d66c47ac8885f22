--------------------------- MODULE ServerLifecycle --------------------------
(***************************************************************************)
(* A server's life in AppState (src/state/app_state.rs): start from an     *)
(* action (src/cli/server_startup.rs) under a StartupGuard, its background *)
(* workers and those of its connections, close_server and the reaper, and  *)
(* removal from every side while any of that is going on.                  *)
(*                                                                         *)
(* Each step is one stretch under the state lock.  A worker is a spawned   *)
(* tokio task: it runs from the spawn on, while its registration still     *)
(* waits for the lock; dropping that registration aborts it; an aborted    *)
(* worker runs on, and may spawn others, until the runtime polls it next.  *)
(*                                                                         *)
(* Ids are never reused.  What a worker does, the instance's data and the  *)
(* display mode are left out.                                              *)
(***************************************************************************)
EXTENDS FiniteSets

CONSTANTS Servers,
          Conns,     \* peer connections
          ServerOf,  \* the server a connection belongs to
          Workers,   \* background tasks, each spawned at most once
          KeyOf      \* the registry entry of a worker: a server or a connection

OwnersAssumption ==
    /\ Servers \cap Conns = {}
    /\ ServerOf \in [Conns -> Servers]
    /\ KeyOf \in [Workers -> Servers \cup Conns]

VARIABLES rows,       \* servers in the map
          status,     \* what the row says
          start,      \* where start_server_from_action stands
          closing,    \* servers between the two locks of close_server
          scheduled,  \* servers with a task of their scope in the task table
          conn,       \* where the task of each connection stands
          handles,    \* connections with a peer handle
          unlinking,  \* connections between the locks of a close from outside
          worker      \* where each worker stands

vars == <<rows, status, start, closing, scheduled, conn, handles, unlinking, worker>>

Owner(k) == IF k \in Conns THEN ServerOf[k] ELSE k

\* Workers of server s and of its connections; workers of connection c.
Of(s) == {w \in Workers : Owner(KeyOf[w]) = s}
OfConn(c) == {w \in Workers : KeyOf[w] = c}

Alive == {"pending", "registered", "aborted"}

TypeOK ==
    /\ rows \subseteq Servers
    /\ status \in [Servers -> {"Starting", "Running", "Stopped", "Error"}]
    /\ start \in [Servers -> {"new", "scheduling", "spawning", "up", "failing",
                              "removing", "cleanup", "over"}]
    /\ \A s \in rows : start[s] # "new"
    /\ closing \subseteq Servers
    /\ scheduled \subseteq Servers
    /\ conn \in [Conns -> {"none", "added", "open", "closing", "closed"}]
    /\ handles \subseteq {c \in Conns : conn[c] \in {"open", "closing"}}
    /\ unlinking \subseteq Conns
    /\ worker \in [Workers -> Alive \cup {"unborn", "dead"}]

Init ==
    /\ rows = {}
    /\ status = [s \in Servers |-> "Starting"]
    /\ start = [s \in Servers |-> "new"]
    /\ closing = {}
    /\ scheduled = {}
    /\ conn = [c \in Conns |-> "none"]
    /\ handles = {}
    /\ unlinking = {}
    /\ worker = [w \in Workers |-> "unborn"]

-----------------------------------------------------------------------------
StartGoes(s, from, to) == start[s] = from /\ start' = [start EXCEPT ![s] = to]

\* Abort of the registered ones among ws.
Abort(ws) == worker' = [w \in Workers |->
                          IF w \in ws /\ worker[w] = "registered" THEN "aborted" ELSE worker[w]]

\* teardown_server with the removal of the row, under one lock.
AbortOwn(s) == Abort({w \in Workers : KeyOf[w] = s})
AbortAll(s) == Abort(Of(s))
HandlesLeft(s) == {c \in handles : ServerOf[c] # s}
teardown_server(s) ==
    /\ rows' = rows \ {s}
    /\ AbortAll(s)
    /\ handles' = HandlesLeft(s)
    /\ scheduled' = scheduled \ {s}

\* add_server, and the guard that owns the registration from here on.
add_server(s) ==
    /\ StartGoes(s, "new", "scheduling")
    /\ rows' = rows \cup {s}
    /\ UNCHANGED <<status, closing, scheduled, conn, handles, unlinking, worker>>

\* One of the scheduled_tasks of the action; add_task does not look at rows.
add_task(s) ==
    /\ start[s] = "scheduling"
    /\ scheduled' = scheduled \cup {s}
    /\ UNCHANGED <<rows, status, start, closing, conn, handles, unlinking, worker>>

\* protocol_impl.spawn is called, and returns.
spawn_called(s) ==
    /\ StartGoes(s, "scheduling", "spawning")
    /\ UNCHANGED <<rows, status, closing, scheduled, conn, handles, unlinking, worker>>

spawn_returns(s) ==
    /\ StartGoes(s, "spawning", "up") \/ StartGoes(s, "spawning", "failing")
    /\ UNCHANGED <<rows, status, closing, scheduled, conn, handles, unlinking, worker>>

\* update_server_status, which needs the row.
SetStatus(s, value) ==
    status' = IF s \in rows THEN [status EXCEPT ![s] = value] ELSE status

\* The start succeeded: Running, and the guard is disarmed.
set_running(s) ==
    /\ StartGoes(s, "up", "over")
    /\ SetStatus(s, "Running")
    /\ UNCHANGED <<rows, closing, scheduled, conn, handles, unlinking, worker>>

\* It failed: Error, then remove_server.
set_error(s) ==
    /\ StartGoes(s, "failing", "removing")
    /\ SetStatus(s, "Error")
    /\ UNCHANGED <<rows, closing, scheduled, conn, handles, unlinking, worker>>

remove_failed(s) ==
    /\ StartGoes(s, "removing", "over")
    /\ teardown_server(s)
    /\ UNCHANGED <<status, closing, conn, unlinking>>

\* The starting task is cancelled at an await: the guard's drop spawns the
\* cleanup, which calls remove_server.
GuardArmed == {"scheduling", "spawning", "up", "failing", "removing"}
LeaveToCaller(s) == start' = [start EXCEPT ![s] = "over"]
SpawnCleanup(s) == start' = [start EXCEPT ![s] = "cleanup"]
cancel_start(s) ==
    /\ start[s] \in GuardArmed
    /\ SpawnCleanup(s)
    /\ UNCHANGED <<rows, status, closing, scheduled, conn, handles, unlinking, worker>>

cleanup(s) ==
    /\ StartGoes(s, "cleanup", "over")
    /\ teardown_server(s)
    /\ UNCHANGED <<status, closing, conn, unlinking>>

-----------------------------------------------------------------------------
\* stop_server of the MCP tools or of the dashboard.
remove_server(s) ==
    /\ s \in rows
    /\ teardown_server(s)
    /\ UNCHANGED <<status, start, closing, conn, unlinking>>

\* The close_server action: Stopped under one lock ...
close_server(s) ==
    /\ s \in rows
    /\ s \notin closing
    /\ SetStatus(s, "Stopped")
    /\ closing' = closing \cup {s}
    /\ UNCHANGED <<rows, start, scheduled, conn, handles, unlinking, worker>>

\* ... and cleanup_server_tasks under the next.
cleanup_server_tasks(s) ==
    /\ s \in closing
    /\ closing' = closing \ {s}
    /\ scheduled' = scheduled \ {s}
    /\ UNCHANGED <<rows, status, start, conn, handles, unlinking, worker>>

\* cleanup_old_servers removes a row that has been Stopped for long enough.
cleanup_old_servers(s) ==
    /\ s \in rows
    /\ status[s] = "Stopped"
    /\ teardown_server(s)
    /\ UNCHANGED <<status, start, closing, conn, unlinking>>

-----------------------------------------------------------------------------
\* Code of server s is running: its spawn, or one of its workers.
Runs(s) == start[s] = "spawning" \/ \E w \in Of(s) : worker[w] \in Alive

\* tokio::spawn and the creation of the registration future; the worker of a
\* connection is spawned by that connection's setup.
spawn_worker(w) ==
    /\ worker[w] = "unborn"
    /\ Runs(Owner(KeyOf[w]))
    /\ KeyOf[w] \in Conns => conn[KeyOf[w]] = "open"
    /\ worker' = [worker EXCEPT ![w] = "pending"]
    /\ UNCHANGED <<rows, status, start, closing, scheduled, conn, handles, unlinking>>

\* register_server_task and register_peer_task get the lock: the worker is
\* tracked if its owner is still there, else aborted.
RegistersAlways(w) == TRUE
OwnerIsThere(w) == /\ Owner(KeyOf[w]) \in rows
                   /\ KeyOf[w] \in Conns => KeyOf[w] \in handles
register_task(w) ==
    /\ worker[w] = "pending"
    /\ worker' = [worker EXCEPT ![w] = IF OwnerIsThere(w) THEN "registered" ELSE "aborted"]
    /\ UNCHANGED <<rows, status, start, closing, scheduled, conn, handles, unlinking>>

\* The registration is dropped with the task that awaits it.
drop_registration(w) ==
    /\ worker[w] = "pending"
    /\ worker' = [worker EXCEPT ![w] = "aborted"]
    /\ UNCHANGED <<rows, status, start, closing, scheduled, conn, handles, unlinking>>

\* A worker ends by itself (its handle is pruned later) or by its abort.
worker_ends(w) ==
    /\ worker[w] \in Alive
    /\ worker' = [worker EXCEPT ![w] = "dead"]
    /\ UNCHANGED <<rows, status, start, closing, scheduled, conn, handles, unlinking>>

ConnGoes(c, from, to) == conn[c] = from /\ conn' = [conn EXCEPT ![c] = to]

\* A connection is accepted and added to its server's row.
add_connection(c) ==
    /\ Runs(ServerOf[c])
    /\ ConnGoes(c, "none", "added")
    /\ UNCHANGED <<rows, status, start, closing, scheduled, handles, unlinking, worker>>

\* register_peer_handle, a no-op once the server is gone.
register_peer_handle(c) ==
    /\ Runs(ServerOf[c])
    /\ ConnGoes(c, "added", "open")
    /\ handles' = IF ServerOf[c] \in rows THEN handles \cup {c} ELSE handles
    /\ UNCHANGED <<rows, status, start, closing, scheduled, unlinking, worker>>

\* send_to_peer finds the loop's receiver gone and drops the handle alone.
prune_handle(c) ==
    /\ c \in handles
    /\ \A w \in OfConn(c) : worker[w] \in {"aborted", "dead"}
    /\ handles' = handles \ {c}
    /\ UNCHANGED <<rows, status, start, closing, scheduled, conn, unlinking, worker>>

\* close_connection_on_server at the end of the connection's task: the row's
\* entry under one lock, remove_peer under the next.
close_connection(c) ==
    /\ Runs(ServerOf[c])
    /\ ConnGoes(c, "open", "closing")
    /\ UNCHANGED <<rows, status, start, closing, scheduled, handles, unlinking, worker>>

remove_peer(c) == handles' = handles \ {c} /\ Abort(OfConn(c))

finish_close(c) ==
    /\ ConnGoes(c, "closing", "closed")
    /\ remove_peer(c)
    /\ UNCHANGED <<rows, status, start, closing, scheduled, unlinking>>

\* The same from outside (the close_connection action, an injected
\* disconnect), at any time after the connection was added.
close_from_outside(c) ==
    /\ conn[c] # "none"
    /\ c \notin unlinking
    /\ unlinking' = unlinking \cup {c}
    /\ UNCHANGED <<rows, status, start, closing, scheduled, conn, handles, worker>>

finish_from_outside(c) ==
    /\ c \in unlinking
    /\ unlinking' = unlinking \ {c}
    /\ remove_peer(c)
    /\ UNCHANGED <<rows, status, start, closing, scheduled, conn>>

start_step(s) ==
    \/ add_task(s) \/ spawn_called(s) \/ spawn_returns(s)
    \/ set_running(s) \/ set_error(s) \/ remove_failed(s)

Next ==
    \/ \E s \in Servers : \/ add_server(s) \/ start_step(s) \/ cancel_start(s) \/ cleanup(s)
                          \/ remove_server(s) \/ close_server(s) \/ cleanup_server_tasks(s)
                          \/ cleanup_old_servers(s)
    \/ \E c \in Conns : \/ add_connection(c) \/ register_peer_handle(c) \/ prune_handle(c)
                        \/ close_connection(c) \/ finish_close(c)
                        \/ close_from_outside(c) \/ finish_from_outside(c)
    \/ \E w \in Workers : \/ spawn_worker(w) \/ register_task(w) \/ drop_registration(w)
                          \/ worker_ends(w)

Spec == Init /\ [][Next]_vars

\* A start runs on (or fails), the cleanup future and a registration get the
\* lock, and the runtime polls an aborted worker.
Fairness ==
    /\ \A s \in Servers : /\ WF_vars(spawn_called(s)) /\ WF_vars(spawn_returns(s))
                          /\ WF_vars(set_running(s)) /\ WF_vars(set_error(s))
                          /\ WF_vars(remove_failed(s)) /\ WF_vars(cleanup(s))
    /\ \A w \in Workers : /\ WF_vars(register_task(w))
                          /\ WF_vars(worker[w] = "aborted" /\ worker_ends(w))

FairSpec == Spec /\ Fairness

-----------------------------------------------------------------------------
(***************************************************************************)
(* No worker or handle outlives its server: whatever the registry holds    *)
(* belongs to a row, so the next removal reaches it.  "If the server was   *)
(* already removed (raced with stop), the task is aborted immediately."    *)
(***************************************************************************)
NothingOutlivesServer ==
    /\ \A w \in Workers : worker[w] = "registered" => Owner(KeyOf[w]) \in rows
    /\ \A c \in handles : ServerOf[c] \in rows

(***************************************************************************)
(* "If removal wins the race, register_peer_task aborts the worker instead *)
(* of resurrecting a closed peer": once a connection's task has closed it, *)
(* its worker dies, however late it was registered.                        *)
(***************************************************************************)
ClosedConnectionStops ==
    \A c \in Conns : conn[c] = "closed" ~> \A w \in OfConn(c) : worker[w] \in {"unborn", "dead"}

(***************************************************************************)
(* A removed server stops: after the row is gone every worker dies, those  *)
(* that were being spawned or registered at that moment included.          *)
(***************************************************************************)
RemovedServerStops ==
    \A s \in Servers : (start[s] = "over" /\ s \notin rows)
                           ~> \A w \in Of(s) : worker[w] \in {"unborn", "dead"}

(***************************************************************************)
(* "Zombie rows that can never transition anywhere" do not accumulate: a   *)
(* start that fails or is cancelled, wherever it stood, ends without a     *)
(* row; otherwise the server is Running, or was closed meanwhile.          *)
(***************************************************************************)
NoZombieRow ==
    \A s \in Servers : start[s] \in GuardArmed
                           ~> s \notin rows \/ status[s] \in {"Running", "Stopped"}

(***************************************************************************)
(* remove_server: "... cancelling the scheduled tasks scoped to it": no    *)
(* scheduled task is left of a server that is gone and not starting.       *)
(***************************************************************************)
NoOrphanedSchedule ==
    \A s \in scheduled : s \in rows \/ start[s] \in GuardArmed \cup {"cleanup"}

(***************************************************************************)
(* The invariant of the servers: their types, and nothing kept for one     *)
(* that is gone.                                                           *)
(***************************************************************************)
ServerInv == TypeOK /\ NothingOutlivesServer
=============================================================================
