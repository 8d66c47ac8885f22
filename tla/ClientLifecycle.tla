--------------------------- MODULE ClientLifecycle --------------------------
(***************************************************************************)
(* A client's life in AppState (src/state/app_state.rs): the guarded start *)
(* (src/cli/client_startup.rs), the open_client, reconnect and close       *)
(* actions (src/events/handler.rs), disconnect and stop, its workers, its  *)
(* command handle and its LLM budget.                                      *)
(*                                                                         *)
(* Each step is one stretch under the state lock; workers are as in        *)
(* ServerLifecycle.  connect is the protocol's own code: it spawns workers *)
(* and registers a handle, and succeeds or fails.  The scheduled tasks of  *)
(* a client are part of TaskScheduler.                                     *)
(***************************************************************************)
EXTENDS Naturals, FiniteSets

CONSTANTS Clients,
          Workers,    \* background tasks, each spawned at most once
          ClientOf,   \* the client a worker belongs to
          CallLimit,  \* client_llm_call_limit; 0 for none
          LastCall    \* bound: LLM calls counted for a client

ClientConstantsOK ==
    /\ ClientOf \in [Workers -> Clients]
    /\ CallLimit \in Nat /\ LastCall \in Nat

VARIABLES rows,       \* clients in the map
          status,     \* what the row says
          start,      \* where start_client_from_action stands
          dial,       \* where start_client_by_id stands
          hanging,    \* clients between the two locks of disconnect_client
          closing,    \* clients between the two locks of close_client
          handles,    \* clients with a command handle
          calls,      \* client_llm_calls: entries of the map
          worker

vars == <<rows, status, start, dial, hanging, closing, handles, calls,
          worker>>

Of(c) == {w \in Workers : ClientOf[w] = c}
Alive == {"pending", "registered", "aborted"}

TypeOK ==
    /\ rows \subseteq Clients
    /\ status \in [Clients -> {"Connecting", "Connected", "Disconnected", "Error"}]
    /\ start \in [Clients -> {"new", "scheduling", "connecting", "up", "failing",
                              "removing", "cleanup", "over"}]
    /\ dial \in [Clients -> {"none", "connecting", "up", "failing"}]
    /\ hanging \subseteq Clients /\ closing \subseteq Clients
    /\ handles \subseteq Clients
    /\ calls \in [Clients -> 0..LastCall]
    /\ \A c \in Clients : CallLimit > 0 => calls[c] <= CallLimit
    /\ worker \in [Workers -> Alive \cup {"unborn", "dead"}]

Init ==
    /\ rows = {}
    /\ status = [c \in Clients |-> "Connecting"]
    /\ start = [c \in Clients |-> "new"]
    /\ dial = [c \in Clients |-> "none"]
    /\ hanging = {} /\ closing = {}
    /\ handles = {}
    /\ calls = [c \in Clients |-> 0]
    /\ worker = [w \in Workers |-> "unborn"]

-----------------------------------------------------------------------------
StartGoes(c, from, to) == start[c] = from /\ start' = [start EXCEPT ![c] = to]
DialGoes(c, from, to) == dial[c] = from /\ dial' = [dial EXCEPT ![c] = to]

\* update_client_status, which needs the row.
SetStatus(c, value) ==
    status' = IF c \in rows THEN [status EXCEPT ![c] = value] ELSE status

Abort(ws) == worker' = [w \in Workers |->
                          IF w \in ws /\ worker[w] = "registered" THEN "aborted" ELSE worker[w]]

\* remove_client, under the lock.
AbortTasks(c) == Abort(Of(c))
remove(c) ==
    /\ rows' = rows \ {c}
    /\ AbortTasks(c)
    /\ handles' = handles \ {c}
    /\ calls' = [calls EXCEPT ![c] = 0]
    /\ UNCHANGED <<status, dial, hanging, closing>>

\* add_client of the guarded start, which then adds the scheduled tasks.
add_client(c) ==
    /\ StartGoes(c, "new", "scheduling")
    /\ rows' = rows \cup {c}
    /\ UNCHANGED <<status, dial, hanging, closing, handles, calls, worker>>

\* connect is called, and returns.
connect_step(c) ==
    /\ \/ StartGoes(c, "scheduling", "connecting")
       \/ StartGoes(c, "connecting", "up")
       \/ StartGoes(c, "connecting", "failing")
    /\ UNCHANGED <<rows, status, dial, hanging, closing, handles, calls,
                   worker>>

\* It succeeded, and the guard is disarmed; or it failed: Error, then removal.
set_result(c) ==
    /\ \/ StartGoes(c, "up", "over") /\ SetStatus(c, "Connected")
       \/ StartGoes(c, "failing", "removing") /\ SetStatus(c, "Error")
    /\ UNCHANGED <<rows, dial, hanging, closing, handles, calls, worker>>

remove_failed(c) == StartGoes(c, "removing", "over") /\ remove(c)

\* The start is cancelled at an await: the guard's drop spawns the cleanup.
GuardArmed == {"scheduling", "connecting", "up", "failing", "removing"}
SpawnCleanup(c) == start' = [start EXCEPT ![c] = "cleanup"]
cancel_start(c) ==
    /\ start[c] \in GuardArmed
    /\ SpawnCleanup(c)
    /\ UNCHANGED <<rows, status, dial, hanging, closing, handles, calls,
                   worker>>

cleanup(c) == StartGoes(c, "cleanup", "over") /\ remove(c)

-----------------------------------------------------------------------------
\* The open_client action: a row without a guard, then start_client_by_id.
open_client(c) ==
    /\ StartGoes(c, "new", "over")
    /\ rows' = rows \cup {c}
    /\ DialGoes(c, "none", "connecting")
    /\ UNCHANGED <<status, hanging, closing, handles, calls, worker>>

\* reconnect_client and the dashboard's connect.
reconnect(c) ==
    /\ start[c] = "over"
    /\ c \in rows
    /\ DialGoes(c, "none", "connecting")
    /\ UNCHANGED <<rows, status, start, hanging, closing, handles, calls, worker>>

dial_returns(c) ==
    /\ DialGoes(c, "connecting", "up") \/ DialGoes(c, "connecting", "failing")
    /\ UNCHANGED <<rows, status, start, hanging, closing, handles, calls,
                   worker>>

dial_ends(c) ==
    /\ \/ DialGoes(c, "up", "none") /\ SetStatus(c, "Connected")
       \/ DialGoes(c, "failing", "none") /\ SetStatus(c, "Error")
    /\ UNCHANGED <<rows, start, hanging, closing, handles, calls, worker>>

\* stop_client.
remove_client(c) == c \in rows /\ remove(c) /\ UNCHANGED start

\* disconnect_client: tasks and handle under one lock, the status under the next.
disconnect_client(c) ==
    /\ c \in rows \ hanging
    /\ Abort(Of(c))
    /\ handles' = handles \ {c}
    /\ hanging' = hanging \cup {c}
    /\ UNCHANGED <<rows, status, start, dial, closing, calls>>

set_disconnected(c) ==
    /\ c \in hanging
    /\ hanging' = hanging \ {c}
    /\ SetStatus(c, "Disconnected")
    /\ UNCHANGED <<rows, start, dial, closing, handles, calls, worker>>

\* The close_client action: the status, then cleanup_client_tasks, which drops
\* the scheduled tasks.
close_client(c) ==
    /\ c \in rows \ closing
    /\ SetStatus(c, "Disconnected")
    /\ closing' = closing \cup {c}
    /\ UNCHANGED <<rows, start, dial, hanging, handles, calls, worker>>

cleanup_client_tasks(c) ==
    /\ c \in closing
    /\ closing' = closing \ {c}
    /\ UNCHANGED <<rows, status, start, dial, hanging, handles, calls, worker>>

-----------------------------------------------------------------------------
\* Code of client c is running: a connect, or one of its workers.
Runs(c) == \/ start[c] = "connecting" \/ dial[c] = "connecting"
           \/ \E w \in Of(c) : worker[w] \in Alive

spawn_worker(w) ==
    /\ worker[w] = "unborn"
    /\ Runs(ClientOf[w])
    /\ worker' = [worker EXCEPT ![w] = "pending"]
    /\ UNCHANGED <<rows, status, start, dial, hanging, closing, handles,
                   calls>>

\* register_client_task gets the lock, or its future is dropped.
OwnerIsThere(w) == ClientOf[w] \in rows
register_task(w) ==
    /\ worker[w] = "pending"
    /\ worker' = [worker EXCEPT ![w] = IF OwnerIsThere(w) THEN "registered" ELSE "aborted"]
    /\ UNCHANGED <<rows, status, start, dial, hanging, closing, handles,
                   calls>>

drop_registration(w) ==
    /\ worker[w] = "pending"
    /\ worker' = [worker EXCEPT ![w] = "aborted"]
    /\ UNCHANGED <<rows, status, start, dial, hanging, closing, handles,
                   calls>>

worker_ends(w) ==
    /\ worker[w] \in Alive
    /\ worker' = [worker EXCEPT ![w] = "dead"]
    /\ UNCHANGED <<rows, status, start, dial, hanging, closing, handles,
                   calls>>

\* register_client_handle, and the loop's own remove_client_handle at its end.
register_handle(c) ==
    /\ Runs(c)
    /\ c \in rows
    /\ handles' = handles \cup {c}
    /\ UNCHANGED <<rows, status, start, dial, hanging, closing, calls,
                   worker>>

remove_handle(c) ==
    /\ c \in handles
    /\ handles' = handles \ {c}
    /\ UNCHANGED <<rows, status, start, dial, hanging, closing, calls,
                   worker>>

\* try_consume_client_llm_call: a client that is gone is not counted, one at
\* its limit is refused.
Counted(c) == c \in rows
MayCall(c) == CallLimit = 0 \/ calls[c] < CallLimit
try_consume_call(c) ==
    /\ Runs(c)
    /\ Counted(c)
    /\ MayCall(c)
    /\ calls[c] < LastCall
    /\ calls' = [calls EXCEPT ![c] = @ + 1]
    /\ UNCHANGED <<rows, status, start, dial, hanging, closing, handles,
                   worker>>

start_step(c) == connect_step(c) \/ set_result(c) \/ remove_failed(c) \/ cleanup(c)
dial_step(c) == dial_returns(c) \/ dial_ends(c)

Next ==
    \/ \E c \in Clients : \/ add_client(c) \/ start_step(c) \/ cancel_start(c)
                          \/ open_client(c) \/ reconnect(c) \/ dial_step(c)
                          \/ remove_client(c)
                          \/ disconnect_client(c) \/ set_disconnected(c)
                          \/ close_client(c) \/ cleanup_client_tasks(c)
                          \/ register_handle(c) \/ remove_handle(c) \/ try_consume_call(c)
    \/ \E w \in Workers : \/ spawn_worker(w) \/ register_task(w) \/ drop_registration(w)
                          \/ worker_ends(w)

Spec == Init /\ [][Next]_vars

\* A start or a dial runs on, disconnect and close get their second lock, a
\* registration gets the lock, and the runtime polls an aborted worker.
Fairness ==
    /\ \A c \in Clients : /\ WF_vars(start_step(c)) /\ WF_vars(dial_step(c))
                          /\ WF_vars(set_disconnected(c)) /\ WF_vars(cleanup_client_tasks(c))
    /\ \A w \in Workers : /\ WF_vars(register_task(w))
                          /\ WF_vars(worker[w] = "aborted" /\ worker_ends(w))

FairSpec == Spec /\ Fairness

-----------------------------------------------------------------------------
(***************************************************************************)
(* No worker, command handle or LLM-call counter is kept for a client that *)
(* is gone, whatever raced with its removal: "a command handle must never  *)
(* outlive the client it points at".                                       *)
(***************************************************************************)
NothingOutlivesClient ==
    /\ \A w \in Workers : worker[w] = "registered" => ClientOf[w] \in rows
    /\ handles \subseteq rows
    /\ \A c \in Clients : calls[c] > 0 => c \in rows

(***************************************************************************)
(* stop_client "actually stops a client rather than just forgetting it":   *)
(* after the row is gone every worker dies, those being registered too.    *)
(***************************************************************************)
RemovedClientStops ==
    \A c \in Clients : (start[c] = "over" /\ dial[c] = "none" /\ c \notin rows)
                          ~> \A w \in Of(c) : worker[w] \in {"unborn", "dead"}

(***************************************************************************)
(* A guarded start that fails or is cancelled leaves no row that says      *)
(* Connecting or Error for ever.                                           *)
(***************************************************************************)
GuardedStartLeavesNoZombie ==
    \A c \in Clients : start[c] \in GuardArmed
                          ~> c \notin rows \/ status[c] \in {"Connected", "Disconnected"}

(***************************************************************************)
(* The invariant of the clients: their types, and nothing kept for one     *)
(* that is gone.                                                           *)
(***************************************************************************)
ClientInv == TypeOK /\ NothingOutlivesClient
=============================================================================
