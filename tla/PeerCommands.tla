---------------------------- MODULE PeerCommands ----------------------------
(***************************************************************************)
(* Actions injected into one connection of a server (send_to_peer of       *)
(* src/state/app_state.rs, src/server/peer_support.rs): the connection has *)
(* a handle and a command worker of its own, both dropped by whoever       *)
(* closes the connection: its reader, an operator, the removal of the      *)
(* server, or the worker itself after an injected disconnect.              *)
(*                                                                         *)
(* Every wait for the state lock is an await of the worker: if its task    *)
(* was aborted it ends there, unless the lock is free and it never waits.  *)
(***************************************************************************)
EXTENDS Naturals, Sequences

CONSTANTS Callers,   \* send_to_peer calls, one command each
          Capacity   \* CLIENT_COMMAND_CAPACITY

CapacityIsPositive == Capacity \in Nat \ {0}

VARIABLES row,       \* what the server's row says of the connection
          handle,    \* the connection has a peer handle
          tracked,   \* the registration of the worker's task
          closer,    \* close_connection_on_server of the reader or an operator
          worker,    \* where the command worker stands
          current,   \* the command in its hands
          queue,     \* commands in the channel
          hungup,    \* the write side was shut down
          caller,    \* where each call stands
          reply      \* the oneshot of each command

vars == <<row, handle, tracked, closer, worker, current, queue, hungup, caller, reply>>

Queued == {queue[i] : i \in 1..Len(queue)}
Settled == {"refused", "busy", "outcome", "disconnected", "no_outcome"}

TypeOK ==
    /\ row \in {"live", "closed", "removed"}
    /\ handle \in BOOLEAN
    /\ tracked \in {"pending", "registered", "aborted"}
    /\ closer \in {"none", "marked", "done"}
    /\ worker \in {"idle", "executing", "logging", "unlisting", "marking", "replying", "gone"}
    /\ current \subseteq Callers
    /\ queue \in Seq(Callers) /\ Len(queue) <= Capacity
    /\ hungup \in BOOLEAN
    /\ caller \in [Callers -> {"new", "holding", "pruning", "awaiting"} \cup Settled]
    /\ reply \in [Callers -> {"empty", "full", "hangup", "no_sender"}]

\* register_peer_channel and spawn_peer_command_task have run.
Init ==
    /\ row = "live"
    /\ handle = TRUE
    /\ tracked = "pending"
    /\ closer = "none"
    /\ worker = "idle"
    /\ current = {}
    /\ queue = <<>>
    /\ hungup = FALSE
    /\ caller = [k \in Callers |-> "new"]
    /\ reply = [k \in Callers |-> "empty"]

-----------------------------------------------------------------------------
\* The caller: clone the handle, try_send, await the reply.
CallerGoes(k, from, to) == caller[k] = from /\ caller' = [caller EXCEPT ![k] = to]

send_to_peer(k) ==
    /\ CallerGoes(k, "new", IF handle THEN "holding" ELSE "refused")
    /\ UNCHANGED <<row, handle, tracked, closer, worker, current, queue, hungup, reply>>

HasRoom == worker # "gone" /\ Len(queue) < Capacity
try_send(k) ==
    /\ IF HasRoom
         THEN CallerGoes(k, "holding", "awaiting") /\ queue' = Append(queue, k)
         ELSE CallerGoes(k, "holding", "pruning") /\ UNCHANGED queue
    /\ UNCHANGED <<row, handle, tracked, closer, worker, current, hungup, reply>>

\* Under the lock: a dead entry is removed, anything else is "busy".
NotTaking == TRUE
ReceiverDropped == worker = "gone"
IsClosed == ReceiverDropped
prune(k) ==
    /\ IF handle /\ IsClosed
         THEN CallerGoes(k, "pruning", "disconnected") /\ handle' = FALSE
         ELSE CallerGoes(k, "pruning", "busy") /\ UNCHANGED handle
    /\ UNCHANGED <<row, tracked, closer, worker, current, queue, hungup, reply>>

receive(k) ==
    /\ \/ reply[k] = "full" /\ CallerGoes(k, "awaiting", "outcome")
       \/ reply[k] \in {"hangup", "no_sender"} /\ CallerGoes(k, "awaiting", "disconnected")
    /\ UNCHANGED <<row, handle, tracked, closer, worker, current, queue, hungup, reply>>

time_out(k) ==
    /\ reply[k] = "empty"
    /\ CallerGoes(k, "awaiting", "no_outcome")
    /\ UNCHANGED <<row, handle, tracked, closer, worker, current, queue, hungup, reply>>

-----------------------------------------------------------------------------
\* remove_peer: the handle goes, and the worker if it is registered.
remove_peer ==
    /\ handle' = FALSE
    /\ tracked' = IF tracked = "registered" THEN "aborted" ELSE tracked

\* register_peer_task, from a task of its own.
register_peer_task ==
    /\ tracked = "pending"
    /\ tracked' = IF handle /\ row # "removed" THEN "registered" ELSE "aborted"
    /\ UNCHANGED <<row, handle, closer, worker, current, queue, hungup, caller, reply>>

\* close_connection_on_server of the reader or of an operator, in two locks.
MarkClosed == row' = IF row = "live" THEN "closed" ELSE row

close_connection ==
    /\ closer = "none"
    /\ closer' = "marked"
    /\ MarkClosed
    /\ UNCHANGED <<handle, tracked, worker, current, queue, hungup, caller, reply>>

finish_close ==
    /\ closer = "marked"
    /\ closer' = "done"
    /\ remove_peer
    /\ UNCHANGED <<row, worker, current, queue, hungup, caller, reply>>

\* The server is removed.
remove_server ==
    /\ row # "removed"
    /\ row' = "removed"
    /\ remove_peer
    /\ UNCHANGED <<closer, worker, current, queue, hungup, caller, reply>>

-----------------------------------------------------------------------------
WorkerGoes(from, to) == worker = from /\ worker' = to

take_command ==
    /\ queue # <<>>
    /\ WorkerGoes("idle", "executing")
    /\ current' = {Head(queue)}
    /\ queue' = Tail(queue)
    /\ UNCHANGED <<row, handle, tracked, closer, hungup, caller, reply>>

\* execute_peer_action writes, fails or hangs up, once it has the write half;
\* it has no timeout, and takes as long as the peer does not read.  Its outcome
\* is not seen by anybody before the reply.
execute(hangs) ==
    /\ WorkerGoes("executing", IF hangs THEN "unlisting" ELSE "logging")
    /\ hungup' = (hungup \/ hangs)
    /\ UNCHANGED <<row, handle, tracked, closer, current, queue, caller, reply>>

\* record_access_log, update_connection_stats and the reply.
Reply(value) == reply' = [k \in Callers |-> IF k \in current THEN value ELSE reply[k]]

reply_outcome ==
    /\ WorkerGoes("logging", "idle")
    /\ Reply("full")
    /\ current' = {}
    /\ UNCHANGED <<row, handle, tracked, closer, queue, hungup, caller>>

\* After a hang-up: the log, remove_peer_handle, which aborts the task that
\* runs this very code, the two locks of close_connection_on_server, and the
\* reply.
unlist ==
    /\ WorkerGoes("unlisting", "marking")
    /\ remove_peer
    /\ UNCHANGED <<row, closer, current, queue, hungup, caller, reply>>

mark_closed ==
    /\ WorkerGoes("marking", "replying")
    /\ MarkClosed
    /\ UNCHANGED <<handle, tracked, closer, current, queue, hungup, caller, reply>>

reply_hangup ==
    /\ WorkerGoes("replying", "idle")
    /\ Reply("hangup")
    /\ current' = {}
    /\ UNCHANGED <<row, handle, tracked, closer, queue, hungup, caller>>

\* The worker's end drops the receiver, what is queued and what it holds.
CurrentOnly == current
Everything == Queued \cup current
Dropped == Everything
WorkerEnds ==
    /\ worker' = "gone"
    /\ reply' = [k \in Callers |-> IF k \in Dropped THEN "no_sender" ELSE reply[k]]
    /\ current' = {}
    /\ queue' = <<>>
    /\ UNCHANGED <<row, handle, tracked, closer, hungup, caller>>

\* An aborted worker ends at an await that has to wait.
cancelled == tracked = "aborted" /\ worker # "gone" /\ WorkerEnds

\* recv returns None: no handle and no clone of it is left; a call keeps its
\* clone until it returns.
channel_closed ==
    /\ worker = "idle" /\ queue = <<>>
    /\ ~handle /\ \A k \in Callers : caller[k] \notin {"holding", "pruning", "awaiting"}
    /\ WorkerEnds

\* The protocol's action panics: the task ends, the handle stays.
panics == worker = "executing" /\ WorkerEnds

worker_step == \/ take_command \/ reply_outcome
               \/ unlist \/ mark_closed \/ reply_hangup \/ cancelled \/ channel_closed
caller_step(k) == try_send(k) \/ prune(k) \/ receive(k)

Next ==
    \/ \E k \in Callers : send_to_peer(k) \/ caller_step(k) \/ time_out(k)
    \/ register_peer_task \/ close_connection \/ finish_close \/ remove_server
    \/ worker_step \/ execute(TRUE) \/ execute(FALSE) \/ panics

Spec == Init /\ [][Next]_vars

\* The worker, its registration and the calls run.  No use is made of the
\* calls' timeouts, and the peer need never read or close its side: execute
\* is not fair.
Fairness == /\ WF_vars(worker_step) /\ WF_vars(register_peer_task)
            /\ \A k \in Callers : WF_vars(caller_step(k))

FairSpec == Spec /\ Fairness

-----------------------------------------------------------------------------
(***************************************************************************)
(* A caller told Disconnected can rely on it, whichever of the three ways  *)
(* it learned it (the worker's reply, a reply that was dropped, a handle   *)
(* that was pruned): the server hung up or nobody takes commands any more, *)
(* and the handle is no longer offered or leads nowhere.                   *)
(***************************************************************************)
DisconnectedIsTrue ==
    \A k \in Callers : caller[k] = "disconnected" =>
        /\ hungup \/ worker = "gone"
        /\ ~handle \/ worker = "gone"

(***************************************************************************)
(* No call needs its timeout once the connection's handle is gone: a       *)
(* worker that is cancelled, even by itself in the middle of a command, or *)
(* blocked in a write to a peer that does not read, releases every call,   *)
(* the ones still queued included.  Nor does one whose worker is not       *)
(* blocked in such a write for ever.                                       *)
(***************************************************************************)
NobodyIsLeftWaiting ==
    /\ \A k \in Callers : (caller[k] = "awaiting" /\ ~handle) ~> caller[k] \in Settled
    /\ ([]<>(worker # "executing")) =>
          \A k \in Callers : caller[k] = "awaiting" ~> caller[k] \in Settled

(***************************************************************************)
(* The invariant of a connection's command channel: its types, and a true  *)
(* "disconnected".                                                         *)
(***************************************************************************)
PeerInv == TypeOK /\ DisconnectedIsTrue
=============================================================================
