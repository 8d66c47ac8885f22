--------------------------- MODULE CommandChannel ---------------------------
(***************************************************************************)
(* Actions injected into a running client (send_to_client of               *)
(* src/state/app_state.rs, src/state/client_handles.rs and the command arm *)
(* of src/client/command_support.rs): a caller clones the client's handle, *)
(* puts a command into a bounded channel under a timeout and awaits the    *)
(* reply under another; the connection loop takes one command at a time,   *)
(* executes it, records it in the access log under the state lock, and     *)
(* only then replies.                                                      *)
(*                                                                         *)
(* The loop may end at any await: it exits, or its task is aborted.        *)
(***************************************************************************)
EXTENDS Naturals, Sequences

CONSTANTS Callers,   \* send_to_client calls, one command each
          Capacity   \* CLIENT_COMMAND_CAPACITY

ASSUME CapacityAssumption == Capacity \in Nat \ {0}

VARIABLES handle,    \* the client has a registered handle
          queue,     \* commands in the channel
          loop,      \* where the connection loop stands
          current,   \* the command it has taken
          caller,    \* where each call stands
          reply,     \* the oneshot of each command
          executed   \* times each command was put on the wire

vars == <<handle, queue, loop, current, caller, reply, executed>>

Queued == {queue[i] : i \in 1..Len(queue)}
Failed == {"refused", "closed", "busy", "dropped", "no_outcome"}

TypeOK ==
    /\ handle \in BOOLEAN
    /\ queue \in Seq(Callers) /\ Len(queue) <= Capacity
    /\ loop \in {"idle", "executing", "logging", "gone"}
    /\ current \subseteq Callers
    /\ caller \in [Callers -> {"new", "sending", "awaiting", "outcome"} \cup Failed]
    /\ reply \in [Callers -> {"empty", "full", "no_sender"}]
    /\ executed \in [Callers -> 0..1]

Init ==
    /\ handle = TRUE
    /\ queue = <<>>
    /\ loop = "idle"
    /\ current = {}
    /\ caller = [k \in Callers |-> "new"]
    /\ reply = [k \in Callers |-> "empty"]
    /\ executed = [k \in Callers |-> 0]

CallerGoes(k, from, to) == caller[k] = from /\ caller' = [caller EXCEPT ![k] = to]

-----------------------------------------------------------------------------
\* send_to_client clones the handle, which keeps the channel's sender alive.
send_to_client(k) ==
    /\ CallerGoes(k, "new", IF handle THEN "sending" ELSE "refused")
    /\ UNCHANGED <<handle, queue, loop, current, reply, executed>>

\* command_tx.send has room, finds the channel closed, or runs out of time.
Room == Len(queue) < Capacity
HasRoom == Room
enqueue(k) ==
    /\ loop # "gone"
    /\ HasRoom
    /\ CallerGoes(k, "sending", "awaiting")
    /\ queue' = Append(queue, k)
    /\ UNCHANGED <<handle, loop, current, reply, executed>>

find_closed(k) ==
    /\ loop = "gone"
    /\ CallerGoes(k, "sending", "closed")
    /\ UNCHANGED <<handle, queue, loop, current, reply, executed>>

\* A send that is given up takes its command with it.
QueueAnyway(k) == queue' = IF Room /\ loop # "gone" THEN Append(queue, k) ELSE queue
TakeAlong(k) == UNCHANGED queue
Withdraw(k) == TakeAlong(k)
time_out_sending(k) ==
    /\ CallerGoes(k, "sending", "busy")
    /\ Withdraw(k)
    /\ UNCHANGED <<handle, loop, current, reply, executed>>

\* The reply arrives, or its sender is dropped, or no outcome comes in time.
receive(k) ==
    /\ \/ reply[k] = "full" /\ CallerGoes(k, "awaiting", "outcome")
       \/ reply[k] = "no_sender" /\ CallerGoes(k, "awaiting", "dropped")
    /\ UNCHANGED <<handle, queue, loop, current, reply, executed>>

time_out_awaiting(k) ==
    /\ reply[k] = "empty"
    /\ CallerGoes(k, "awaiting", "no_outcome")
    /\ UNCHANGED <<handle, queue, loop, current, reply, executed>>

-----------------------------------------------------------------------------
\* The loop's command arm, await by await.
take_command ==
    /\ loop = "idle"
    /\ queue # <<>>
    /\ current' = {Head(queue)}
    /\ queue' = Tail(queue)
    /\ loop' = "executing"
    /\ UNCHANGED <<handle, caller, reply, executed>>

\* Executed and written, or rejected by the protocol.
execute_action ==
    /\ loop = "executing"
    /\ executed' \in {executed, [k \in Callers |-> executed[k] + IF k \in current THEN 1 ELSE 0]}
    /\ loop' = "logging"
    /\ UNCHANGED <<handle, queue, current, caller, reply>>

\* record_access_log has run: reply, and stop if the action says so.
send_reply ==
    /\ loop = "logging"
    /\ reply' = [k \in Callers |-> IF k \in current THEN "full" ELSE reply[k]]
    /\ current' = {}
    /\ loop' = "idle"
    /\ UNCHANGED <<handle, queue, caller, executed>>

\* The loop ends: the receiver and everything in it is dropped, and the
\* command in hand with its reply.
DropReplies(ks) == reply' = [k \in Callers |-> IF k \in ks THEN "no_sender" ELSE reply[k]]
Dropped == Queued \cup current
loop_ends ==
    /\ loop # "gone"
    /\ loop' = "gone"
    /\ DropReplies(Dropped)
    /\ queue' = <<>>
    /\ current' = {}
    /\ UNCHANGED <<handle, caller, executed>>

\* remove_client_handle by the loop, or a disconnect or stop of the client.
remove_handle ==
    /\ handle
    /\ handle' = FALSE
    /\ UNCHANGED <<queue, loop, current, caller, reply, executed>>

loop_step == take_command \/ execute_action \/ send_reply
caller_step(k) == enqueue(k) \/ find_closed(k) \/ receive(k)

Next ==
    \/ \E k \in Callers : \/ send_to_client(k) \/ caller_step(k)
                          \/ time_out_sending(k) \/ time_out_awaiting(k)
    \/ loop_step \/ loop_ends \/ remove_handle

Spec == Init /\ [][Next]_vars

\* Callers run; no use is made of their timeouts.
Fairness == WF_vars(loop_step) /\ \A k \in Callers : WF_vars(caller_step(k))

FairSpec == Spec /\ Fairness

-----------------------------------------------------------------------------
(***************************************************************************)
(* A caller told that its command was not taken (no handle, channel        *)
(* closed, queue full) may send it again: it is not, and will not be,      *)
(* executed.                                                               *)
(***************************************************************************)
RefusedIsNotExecuted ==
    \A k \in Callers : caller[k] \in {"new", "refused", "closed", "busy"} =>
        /\ executed[k] = 0
        /\ k \notin Queued \cup current

(***************************************************************************)
(* "A loop that exits drops its receiver, which makes any later send fail  *)
(* fast with a clear error rather than hang": without any timeout, no call *)
(* is left behind by a loop that ends.                                     *)
(***************************************************************************)
FailsFast ==
    \A k \in Callers : (loop = "gone" /\ caller[k] \in {"sending", "awaiting"})
                          ~> caller[k] \in {"outcome"} \cup Failed

(***************************************************************************)
(* The invariant of the command channel: its types, and no refused command *)
(* executed.                                                               *)
(***************************************************************************)
CommandInv == TypeOK /\ RefusedIsNotExecuted
=============================================================================
