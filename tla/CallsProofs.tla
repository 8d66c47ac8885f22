---------------------------- MODULE CallsProofs -----------------------------
(***************************************************************************)
(* Proofs about CommandChannel, PeerCommands and Drain, for any callers,   *)
(* capacities and requests, and about the three together (Calls).          *)
(***************************************************************************)
EXTENDS Calls, SequenceTheorems, TLAPS

(***************************************************************************)
(* Command channel.  A command is in one place at a time, and is executed  *)
(* only after its caller was told that it was taken.                       *)
(***************************************************************************)
NotTaken == {"new", "sending", "refused", "closed", "busy"}

CInv ==
    /\ TypeOK
    /\ \A k \in Callers : caller[k] \in NotTaken => executed[k] = 0 /\ k \notin Queued \cup current
    /\ \A k \in Queued : executed[k] = 0 /\ k \notin current
    /\ \A k \in current : loop = "executing" => executed[k] = 0
    /\ loop \in {"idle", "gone"} => current = {}
    /\ \A i, j \in 1..Len(queue) : queue[i] = queue[j] => i = j

\* What a queue holds after a call is put at its end.
LEMMA AppendQueue ==
    ASSUME NEW S, NEW q \in Seq(S), NEW k \in S
    PROVE  /\ Append(q, k) \in Seq(S) /\ Len(Append(q, k)) = Len(q) + 1
           /\ {Append(q, k)[i] : i \in 1..Len(Append(q, k))} = {q[i] : i \in 1..Len(q)} \cup {k}
           /\ ((\A i \in 1..Len(q) : q[i] # k) /\ \A i, j \in 1..Len(q) : q[i] = q[j] => i = j)
                 => \A i, j \in 1..Len(Append(q, k)) : Append(q, k)[i] = Append(q, k)[j] => i = j
<1> DEFINE a == Append(q, k)
<1>1. /\ a \in Seq(S) /\ Len(a) = Len(q) + 1 /\ Len(q) \in Nat
      /\ \A i \in 1..Len(q) : a[i] = q[i]
      /\ a[Len(q) + 1] = k
  BY AppendProperties, LenProperties
<1> HIDE DEF a
<1>2. /\ \A i \in 1..Len(a) : i \in 1..Len(q) \/ i = Len(q) + 1
      /\ Len(q) + 1 \in 1..Len(a) /\ \A i \in 1..Len(q) : i \in 1..Len(a)
  BY <1>1
<1>3. {a[i] : i \in 1..Len(a)} = {q[i] : i \in 1..Len(q)} \cup {k}
  BY <1>1, <1>2
<1>4. ((\A i \in 1..Len(q) : q[i] # k) /\ \A i, j \in 1..Len(q) : q[i] = q[j] => i = j)
          => \A i, j \in 1..Len(a) : a[i] = a[j] => i = j
  BY <1>1, <1>2
<1> QED BY <1>1, <1>3, <1>4 DEF a

\* What a queue holds after its oldest call is taken.
LEMMA TailQueue ==
    ASSUME NEW S, NEW q \in Seq(S), q # <<>>
    PROVE  /\ Tail(q) \in Seq(S) /\ Len(Tail(q)) = Len(q) - 1 /\ Head(q) \in S
           /\ {Tail(q)[i] : i \in 1..Len(Tail(q))} \subseteq {q[i] : i \in 1..Len(q)}
           /\ Head(q) \in {q[i] : i \in 1..Len(q)}
           /\ (\A i, j \in 1..Len(q) : q[i] = q[j] => i = j)
                 => /\ \A i, j \in 1..Len(Tail(q)) : Tail(q)[i] = Tail(q)[j] => i = j
                    /\ Head(q) \notin {Tail(q)[i] : i \in 1..Len(Tail(q))}
<1> DEFINE t == Tail(q)
<1>1. /\ t \in Seq(S) /\ Len(t) = Len(q) - 1 /\ Len(q) \in Nat \ {0}
      /\ \A i \in 1..Len(t) : t[i] = q[i + 1]
      /\ Head(q) = q[1] /\ Head(q) \in S
  BY HeadTailProperties, EmptySeq, LenProperties
<1> HIDE DEF t
<1>2. 1 \in 1..Len(q) /\ \A i \in 1..Len(t) : i + 1 \in 1..Len(q) /\ i + 1 # 1
  BY <1>1
<1>3. {t[i] : i \in 1..Len(t)} \subseteq {q[i] : i \in 1..Len(q)}
  BY <1>1, <1>2
<1>4. ASSUME \A i, j \in 1..Len(q) : q[i] = q[j] => i = j
      PROVE  /\ \A i, j \in 1..Len(t) : t[i] = t[j] => i = j
             /\ Head(q) \notin {t[i] : i \in 1..Len(t)}
  <2>1. \A i, j \in 1..Len(t) : t[i] = t[j] => i + 1 = j + 1
    BY <1>1, <1>2, <1>4
  <2>2. \A i, j \in 1..Len(t) : i + 1 = j + 1 => i = j
    BY <1>1
  <2>3. \A i \in 1..Len(t) : t[i] # Head(q)
    BY <1>1, <1>2, <1>4
  <2> QED BY <2>1, <2>2, <2>3
<1> QED BY <1>1, <1>2, <1>3, <1>4 DEF t

\* Every step of the command channel keeps its inductive invariant.
LEMMA CommandStep == ASSUME CInv, [Next]_vars PROVE CInv'
<1> USE CapacityAssumption
<1>0. /\ queue \in Seq(Callers) /\ Len(queue) \in Nat
      /\ \A k \in Queued : k \in Callers
  <2>1. queue \in Seq(Callers)
    BY DEF CInv, TypeOK
  <2> QED BY <2>1, LenProperties, ElementOfSeq DEF Queued
<1>1. ASSUME NEW k \in Callers, NEW from, NEW to, CallerGoes(k, from, to),
             to \in {"sending", "awaiting", "outcome"} \cup Failed, from # "new" \/ to \in NotTaken,
             from \in {"new", "sending", "awaiting"}, from = "awaiting" => to \notin NotTaken,
             to = "awaiting" => FALSE,
             UNCHANGED <<handle, queue, loop, current, reply, executed>>
      PROVE  CInv'
  BY <1>1 DEF CInv, TypeOK, CallerGoes, Queued, NotTaken, Failed
<1>2. ASSUME NEW k \in Callers, send_to_client(k) PROVE CInv'
  <2>1. PICK to \in {"sending", "refused"} : CallerGoes(k, "new", to)
    BY <1>2 DEF send_to_client
  <2> QED BY <1>1, <1>2, <2>1 DEF send_to_client, NotTaken, Failed
<1>3. ASSUME NEW k \in Callers, find_closed(k) \/ time_out_sending(k) PROVE CInv'
  <2>1. PICK to \in {"closed", "busy"} : CallerGoes(k, "sending", to)
    BY <1>3 DEF find_closed, time_out_sending
  <2> QED BY <1>1, <1>3, <2>1
          DEF find_closed, time_out_sending, Withdraw, TakeAlong, NotTaken, Failed
<1>4. ASSUME NEW k \in Callers, receive(k) \/ time_out_awaiting(k) PROVE CInv'
  <2>1. PICK to \in {"outcome", "dropped", "no_outcome"} : CallerGoes(k, "awaiting", to)
    BY <1>4 DEF receive, time_out_awaiting
  <2> QED BY <1>1, <1>4, <2>1 DEF receive, time_out_awaiting, NotTaken, Failed
<1>5. ASSUME NEW k \in Callers, enqueue(k) PROVE CInv'
  <2>0. caller[k] = "sending" /\ executed[k] = 0 /\ k \notin Queued \cup current
    BY <1>5 DEF enqueue, CallerGoes, CInv, NotTaken
  <2>1. /\ queue' = Append(queue, k) /\ Len(queue) < Capacity
        /\ UNCHANGED <<handle, loop, current, reply, executed>>
        /\ caller' = [caller EXCEPT ![k] = "awaiting"]
    BY <1>5 DEF enqueue, HasRoom, Room, CallerGoes
  <2>2. /\ queue' \in Seq(Callers) /\ Len(queue') <= Capacity
        /\ Queued' = Queued \cup {k}
        /\ \A i, j \in 1..Len(queue') : queue'[i] = queue'[j] => i = j
    <3>1. \A i \in 1..Len(queue) : queue[i] # k
      BY <2>0 DEF Queued
    <3>2. \A i, j \in 1..Len(queue) : queue[i] = queue[j] => i = j
      BY DEF CInv
    <3>3. /\ queue' \in Seq(Callers) /\ Len(queue') = Len(queue) + 1
          /\ \A i, j \in 1..Len(queue') : queue'[i] = queue'[j] => i = j
      BY <1>0, <2>1, <3>1, <3>2, AppendQueue
    <3>4. Queued' = Queued \cup {k}
      BY <1>0, <2>1, AppendQueue DEF Queued
    <3> QED BY <1>0, <2>1, <3>3, <3>4
  <2> QED BY <2>0, <2>1, <2>2 DEF CInv, TypeOK, NotTaken
<1>6. CASE take_command
  <2>1. /\ loop = "idle" /\ queue # <<>> /\ current' = {Head(queue)} /\ queue' = Tail(queue)
        /\ loop' = "executing" /\ UNCHANGED <<handle, caller, reply, executed>>
    BY <1>6 DEF take_command
  <2>2. /\ Head(queue) \in Queued /\ Queued' \subseteq Queued /\ Head(queue) \notin Queued'
        /\ \A i, j \in 1..Len(queue') : queue'[i] = queue'[j] => i = j
        /\ queue' \in Seq(Callers) /\ Len(queue') = Len(queue) - 1
    <3>1. \A i, j \in 1..Len(queue) : queue[i] = queue[j] => i = j
      BY DEF CInv
    <3> QED BY <1>0, <2>1, <3>1, TailQueue DEF Queued
  <2> QED BY <1>0, <2>1, <2>2 DEF CInv, TypeOK
<1>7. CASE execute_action
  <2>1. /\ loop = "executing" /\ loop' = "logging"
        /\ UNCHANGED <<handle, queue, current, caller, reply>>
    BY <1>7 DEF execute_action
  <2>2. executed' \in [Callers -> 0..1] /\ \A k \in Callers : k \notin current => executed'[k] = executed[k]
    <3>1. \A k \in Callers : executed[k] \in 0..1 /\ (k \in current => executed[k] = 0)
      BY <2>1 DEF CInv, TypeOK
    <3>2. executed \in [Callers -> 0..1]
      BY DEF CInv, TypeOK
    <3>3. CASE executed' = executed
      BY <3>2, <3>3
    <3>4. CASE executed' = [k \in Callers |-> executed[k] + IF k \in current THEN 1 ELSE 0]
      BY <3>1, <3>4
    <3> QED BY <1>7, <3>3, <3>4 DEF execute_action
  <2>3. Queued' = Queued
    BY <2>1 DEF Queued
  <2> QED BY <1>0, <2>1, <2>2, <2>3 DEF CInv, TypeOK
<1>8. CASE send_reply
  <2>1. Queued' = Queued
    BY <1>8 DEF Queued, send_reply
  <2> QED BY <1>8, <2>1 DEF send_reply, CInv, TypeOK
<1>9. CASE loop_ends
  <2>1. queue' = <<>> /\ queue' \in Seq(Callers) /\ Len(queue') = 0 /\ Queued' = {}
    BY <1>9, EmptySeq DEF loop_ends, Queued
  <2> QED BY <1>9, <2>1 DEF loop_ends, DropReplies, CInv, TypeOK
<1>10. CASE remove_handle
  <2>1. Queued' = Queued /\ handle' \in BOOLEAN
    BY <1>10 DEF remove_handle, Queued
  <2> QED BY <1>10, <2>1 DEF remove_handle, CInv, TypeOK
<1>11. CASE UNCHANGED vars
  BY <1>11 DEF vars, CInv, TypeOK, Queued
<1> QED
  BY <1>2, <1>3, <1>4, <1>5, <1>6, <1>7, <1>8, <1>9, <1>10, <1>11
  DEF Next, caller_step, loop_step

\* The command channel starts with nothing sent.
LEMMA CommandInit == Init => CInv
<1> SUFFICES ASSUME Init PROVE CInv
  OBVIOUS
<1>1. Queued = {} /\ queue \in Seq(Callers) /\ Len(queue) = 0
  BY EmptySeq DEF Init, Queued
<1> QED BY <1>1, CapacityAssumption DEF Init, CInv, TypeOK

(***************************************************************************)
(* send_to_client: a caller told that its command was not taken can send   *)
(* it again, for any number of callers and any capacity of the channel;    *)
(* and no command is executed twice.                                       *)
(***************************************************************************)
THEOREM RefusedMayRetry == Spec => []CommandInv
<1>1. CInv => CommandInv
  BY DEF CInv, CommandInv, RefusedIsNotExecuted, NotTaken
<1> QED BY <1>1, CommandInit, CommandStep, PTL DEF Spec

-----------------------------------------------------------------------------
(***************************************************************************)
(* Peer commands.  A reply that says "hung up" is written only after the   *)
(* hang-up and the removal of the handle, which is never put back; a reply *)
(* is dropped only with the worker.                                        *)
(***************************************************************************)
PInv ==
    /\ PeerInv
    /\ \A k \in PeerCallers : /\ peer_reply[k] = "hangup" => hungup /\ ~peer_handle
                              /\ peer_reply[k] = "no_sender" => peer_worker = "gone"
    /\ peer_worker \in {"unlisting", "marking", "replying"} => hungup
    /\ peer_worker \in {"marking", "replying"} => ~peer_handle


\* Every step of a peer's commands keeps their inductive invariant.
LEMMA PeerStep == ASSUME PInv, Peer!Next \/ UNCHANGED peerVars PROVE PInv'
<1> USE PeerAssumption DEF Peer!CapacityIsPositive
<1>0. /\ Peer!TypeOK /\ Peer!DisconnectedIsTrue
      /\ peer_queue \in Seq(PeerCallers) /\ Len(peer_queue) \in Nat
  BY LenProperties DEF PInv, PeerInv, Peer!PeerInv, Peer!TypeOK
<1> DEFINE Parts == /\ Peer!TypeOK /\ Peer!DisconnectedIsTrue
                    /\ \A k \in PeerCallers : /\ peer_reply[k] = "hangup" => hungup /\ ~peer_handle
                                              /\ peer_reply[k] = "no_sender" => peer_worker = "gone"
                    /\ peer_worker \in {"unlisting", "marking", "replying"} => hungup
                    /\ peer_worker \in {"marking", "replying"} => ~peer_handle
<1>1. SUFFICES Parts'
  BY DEF PInv, PeerInv, Peer!PeerInv
<1> USE <1>0 DEF PInv, Peer!TypeOK, Peer!DisconnectedIsTrue, Peer!CallerGoes, Peer!Settled
<1>2. ASSUME NEW k \in PeerCallers, Peer!send_to_peer(k) PROVE Parts'
  BY <1>2 DEF Peer!send_to_peer
<1>3. ASSUME NEW k \in PeerCallers, Peer!try_send(k) PROVE Parts'
  <2>1. peer_queue' \in Seq(PeerCallers) /\ Len(peer_queue') <= PeerCapacity
    <3>1. CASE Peer!HasRoom
      <4>1. Append(peer_queue, k) \in Seq(PeerCallers) /\ Len(Append(peer_queue, k)) = Len(peer_queue) + 1
        BY AppendQueue
      <4> QED BY <1>3, <3>1, <4>1 DEF Peer!try_send, Peer!HasRoom
    <3>2. CASE ~Peer!HasRoom
      BY <1>3, <3>2 DEF Peer!try_send
    <3> QED BY <3>1, <3>2
  <2> QED BY <1>3, <2>1 DEF Peer!try_send
<1>4. ASSUME NEW k \in PeerCallers, Peer!prune(k) PROVE Parts'
  BY <1>4 DEF Peer!prune, Peer!IsClosed, Peer!ReceiverDropped
<1>5. ASSUME NEW k \in PeerCallers, Peer!receive(k) \/ Peer!time_out(k) PROVE Parts'
  BY <1>5 DEF Peer!receive, Peer!time_out
<1>6. ASSUME \/ Peer!register_peer_task \/ Peer!close_connection
             \/ Peer!finish_close \/ Peer!remove_server
      PROVE  Parts'
  <2>1. /\ UNCHANGED <<peer_worker, peer_current, peer_queue, hungup, peer_caller, peer_reply>>
        /\ peer_handle' \in BOOLEAN /\ (peer_handle' => peer_handle)
    <3>1. peer_handle' = peer_handle \/ peer_handle' = FALSE
      BY <1>6 DEF Peer!register_peer_task, Peer!close_connection, Peer!finish_close,
                  Peer!remove_server, Peer!remove_peer
    <3>2. UNCHANGED <<peer_worker, peer_current, peer_queue, hungup, peer_caller, peer_reply>>
      BY <1>6 DEF Peer!register_peer_task, Peer!close_connection, Peer!finish_close,
                  Peer!remove_server
    <3>3. peer_handle \in BOOLEAN
      OBVIOUS
    <3> HIDE <1>0 DEF PInv, Peer!TypeOK, Peer!DisconnectedIsTrue
    <3>4. CASE peer_handle' = FALSE
      BY <3>4, <3>2
    <3>5. CASE peer_handle' = peer_handle
      BY <3>2, <3>3, <3>5
    <3> QED BY <3>1, <3>4, <3>5
  <2>2. /\ row' \in {"live", "closed", "removed"} /\ tracked' \in {"pending", "registered", "aborted"}
        /\ closer' \in {"none", "marked", "done"}
    BY <1>6 DEF Peer!register_peer_task, Peer!close_connection, Peer!finish_close,
                Peer!remove_server, Peer!MarkClosed, Peer!remove_peer
  <2> QED BY <2>1, <2>2
<1>7. CASE Peer!take_command
  BY <1>7, TailQueue DEF Peer!take_command, Peer!WorkerGoes
<1>8. CASE Peer!execute(TRUE) \/ Peer!execute(FALSE)
  <2>1. /\ UNCHANGED <<row, peer_handle, tracked, closer, peer_current, peer_queue, peer_caller, peer_reply>>
        /\ peer_worker = "executing" /\ peer_worker' \in {"unlisting", "logging"}
        /\ hungup' \in BOOLEAN /\ (hungup => hungup') /\ (peer_worker' = "unlisting" => hungup')
    BY <1>8 DEF Peer!execute, Peer!WorkerGoes
  <2> QED BY <2>1
<1>9. CASE Peer!reply_outcome \/ Peer!reply_hangup
  BY <1>9 DEF Peer!reply_outcome, Peer!reply_hangup, Peer!Reply, Peer!WorkerGoes
<1>10. CASE Peer!unlist \/ Peer!mark_closed
  <2>1. /\ UNCHANGED <<closer, peer_current, peer_queue, hungup, peer_caller, peer_reply>>
        /\ hungup /\ ~peer_handle' /\ peer_handle' \in BOOLEAN
        /\ peer_worker # "gone" /\ peer_worker' \in {"marking", "replying"}
    <3>1. CASE Peer!unlist
      BY <3>1 DEF Peer!unlist, Peer!remove_peer, Peer!WorkerGoes
    <3>2. CASE Peer!mark_closed
      BY <3>2 DEF Peer!mark_closed, Peer!WorkerGoes
    <3> QED BY <1>10, <3>1, <3>2
  <2>2. row' \in {"live", "closed", "removed"} /\ tracked' \in {"pending", "registered", "aborted"}
    BY <1>10 DEF Peer!unlist, Peer!mark_closed, Peer!remove_peer, Peer!MarkClosed
  <2> QED BY <2>1, <2>2
<1>11. CASE Peer!WorkerEnds
  BY <1>11, EmptySeq DEF Peer!WorkerEnds
<1>12. CASE UNCHANGED peerVars
  BY <1>12 DEF peerVars
<1> QED
  BY <1>2, <1>3, <1>4, <1>5, <1>6, <1>7, <1>8, <1>9, <1>10, <1>11, <1>12
  DEF Peer!Next, Peer!caller_step, Peer!worker_step, Peer!cancelled, Peer!channel_closed, Peer!panics

\* A peer starts with nothing asked of it.
LEMMA PeerStart == Peer!Init => PInv
<1> SUFFICES ASSUME Peer!Init PROVE PInv
  OBVIOUS
<1>1. peer_queue \in Seq(PeerCallers) /\ Len(peer_queue) = 0
  BY EmptySeq DEF Peer!Init
<1>2. Peer!TypeOK
  <2>1. PeerCapacity >= 0
    BY PeerAssumption DEF Peer!CapacityIsPositive
  <2>2. /\ peer_caller \in [PeerCallers -> {"new", "holding", "pruning", "awaiting"} \cup Peer!Settled]
        /\ peer_reply \in [PeerCallers -> {"empty", "full", "hangup", "no_sender"}]
    BY DEF Peer!Init
  <2> QED BY <1>1, <2>1, <2>2 DEF Peer!Init, Peer!TypeOK
<1>3. Peer!DisconnectedIsTrue
  BY DEF Peer!Init, Peer!DisconnectedIsTrue
<1> QED BY <1>2, <1>3 DEF Peer!Init, PInv, PeerInv, Peer!PeerInv

(***************************************************************************)
(* send_to_peer: a caller told Disconnected can rely on it, for any number *)
(* of callers, whoever closes the connection and wherever the worker's     *)
(* cancellation hits it.                                                   *)
(***************************************************************************)
THEOREM DisconnectedIsReliable == Peer!Spec => []PeerInv
<1>1. PInv => PeerInv
  BY DEF PInv
<1>2. PInv /\ [Peer!Next]_(Peer!vars) => PInv'
  BY PeerStep DEF Peer!vars, peerVars
<1> QED BY <1>1, <1>2, PeerStart, PTL DEF Peer!Spec

-----------------------------------------------------------------------------
(***************************************************************************)
(* Drain.  Whatever has not been written is outstanding, so an empty set   *)
(* means that everything is written; and the receive future, from its      *)
(* count on, is notified or has somebody who will notify it.               *)
(***************************************************************************)
DInv ==
    /\ DrainInv
    /\ \A r \in Requests : call[r] \in Mcp!InHand => r \in outstanding
    /\ (receiver = "counted" /\ ~notified) =>
          outstanding # {} \/ \E r \in Requests : call[r] = "forgotten"

\* Every step of the MCP server keeps the inductive invariant of the drain.
LEMMA DrainStep == ASSUME DInv, Mcp!Next \/ UNCHANGED drainVars PROVE DInv'
<1>0. Mcp!TypeOK /\ Mcp!EndIsEarned /\ Mcp!NoLostWakeup
  BY DEF DInv, DrainInv, Mcp!DrainInv
<1> DEFINE Waits == (receiver = "counted" /\ ~notified) =>
                        outstanding # {} \/ \E r \in Requests : call[r] = "forgotten"
           Unwritten == \A r \in Requests : call[r] \in Mcp!InHand => r \in outstanding
           Parts == Mcp!TypeOK /\ Mcp!EndIsEarned /\ Mcp!NoLostWakeup /\ Unwritten /\ Waits
<1>1. SUFFICES Parts'
  BY DEF DInv, DrainInv, Mcp!DrainInv
<1> USE <1>0, PeerAssumption DEF DInv, Mcp!TypeOK, Mcp!EndIsEarned, Mcp!NoLostWakeup, Mcp!InHand, Mcp!CallGoes
<1>2. CASE Mcp!receive \/ Mcp!receive_end
  BY <1>2 DEF Mcp!receive, Mcp!receive_end
<1>3. CASE Mcp!register
  BY <1>3 DEF Mcp!register
<1>4. CASE Mcp!report_end \/ Mcp!count
  BY <1>4 DEF Mcp!report_end, Mcp!count
<1>5. CASE Mcp!fall_asleep \/ Mcp!wake \/ Mcp!give_up
  BY <1>5 DEF Mcp!fall_asleep, Mcp!wake, Mcp!give_up, Mcp!EnabledBefore
<1>6. CASE Mcp!deadline_passes \/ Mcp!drop_future
  BY <1>6 DEF Mcp!deadline_passes, Mcp!drop_future
<1>7. ASSUME NEW r \in Requests, Mcp!receive_request(r) PROVE Parts'
  BY <1>7 DEF Mcp!receive_request
<1>8. ASSUME NEW r \in Requests, Mcp!handler_finishes(r) PROVE Parts'
  BY <1>8 DEF Mcp!handler_finishes, Mcp!StartSending
<1>9. ASSUME NEW r \in Requests, Mcp!write(r) PROVE Parts'
  BY <1>9 DEF Mcp!write
<1>10. ASSUME NEW r \in Requests, Mcp!answer(r) PROVE Parts'
  BY <1>10 DEF Mcp!answer, Mcp!Forget
<1>11. ASSUME NEW r \in Requests, Mcp!notify_waiters(r) PROVE Parts'
  BY <1>11 DEF Mcp!notify_waiters, Mcp!NotifySleeper
<1>12. CASE UNCHANGED drainVars
  BY <1>12 DEF drainVars
<1> QED
  BY <1>2, <1>3, <1>4, <1>5, <1>6, <1>7, <1>8, <1>9, <1>10, <1>11, <1>12
  DEF Mcp!Next, Mcp!receiver_step, Mcp!send_step

\* The MCP server starts with no call in flight.
LEMMA DrainStart == Mcp!Init => DInv
<1> SUFFICES ASSUME Mcp!Init PROVE DInv
  OBVIOUS
<1>1. drops \in 0..LastDrop
  BY PeerAssumption DEF Mcp!Init
<1>2. Mcp!TypeOK
  BY <1>1 DEF Mcp!Init, Mcp!TypeOK, Mcp!InHand
<1>3. Mcp!EndIsEarned /\ Mcp!NoLostWakeup
  BY DEF Mcp!Init, Mcp!EndIsEarned, Mcp!NoLostWakeup
<1> QED BY <1>2, <1>3 DEF Mcp!Init, Mcp!InHand, DInv, DrainInv, Mcp!DrainInv

(***************************************************************************)
(* DrainOnEof reports no end that is not earned and loses no wakeup, for   *)
(* any number of requests and however often rmcp drops its receive future. *)
(***************************************************************************)
THEOREM DrainIsSafe == Mcp!Spec => []DrainInv
<1>1. DInv => DrainInv
  BY DEF DInv
<1>2. DInv /\ [Mcp!Next]_(Mcp!vars) => DInv'
  BY DrainStep DEF Mcp!vars, drainVars
<1> QED BY <1>1, <1>2, DrainStart, PTL DEF Mcp!Spec

-----------------------------------------------------------------------------
(***************************************************************************)
(* The three kinds of calls keep their invariants side by side.            *)
(***************************************************************************)
THEOREM CallsSafe == CallsSpec => [](CommandInv /\ PeerInv /\ DrainInv)
<1> DEFINE All == CInv /\ PInv /\ DInv
           v == <<kind, vars, peerVars, drainVars>>
<1>1. CallsInit => All
  BY CommandInit, PeerStart, DrainStart DEF CallsInit
<1>2. All /\ [CallsNext]_v => All'
  <2> SUFFICES ASSUME All, [CallsNext]_v PROVE All'
    OBVIOUS
  <2>1. [Next]_vars /\ (Peer!Next \/ UNCHANGED peerVars) /\ (Mcp!Next \/ UNCHANGED drainVars)
    BY DEF CallsNext
  <2> QED BY <2>1, CommandStep, PeerStep, DrainStep
<1>3. All => CommandInv /\ PeerInv /\ DrainInv
  BY DEF CInv, CommandInv, RefusedIsNotExecuted, NotTaken, PInv, DInv
<1> QED BY <1>1, <1>2, <1>3, PTL DEF CallsSpec
=============================================================================
