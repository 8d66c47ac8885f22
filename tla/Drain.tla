------------------------------- MODULE Drain --------------------------------
(***************************************************************************)
(* The end of the MCP server's input (src/mcp_stdio/drain.rs): DrainOnEof  *)
(* remembers every request it has received and reports the end of input    *)
(* only when each has been answered, or a deadline has passed.             *)
(*                                                                         *)
(* Steps interleave between awaits: the receive future reads, registers    *)
(* with Notify, counts, and sleeps; a send future writes, forgets the id   *)
(* under the mutex, and only then calls notify_waiters.  rmcp's select     *)
(* drops the receive future whenever another event wins and makes it again *)
(* later.  rmcp's loop and the tool handlers are external; a handler may   *)
(* never finish.  JSON-RPC ids are distinct, so a request is its id.       *)
(***************************************************************************)
EXTENDS Naturals, FiniteSets

CONSTANTS Requests,
          LastDrop   \* bound: times another event wins rmcp's select

VARIABLES call,        \* where each request stands
          outstanding, \* Outstanding.ids
          receiver,    \* where the receive future stands
          notified,    \* whether its Notified future is ready
          deadline,    \* drain_deadline
          drops        \* bound: futures dropped so far

vars == <<call, outstanding, receiver, notified, deadline, drops>>

InHand == {"handling", "writing"}

TypeOK ==
    /\ call \in [Requests -> InHand \cup {"unsent", "written", "failed", "forgotten", "done"}]
    /\ outstanding \subseteq {r \in Requests : call[r] \in InHand \cup {"written", "failed"}}
    /\ receiver \in {"none", "reading", "draining", "registered", "counted", "asleep",
                    "ended"}
    /\ notified \in BOOLEAN
    /\ deadline \in {"unset", "running", "passed"}
    /\ drops \in 0..LastDrop

Init ==
    /\ call = [r \in Requests |-> "unsent"]
    /\ outstanding = {}
    /\ receiver = "none"
    /\ notified = FALSE
    /\ deadline = "unset"
    /\ drops = 0

CallGoes(r, from, to) == call[r] = from /\ call' = [call EXCEPT ![r] = to]

-----------------------------------------------------------------------------
\* rmcp polls a new receive future: once the input has ended it is not read
\* again.
receive ==
    /\ receiver = "none"
    /\ receiver' = IF deadline = "unset" THEN "reading" ELSE "draining"
    /\ UNCHANGED <<call, outstanding, notified, deadline, drops>>

\* inner.receive yields a request: its id is recorded and it is handed to a
\* handler.
receive_request(r) ==
    /\ receiver = "reading"
    /\ CallGoes(r, "unsent", "handling")
    /\ outstanding' = outstanding \cup {r}
    /\ receiver' = "none"
    /\ UNCHANGED <<notified, deadline, drops>>

\* inner.receive yields the end of the input: the deadline is set.
receive_end ==
    /\ receiver = "reading"
    /\ receiver' = "draining"
    /\ deadline' = "running"
    /\ UNCHANGED <<call, outstanding, notified, drops>>

\* drained, one turn: register (notified and enable), then count.
register ==
    /\ receiver = "draining"
    /\ receiver' = "registered"
    /\ notified' = FALSE
    /\ UNCHANGED <<call, outstanding, deadline, drops>>

report_end ==
    /\ receiver = "registered"
    /\ outstanding = {}
    /\ receiver' = "ended"
    /\ UNCHANGED <<call, outstanding, notified, deadline, drops>>

count ==
    /\ receiver = "registered"
    /\ outstanding # {}
    /\ receiver' = "counted"
    /\ UNCHANGED <<call, outstanding, notified, deadline, drops>>

\* Enabled before the count: a notification in between is not lost.
EnabledAfter == notified' = FALSE
EnabledBefore == UNCHANGED notified
fall_asleep ==
    /\ receiver = "counted"
    /\ receiver' = "asleep"
    /\ EnabledBefore
    /\ UNCHANGED <<call, outstanding, deadline, drops>>

wake ==
    /\ receiver = "asleep"
    /\ notified
    /\ receiver' = "draining"
    /\ UNCHANGED <<call, outstanding, notified, deadline, drops>>

\* timeout_at: the deadline has passed and drained is still pending.
give_up ==
    /\ receiver = "asleep"
    /\ deadline = "passed"
    /\ receiver' = "ended"
    /\ UNCHANGED <<call, outstanding, notified, deadline, drops>>

deadline_passes ==
    /\ deadline = "running"
    /\ deadline' = "passed"
    /\ UNCHANGED <<call, outstanding, receiver, notified, drops>>

\* Another event wins rmcp's select: the pending receive future is dropped.
drop_future ==
    /\ receiver \in {"reading", "asleep"}
    /\ drops < LastDrop
    /\ receiver' = "none"
    /\ drops' = drops + 1
    /\ UNCHANGED <<call, outstanding, notified, deadline>>

-----------------------------------------------------------------------------
\* A handler finishes and its response reaches the loop, which is only there
\* until the end is reported; the loop's other branch drops the receive future.
ForgetAtOnce(r) == outstanding' = outstanding \ {r}
StartSending(r) == UNCHANGED outstanding
handler_finishes(r) ==
    /\ receiver # "ended"
    /\ CallGoes(r, "handling", "writing")
    /\ StartSending(r)
    /\ receiver' = IF receiver \in {"reading", "asleep"} THEN "none" ELSE receiver
    /\ UNCHANGED <<notified, deadline, drops>>

\* The send future: the write ends, well or not ...
write(r) ==
    /\ CallGoes(r, "writing", "written") \/ CallGoes(r, "writing", "failed")
    /\ UNCHANGED <<outstanding, receiver, notified, deadline, drops>>

\* ... then Outstanding.answer forgets the id ...
Forget(r) ==
    /\ CallGoes(r, "failed", "forgotten") \/ CallGoes(r, "written", "forgotten")
    /\ outstanding' = outstanding \ {r}
answer(r) ==
    /\ Forget(r)
    /\ UNCHANGED <<receiver, notified, deadline, drops>>

\* ... and notify_waiters completes the Notified future, if there is one.
NotifySleeper == notified' = (notified \/ receiver \in {"registered", "counted", "asleep"})
notify_waiters(r) ==
    /\ CallGoes(r, "forgotten", "done")
    /\ NotifySleeper
    /\ UNCHANGED <<outstanding, receiver, deadline, drops>>

receiver_step == \/ receive \/ receive_end \/ register \/ report_end
                 \/ count \/ fall_asleep \/ wake \/ give_up
send_step(r) == write(r) \/ answer(r) \/ notify_waiters(r)

Next ==
    \/ receiver_step
    \/ deadline_passes
    \/ drop_future
    \/ \E r \in Requests : receive_request(r) \/ handler_finishes(r) \/ send_step(r)

Spec == Init /\ [][Next]_vars

\* The loop polls its future and the runtime runs the send futures.
Running == WF_vars(receiver_step) /\ \A r \in Requests : WF_vars(send_step(r))

FairSpec == Spec /\ Running

\* Handlers may hang; the clock goes on.
ClockRuns == WF_vars(deadline_passes)

\* Every handler finishes; no use is made of the deadline.
HandlersFinish == \A r \in Requests : WF_vars(handler_finishes(r))

-----------------------------------------------------------------------------
(***************************************************************************)
(* "It reports the end only after every recorded id has been answered":    *)
(* if the end is reported before the deadline has passed, the response of  *)
(* every request received has been written or its write has failed.        *)
(***************************************************************************)
EndIsEarned ==
    (receiver = "ended" /\ deadline # "passed") => \A r \in Requests : call[r] \notin InHand

(***************************************************************************)
(* "An answer written between the check and the await still wakes it": a   *)
(* receive future that sleeps unnotified still has something to wait for.  *)
(***************************************************************************)
NoLostWakeup ==
    (receiver = "asleep" /\ ~notified) =>
        outstanding # {} \/ \E r \in Requests : call[r] = "forgotten"

(***************************************************************************)
(* "A call that never finishes cannot hold the process open forever": the  *)
(* one deadline that all re-created futures share ends the wait.           *)
(***************************************************************************)
EndIsReported == ClockRuns => (deadline = "running" ~> receiver = "ended")

(***************************************************************************)
(* When every handler finishes, the end is reported without the deadline.  *)
(***************************************************************************)
DrainIsPrompt == HandlersFinish => (deadline # "unset" ~> receiver = "ended")

(***************************************************************************)
(* The invariant of the drain: its types, no end that is not earned, and   *)
(* no wakeup that is lost.                                                 *)
(***************************************************************************)
DrainInv == TypeOK /\ EndIsEarned /\ NoLostWakeup

(***************************************************************************)
(* The end of the input is reported in the end, promptly if handlers       *)
(* finish and by the deadline if one hangs.                                *)
(***************************************************************************)
DrainEnds == EndIsReported /\ DrainIsPrompt
=============================================================================
