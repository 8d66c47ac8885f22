----------------------------- MODULE AgentQueue -----------------------------
(***************************************************************************)
(* The queue through which an MCP agent answers LLM requests               *)
(* (src/llm/agent_queue.rs), with its two sides: the protocol server that  *)
(* submits a request and awaits the oneshot answer under a timeout         *)
(* (chat_with_tools_queue of src/llm/ollama_client.rs), and the agent's    *)
(* tool calls get_next_llm_request and answer_llm_request                  *)
(* (src/mcp_stdio/tools.rs).                                               *)
(*                                                                         *)
(* Each step is a stretch under the queue's mutex or between two awaits:   *)
(* submit inserts the entry, releases the lock and only then calls         *)
(* notify_waiters; a long-poll checks, registers, checks again and sleeps; *)
(* answer removes the entry and sends after the lock is released; a caller *)
(* that times out drops its receiver, then expires the entry, and another  *)
(* thread may send between the deadline and the drop.                      *)
(*                                                                         *)
(* A request stands for its id: ids are never reused.  The FIFO push is    *)
(* best effort and changes nothing in the process; it is left out.         *)
(***************************************************************************)
EXTENDS Naturals, Sequences, FiniteSets

CONSTANTS Requests,  \* LLM requests, each submitted at most once
          Agents     \* concurrent tool calls of the agent

VARIABLES order,     \* Inner.order: ids with an entry, oldest first
          claimed,   \* ids whose entry is marked claimed
          caller,    \* where each submitting server stands
          channel,   \* the oneshot of each request
          agent,     \* where each tool call stands
          notified,  \* tool calls whose Notified future is ready
          sending,   \* the id whose sender an answer has taken, per tool call
          confirmed  \* ghost: ids for which some answer returned Ok

vars == <<order, claimed, caller, channel, agent, notified, sending, confirmed>>

Entries == {order[i] : i \in 1..Len(order)}

Done == {"answered", "timed_out", "cancelled"}

TypeOK ==
    /\ order \in Seq(Requests)
    /\ claimed \subseteq Entries
    /\ caller \in [Requests -> {"new", "inserted", "waiting", "elapsed",
                                "expiring"} \cup Done]
    /\ channel \in [Requests -> {"empty", "full", "closed"}]
    /\ agent \in [Agents -> {"idle", "polling", "unregistered", "registered",
                            "asleep", "sending"}]
    /\ notified \subseteq Agents
    /\ sending \in [Agents -> SUBSET Requests]
    /\ confirmed \subseteq Requests

Init ==
    /\ order = <<>>
    /\ claimed = {}
    /\ caller = [r \in Requests |-> "new"]
    /\ channel = [r \in Requests |-> "empty"]
    /\ agent = [a \in Agents |-> "idle"]
    /\ notified = {}
    /\ sending = [a \in Agents |-> {}]
    /\ confirmed = {}

-----------------------------------------------------------------------------
\* The sequence q without its i-th element.
Without(q, i) == [j \in 1..(Len(q) - 1) |-> IF j < i THEN q[j] ELSE q[j + 1]]

\* Removal of an id from order, where it is once or not at all, and of its
\* entry, with the claimed flag.
Remove(r) == /\ \/ r \notin Entries /\ UNCHANGED order
                \/ \E i \in 1..Len(order) : order[i] = r /\ order' = Without(order, i)
             /\ claimed' = claimed \ {r}

CallerGoes(r, place) == caller' = [caller EXCEPT ![r] = place]
AgentGoes(a, place) == agent' = [agent EXCEPT ![a] = place]

\* submit, under the lock.
submit(r) ==
    /\ caller[r] = "new"
    /\ order' = Append(order, r)
    /\ CallerGoes(r, "inserted")
    /\ UNCHANGED <<claimed, channel, agent, notified, sending, confirmed>>

\* notify_waiters completes every Notified future that exists, polled or not.
Notifiable == {a \in Agents : agent[a] \in {"registered", "asleep"}}

\* submit, after the lock: write_pipe_notification and notify_waiters.
notify_waiters(r) ==
    /\ caller[r] = "inserted"
    /\ notified' = notified \cup Notifiable
    /\ CallerGoes(r, "waiting")
    /\ UNCHANGED <<order, claimed, channel, agent, sending, confirmed>>

\* The timeout future polls the receiver first: an answer that is there wins.
receive(r) ==
    /\ caller[r] = "waiting"
    /\ channel[r] = "full"
    /\ CallerGoes(r, "answered")
    /\ UNCHANGED <<order, claimed, channel, agent, notified, sending, confirmed>>

\* The deadline passes and the receiver, polled first, has no answer.
TimerChecksChannel(r) == channel[r] = "empty"
TimerWins(r) == TRUE
MayTimeOut(r) == TimerChecksChannel(r)
time_out(r) ==
    /\ caller[r] = "waiting"
    /\ MayTimeOut(r)
    /\ CallerGoes(r, "elapsed")
    /\ UNCHANGED <<order, claimed, channel, agent, notified, sending, confirmed>>

\* The timeout future is dropped, and the receiver with it.
drop_receiver(r) ==
    /\ caller[r] = "elapsed"
    /\ channel' = [channel EXCEPT ![r] = "closed"]
    /\ CallerGoes(r, "expiring")
    /\ UNCHANGED <<order, claimed, agent, notified, sending, confirmed>>

\* queue.expire(id), then the error returns.
expire(r) ==
    /\ caller[r] = "expiring"
    /\ Remove(r)
    /\ CallerGoes(r, "timed_out")
    /\ UNCHANGED <<channel, agent, notified, sending, confirmed>>

\* The task that awaits the answer is aborted (its server or connection is
\* torn down): the receiver is dropped and nothing else happens.
cancel(r) ==
    /\ caller[r] = "waiting"
    /\ channel' = [channel EXCEPT ![r] = "closed"]
    /\ CallerGoes(r, "cancelled")
    /\ UNCHANGED <<order, claimed, agent, notified, sending, confirmed>>

-----------------------------------------------------------------------------
Unclaimed == Entries \ claimed

\* The one that the loop over order meets first.
OldestUnclaimed(r) == \E i \in 1..Len(order) :
                         /\ r = order[i] /\ r \in Unclaimed
                         /\ \A j \in 1..(i - 1) : order[j] \in claimed

\* claim_next: mark the oldest unclaimed entry; that ends the tool call.
claim_next(a) ==
    /\ \/ agent[a] \in {"polling", "registered"}
       \/ agent[a] = "asleep" /\ a \in notified
    /\ \E r \in Unclaimed : OldestUnclaimed(r) /\ claimed' = claimed \cup {r}
    /\ AgentGoes(a, "idle")
    /\ notified' = notified \ {a}
    /\ UNCHANGED <<order, caller, channel, sending, confirmed>>

\* wait_and_claim starts.
wait_and_claim(a) ==
    /\ agent[a] = "idle"
    /\ AgentGoes(a, "polling")
    /\ UNCHANGED <<order, claimed, caller, channel, notified, sending, confirmed>>

\* A first look, or one after a notification, finds nothing.
find_nothing(a) ==
    /\ \/ agent[a] = "polling"
       \/ agent[a] = "asleep" /\ a \in notified
    /\ Unclaimed = {}
    /\ AgentGoes(a, "unregistered")
    /\ notified' = notified \ {a}
    /\ UNCHANGED <<order, claimed, caller, channel, sending, confirmed>>

\* notify.notified(): from here on notify_waiters reaches this call.
register(a) ==
    /\ agent[a] = "unregistered"
    /\ AgentGoes(a, "registered")
    /\ UNCHANGED <<order, claimed, caller, channel, notified, sending, confirmed>>

\* The look after registering finds nothing: sleep until notified.
SleepsUnchecked == TRUE
FindsNothingAgain == Unclaimed = {}
fall_asleep(a) ==
    /\ agent[a] = "registered"
    /\ FindsNothingAgain
    /\ AgentGoes(a, "asleep")
    /\ UNCHANGED <<order, claimed, caller, channel, notified, sending, confirmed>>

\* The wait_seconds deadline passes, or the RPC is cancelled.
give_up(a) ==
    /\ agent[a] = "asleep"
    /\ AgentGoes(a, "idle")
    /\ notified' = notified \ {a}
    /\ UNCHANGED <<order, claimed, caller, channel, sending, confirmed>>

\* answer, under the lock: any id with an entry, claimed or not.
answer(a, r) ==
    /\ agent[a] = "idle"
    /\ r \in Entries
    /\ Remove(r)
    /\ sending' = [sending EXCEPT ![a] = {r}]
    /\ AgentGoes(a, "sending")
    /\ UNCHANGED <<caller, channel, notified, confirmed>>

\* responder.send: Ok exactly if the receiver still exists.
send(a) ==
    /\ agent[a] = "sending"
    /\ \E r \in sending[a] :
          IF channel[r] = "empty"
          THEN /\ channel' = [channel EXCEPT ![r] = "full"]
               /\ confirmed' = confirmed \cup {r}
          ELSE UNCHANGED <<channel, confirmed>>
    /\ sending' = [sending EXCEPT ![a] = {}]
    /\ AgentGoes(a, "idle")
    /\ UNCHANGED <<order, claimed, caller, notified>>

server_step(r) == \/ notify_waiters(r) \/ receive(r)
                  \/ time_out(r) \/ drop_receiver(r) \/ expire(r)

agent_step(a) == \/ claim_next(a) \/ find_nothing(a) \/ register(a)
                 \/ fall_asleep(a) \/ send(a)

Next == \/ \E r \in Requests : submit(r) \/ server_step(r) \/ cancel(r)
        \/ \E a \in Agents : \/ wait_and_claim(a) \/ agent_step(a) \/ give_up(a)
                             \/ \E r \in Requests : answer(a, r)

Spec == Init /\ [][Next]_vars

\* Server tasks run and timeouts fire; a tool call in progress runs on.  The
\* agent owes neither a poll nor an answer.
Fairness == /\ \A r \in Requests : WF_vars(server_step(r))
            /\ \A a \in Agents : WF_vars(agent_step(a))

FairSpec == Spec /\ Fairness

-----------------------------------------------------------------------------
(***************************************************************************)
(* No lost wakeup: while a long-poll sleeps unnotified, every unclaimed    *)
(* request is one whose submit has not yet reached notify_waiters.  This   *)
(* is what "Register for notification BEFORE re-checking" is for.          *)
(***************************************************************************)
NoLostWakeup ==
    \A a \in Agents : (agent[a] = "asleep" /\ a \notin notified) =>
        \A r \in Unclaimed : caller[r] = "inserted"

(***************************************************************************)
(* A caller that waits can still be answered: its sender is in the queue   *)
(* or in the hands of exactly one answer, or the answer is in the channel. *)
(* So the branch "was dropped before it was answered" is never taken, and  *)
(* two agents cannot both take one request.                                *)
(***************************************************************************)
Sender(r) == (IF r \in Entries THEN 1 ELSE 0)
             + Cardinality({a \in Agents : r \in sending[a]})
             + (IF channel[r] = "full" THEN 1 ELSE 0)

OneAnswerPerRequest ==
    \A r \in Requests : caller[r] \in {"inserted", "waiting"} => Sender(r) = 1

(***************************************************************************)
(* The queue implements the rendezvous: no answer is acknowledged twice or *)
(* to a server that no longer listens, and one the agent was told Ok for   *)
(* before the deadline fired is never followed by the server's timeout.    *)
(***************************************************************************)
Asker(place) ==
    CASE place = "new" -> "idle"
      [] place \in {"inserted", "waiting"} -> "open"
      [] place = "elapsed" -> "late"
      [] place = "answered" -> "answered"
      [] place \in {"expiring", "timed_out", "cancelled"} -> "gone"

R == INSTANCE Rendezvous WITH asker <- [r \in Requests |-> Asker(caller[r])],
        acknowledged <- confirmed

ImplementsRendezvous == R!Spec

(***************************************************************************)
(* "Drop a timed-out / abandoned request so it can no longer be answered"  *)
(* (comment of expire): a request nobody waits for leaves the queue.       *)
(***************************************************************************)
AbandonedLeavesQueue ==
    \A r \in Requests : (r \in Entries /\ channel[r] = "closed") ~> r \notin Entries

(***************************************************************************)
(* The invariant of the queue: its types, no agent asleep beside an        *)
(* unclaimed request, one sender for every caller that waits.              *)
(***************************************************************************)
QueueInv == TypeOK /\ NoLostWakeup /\ OneAnswerPerRequest
=============================================================================
