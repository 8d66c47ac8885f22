----------------------------- MODULE Intercepts -----------------------------
(***************************************************************************)
(* Events parked for a human: the pending list of src/state/app_state.rs   *)
(* (park, list, resolve, dismiss, remove_intercept) and the dispatcher     *)
(* that awaits the answer under its own timeout (await_manual_answer of    *)
(* src/llm/event_handler_executor.rs).                                     *)
(*                                                                         *)
(* resolve_intercept takes the entry under the state lock and sends after  *)
(* it; the deadline and the drop of the receiver are two steps, because    *)
(* another thread may send between them; the entry of a dispatcher that    *)
(* gave up goes with remove_intercept, that of a cancelled one when park   *)
(* or list prunes it.                                                      *)
(*                                                                         *)
(* An event stands for its intercept id: ids are never reused.  The order  *)
(* of the list is only shown, so the list is a set.                        *)
(***************************************************************************)
EXTENDS Naturals, FiniteSets

CONSTANTS Events,     \* parked events, each at most once
          Operators   \* dashboard commands and MCP tool calls at the same time

VARIABLES pending,    \* pending_intercepts: ids with an entry
          dispatcher, \* where each dispatcher stands
          channel,    \* the oneshot of each event
          sending,    \* the entry a resolve has taken, per operator
          confirmed   \* ghost: ids for which a resolve returned Ok

vars == <<pending, dispatcher, channel, sending, confirmed>>

Ended == {"answered", "dismissed", "timed_out", "cancelled"}

TypeOK ==
    /\ pending \subseteq Events
    /\ dispatcher \in [Events -> {"new", "waiting", "elapsed", "expiring"} \cup Ended]
    /\ channel \in [Events -> {"empty", "full", "closed", "no_sender"}]
    /\ sending \in [Operators -> SUBSET Events]
    /\ confirmed \subseteq Events
    /\ \A e \in pending : dispatcher[e] \in {"waiting", "elapsed", "expiring", "cancelled"}

Init ==
    /\ pending = {}
    /\ dispatcher = [e \in Events |-> "new"]
    /\ channel = [e \in Events |-> "empty"]
    /\ sending = [o \in Operators |-> {}]
    /\ confirmed = {}

-----------------------------------------------------------------------------
Goes(e, place) == dispatcher' = [dispatcher EXCEPT ![e] = place]

\* is_dead: the receiver is gone.
Live == {e \in pending : channel[e] # "closed"}

\* park_intercept, which prunes dead entries first.
park(e) ==
    /\ dispatcher[e] = "new"
    /\ pending' = Live \cup {e}
    /\ Goes(e, "waiting")
    /\ UNCHANGED <<channel, sending, confirmed>>

\* The receiver yields the answer, or RecvError once the sender is dropped.
receive(e) ==
    /\ dispatcher[e] = "waiting"
    /\ \/ channel[e] = "full" /\ Goes(e, "answered")
       \/ channel[e] = "no_sender" /\ Goes(e, "dismissed")
    /\ UNCHANGED <<pending, channel, sending, confirmed>>

\* The deadline fires; the timeout future has just polled the receiver, so
\* there was neither an answer nor a dropped sender.
TimerWins(e) == TRUE
PolledEmpty(e) == channel[e] = "empty"
elapse(e) ==
    /\ dispatcher[e] = "waiting"
    /\ PolledEmpty(e)
    /\ Goes(e, "elapsed")
    /\ UNCHANGED <<pending, channel, sending, confirmed>>

\* The timeout future is dropped, and the receiver with it.
CloseChannel(e) == channel' = [channel EXCEPT ![e] = "closed"]
drop_receiver(e) ==
    /\ dispatcher[e] = "elapsed"
    /\ CloseChannel(e)
    /\ Goes(e, "expiring")
    /\ UNCHANGED <<pending, sending, confirmed>>

\* remove_intercept, then the dispatcher fails closed.
Unlist(e) == pending' = pending \ {e}
remove_intercept(e) ==
    /\ dispatcher[e] = "expiring"
    /\ Unlist(e)
    /\ Goes(e, "timed_out")
    /\ UNCHANGED <<channel, sending, confirmed>>

\* The connection's task is aborted while it waits, for the answer or for the
\* lock of remove_intercept: the entry stays.
cancel(e) ==
    /\ dispatcher[e] \in {"waiting", "expiring"}
    /\ CloseChannel(e)
    /\ Goes(e, "cancelled")
    /\ UNCHANGED <<pending, sending, confirmed>>

-----------------------------------------------------------------------------
\* list_intercepts.
list_intercepts ==
    /\ pending # Live
    /\ pending' = Live
    /\ UNCHANGED <<dispatcher, channel, sending, confirmed>>

\* resolve_intercept, under the lock.
TakeEntry(e) == pending' = pending \ {e}
PeekEntry(e) == UNCHANGED pending
TakeSender(e) == TakeEntry(e)
resolve_intercept(o, e) ==
    /\ sending[o] = {}
    /\ e \in pending
    /\ TakeSender(e)
    /\ sending' = [sending EXCEPT ![o] = {e}]
    /\ UNCHANGED <<dispatcher, channel, confirmed>>

\* resolve_intercept, after the lock: Ok exactly if the receiver still exists.
send(o) ==
    /\ \E e \in sending[o] :
          IF channel[e] = "empty"
          THEN /\ channel' = [channel EXCEPT ![e] = "full"]
               /\ confirmed' = confirmed \cup {e}
          ELSE UNCHANGED <<channel, confirmed>>
    /\ sending' = [sending EXCEPT ![o] = {}]
    /\ UNCHANGED <<pending, dispatcher>>

\* dismiss_intercept: the entry goes, and its sender with it.
DismissDrops(e) ==
    channel' = [channel EXCEPT ![e] = IF @ = "empty" THEN "no_sender" ELSE @]
dismiss_intercept(e) ==
    /\ e \in pending
    /\ pending' = pending \ {e}
    /\ DismissDrops(e)
    /\ UNCHANGED <<dispatcher, sending, confirmed>>

dispatcher_step(e) == receive(e) \/ drop_receiver(e) \/ remove_intercept(e)

Next ==
    \/ \E e \in Events : park(e) \/ elapse(e) \/ cancel(e) \/ dispatcher_step(e)
    \/ \E e \in Events : dismiss_intercept(e) \/ \E o \in Operators : resolve_intercept(o, e)
    \/ \E o \in Operators : send(o)
    \/ list_intercepts

Spec == Init /\ [][Next]_vars

\* A woken dispatcher and a running resolve go on.  The operator owes no
\* answer, and the deadline may be arbitrarily far away.
Fairness == /\ \A e \in Events : WF_vars(dispatcher_step(e))
            /\ \A o \in Operators : WF_vars(send(o))

FairSpec == Spec /\ Fairness

-----------------------------------------------------------------------------
(***************************************************************************)
(* A waiting dispatcher can still be woken by the operator, in exactly one *)
(* way: its sender is in the list or in the hands of one resolve, or the   *)
(* answer or the refusal is in the channel.                                *)
(***************************************************************************)
Wakers(e) == (IF e \in pending THEN 1 ELSE 0)
             + Cardinality({o \in Operators : e \in sending[o]})
             + (IF channel[e] \in {"full", "no_sender"} THEN 1 ELSE 0)

OneWayToWake == \A e \in Events : dispatcher[e] = "waiting" => Wakers(e) = 1

(***************************************************************************)
(* "The dispatcher sees 'no answer' immediately ... instead of waiting out *)
(* its timeout": once a parked event has left the list, resolved or        *)
(* dismissed, its dispatcher goes on even if the deadline never fires.     *)
(***************************************************************************)
OffTheListIsOver ==
    \A e \in Events : (dispatcher[e] = "waiting" /\ e \notin pending)
                         ~> dispatcher[e] \in Ended

(***************************************************************************)
(* The list and its oneshots implement the rendezvous: no answer is        *)
(* acknowledged twice or to nobody, and an answer acknowledged before the  *)
(* deadline fired is never followed by the fail-closed reply.              *)
(***************************************************************************)
Asker(place) ==
    CASE place = "new" -> "idle"
      [] place = "waiting" -> "open"
      [] place = "elapsed" -> "late"
      [] place = "answered" -> "answered"
      [] place = "dismissed" -> "refused"
      [] place \in {"expiring", "timed_out", "cancelled"} -> "gone"

R == INSTANCE Rendezvous WITH Requests <- Events,
        asker <- [e \in Events |-> Asker(dispatcher[e])],
        acknowledged <- confirmed

ImplementsRendezvous == R!Spec

(***************************************************************************)
(* The invariant of the pending list: its types, and one way to wake every *)
(* dispatcher that waits.                                                  *)
(***************************************************************************)
PendingInv == TypeOK /\ OneWayToWake
=============================================================================
