-------------------------- MODULE WebSocketInbound --------------------------
(***************************************************************************)
(* The inbound messages of one WebSocket connection                        *)
(* (src/server/websocket/mod.rs): the same state machine as                *)
(* TcpConnection, but the read loop itself queues each message             *)
(* (enqueue_inbound) and starts a handler only when none is running, and   *)
(* the handler (handle_inbound) takes from the queue and goes back to Idle *)
(* under one lock.                                                         *)
(***************************************************************************)
EXTENDS Naturals, Sequences, FiniteSets, SequencesExt

CONSTANTS LastFrame,   \* bound: messages the peer sends
          MaxBatch     \* MAX_BATCH_EVENTS

FramesAssumption == LastFrame \in Nat /\ MaxBatch \in Nat \ {0}

Frames == 1..LastFrame

VARIABLES state,     \* HandlerState
          queued,    \* messages, each with the frames that were joined in it
          pending,   \* the message held back, in a sequence of at most one
          sent,      \* frames so far
          reading,   \* the read loop
          handler,   \* the handler started by each frame
          batch,     \* the messages it has taken
          shown,     \* the messages put to the model and not held back, in order
          overtaken  \* a message was held back with others queued behind it

vars == <<state, queued, pending, sent, reading, handler, batch, shown, overtaken>>

Kinds == {"text", "binary", "ping"}
Message == [kind : Kinds, parts : Seq(Frames)]

TypeOK ==
    /\ state \in {"idle", "processing", "accumulating"}
    /\ queued \in Seq(Message)
    /\ pending \in Seq(Message) /\ Len(pending) <= 1
    /\ pending # <<>> => state = "accumulating"
    /\ sent \in 0..LastFrame
    /\ reading \in BOOLEAN
    /\ handler \in [Frames -> {"none", "taking", "calling", "holding", "clearing", "done"}]
    /\ batch \in [Frames -> Seq(Message)]
    /\ \A h \in Frames : Len(batch[h]) <= MaxBatch
    /\ shown \in Seq(Message)
    /\ overtaken \in BOOLEAN

Init ==
    /\ state = "idle" /\ queued = <<>> /\ pending = <<>>
    /\ sent = 0 /\ reading = TRUE
    /\ handler = [h \in Frames |-> "none"]
    /\ batch = [h \in Frames |-> <<>>]
    /\ shown = <<>>
    /\ overtaken = FALSE

Goes(h, to) == handler' = [handler EXCEPT ![h] = to]

-----------------------------------------------------------------------------
\* Inbound::merge, or both in arrival order when the kinds differ.
Join(held, new) ==
    IF held.kind = new.kind /\ new.kind # "ping"
      THEN <<[held EXCEPT !.parts = @ \o new.parts]>>
      ELSE <<held, new>>

\* enqueue_inbound: behind the running handler's queue, or at its front and a
\* handler is started.
PushFront(new) == <<new>> \o queued
PushBack(new) == Append(queued, new)
Behind(new) == PushBack(new)

enqueue_inbound(kind) ==
    LET f   == sent + 1
        new == [kind |-> kind, parts |-> <<f>>]
    IN  /\ reading /\ sent < LastFrame
        /\ sent' = f
        /\ \/ /\ state = "processing"
              /\ queued' = Behind(new)
              /\ UNCHANGED <<state, pending, handler>>
           \/ /\ state # "processing"
              /\ state' = "processing"
              /\ queued' = (IF pending = <<>> THEN <<new>> ELSE Join(pending[1], new)) \o queued
              /\ pending' = <<>>
              /\ Goes(f, "taking")
        /\ UNCHANGED <<reading, batch, shown, overtaken>>

\* The peer closes, or the idle bound or an error ends the read loop; the
\* handlers are waited for.
stop_reading ==
    /\ reading
    /\ reading' = FALSE
    /\ UNCHANGED <<state, queued, pending, sent, handler, batch, shown, overtaken>>

-----------------------------------------------------------------------------
\* handle_inbound: go back to Idle, or take the next message, and with
\* batching on the data messages behind it.
Batches ==
    {1} \cup {n \in 2..Len(queued) :
                 n <= MaxBatch /\ \A i \in 1..n : queued[i].kind # "ping"}
Longest(n) == \A m \in Batches : m <= n

Remaining(n) == SubSeq(queued, n + 1, Len(queued))
take(h) ==
    /\ handler[h] = "taking"
    /\ \/ /\ queued = <<>>
          /\ state' = "idle"
          /\ Goes(h, "done")
          /\ UNCHANGED <<queued, batch>>
       \/ /\ queued # <<>>
          /\ \E n \in Batches :
                /\ n = 1 \/ Longest(n)
                /\ batch' = [batch EXCEPT ![h] = SubSeq(queued, 1, n)]
                /\ queued' = Remaining(n)
          /\ Goes(h, "calling")
          /\ UNCHANGED state
    /\ UNCHANGED <<pending, sent, reading, shown, overtaken>>

\* The model answers, holds the newest message back, closes, or fails.
call_llm_batch(h) ==
    /\ handler[h] = "calling"
    /\ \/ /\ Goes(h, "taking")
          /\ batch' = [batch EXCEPT ![h] = <<>>]
          /\ shown' = shown \o batch[h]
       \/ /\ Goes(h, "holding")
          /\ batch' = [batch EXCEPT ![h] = <<Last(@)>>]
          /\ shown' = shown \o Front(batch[h])
       \/ /\ Goes(h, "clearing")
          /\ batch' = [batch EXCEPT ![h] = <<>>]
          /\ shown' = shown \o batch[h]
    /\ UNCHANGED <<state, queued, pending, sent, reading, overtaken>>

\* wait_for_websocket_data: the queue stays as it is.
hold(h) ==
    /\ handler[h] = "holding"
    /\ pending' = batch[h]
    /\ batch' = [batch EXCEPT ![h] = <<>>]
    /\ state' = "accumulating"
    /\ overtaken' = (overtaken \/ queued # <<>>)
    /\ Goes(h, "done")
    /\ UNCHANGED <<queued, sent, reading, shown>>

\* A close or a failure discards the queue.
clear(h) ==
    /\ handler[h] = "clearing"
    /\ state' = "idle"
    /\ queued' = <<>>
    /\ Goes(h, "done")
    /\ UNCHANGED <<pending, sent, reading, batch, shown, overtaken>>

handler_step(h) == take(h) \/ call_llm_batch(h) \/ hold(h) \/ clear(h)

Next == \/ \E kind \in Kinds : enqueue_inbound(kind)
        \/ stop_reading
        \/ \E h \in Frames : handler_step(h)

Spec == Init /\ [][Next]_vars

\* Handlers run and the model's calls return.
Fairness == \A h \in Frames : WF_vars(handler_step(h))

-----------------------------------------------------------------------------
(***************************************************************************)
(* "The per-connection state machine keeps them from overlapping": one     *)
(* handler at a time, and the state says Processing while there is one and *)
(* only then.                                                              *)
(***************************************************************************)
Running == {h \in Frames : handler[h] \notin {"none", "done"}}
OneHandler ==
    /\ \A g, h \in Running : g = h
    /\ (state = "processing") <=> (Running # {})

(***************************************************************************)
(* No message is left behind in an Idle connection, where only the next    *)
(* message from the peer would wake it.                                    *)
(***************************************************************************)
IdleIsEmpty == state = "idle" => queued = <<>>

(***************************************************************************)
(* "So messages keep their arrival order": the model is shown the frames   *)
(* in the order they came, joined or not, until a message is held back     *)
(* while others are queued behind it; the next frame is then joined to the *)
(* held one, ahead of those.                                               *)
(***************************************************************************)
Precedes(m, n) == \A f \in ToSet(m.parts), g \in ToSet(n.parts) : f < g
InOrder(m) == \A i, j \in DOMAIN m.parts : i < j => m.parts[i] < m.parts[j]
InArrivalOrder ==
    ~overtaken => /\ \A i \in DOMAIN shown : InOrder(shown[i])
                  /\ \A i, j \in DOMAIN shown : i < j => Precedes(shown[i], shown[j])

(***************************************************************************)
(* Handlers end: after the peer's last message what is queued is answered  *)
(* and the handler goes, so that the connection's task, which waits for    *)
(* it, can end too.                                                        *)
(***************************************************************************)
HandlersEnd == <>[] (\A h \in Frames : handler[h] \in {"none", "done"})

(***************************************************************************)
(* The invariant of a WebSocket connection: its types, one handler, no     *)
(* message left behind, and the order of arrival.                          *)
(***************************************************************************)
WsInv == TypeOK /\ OneHandler /\ IdleIsEmpty /\ InArrivalOrder
=============================================================================
