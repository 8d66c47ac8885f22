------------------------------ MODULE Streams -------------------------------
(***************************************************************************)
(* The two ways a stream server puts what a peer sends to the model:       *)
(* TcpConnection, where every read has a task of its own, and              *)
(* WebSocketInbound, where the read loop queues.  A behaviour explores a   *)
(* connection of one kind; the other stays in an initial state, in which   *)
(* none of its fair actions is enabled.                                    *)
(***************************************************************************)
EXTENDS TcpConnection

CONSTANTS LastFrame, MaxBatch

VARIABLES kind,   \* "tcp" or "websocket"
          ws_state, ws_queued, pending, ws_sent, reading, handler, batch, shown, overtaken

wsVars == <<ws_state, ws_queued, pending, ws_sent, reading, handler, batch, shown, overtaken>>

Ws == INSTANCE WebSocketInbound WITH state <- ws_state, queued <- ws_queued, sent <- ws_sent

ASSUME StreamsAssumption == Ws!FramesAssumption

StreamsInit == /\ kind \in {"tcp", "websocket"}
               /\ Init /\ Ws!Init
               /\ kind = "websocket" => reader = "reading"

StreamsNext ==
    /\ UNCHANGED kind
    /\ \/ kind = "tcp" /\ Next /\ UNCHANGED wsVars
       \/ kind = "websocket" /\ Ws!Next /\ UNCHANGED vars

StreamsSpec ==
    /\ StreamsInit
    /\ [][StreamsNext]_<<kind, vars, wsVars>>
    /\ Fairness /\ Ws!Fairness

-----------------------------------------------------------------------------
(***************************************************************************)
(* One handler at a time, no message left behind in an Idle connection,    *)
(* and frames shown in arrival order (WebSocketInbound).                   *)
(***************************************************************************)
WsInv == Ws!WsInv

(***************************************************************************)
(* The tasks of a TCP connection, if its writes end, and the handlers of a *)
(* WebSocket connection end once the peer is silent.                       *)
(***************************************************************************)
EveryTaskEnds == TasksEnd /\ Ws!HandlersEnd
=============================================================================
