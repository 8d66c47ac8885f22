------------------------------- MODULE Calls --------------------------------
(***************************************************************************)
(* Calls whose other side may end before they are answered: actions sent   *)
(* to a client's loop (CommandChannel), to one connection of a server      *)
(* (PeerCommands), and MCP requests at the end of the input (Drain).  No   *)
(* step touches two of them, so each behaviour explores one.               *)
(***************************************************************************)
EXTENDS CommandChannel

CONSTANTS PeerCallers,    \* send_to_peer calls, as in PeerCommands
          PeerCapacity,
          Requests,       \* MCP requests, as in Drain
          LastDrop

VARIABLES kind,       \* which of them is explored
          row, peer_handle, tracked, closer, peer_worker, peer_current, peer_queue,
          hungup, peer_caller, peer_reply,
          call, outstanding, receiver, notified, deadline, drops

peerVars == <<row, peer_handle, tracked, closer, peer_worker, peer_current, peer_queue,
              hungup, peer_caller, peer_reply>>
drainVars == <<call, outstanding, receiver, notified, deadline, drops>>

Peer == INSTANCE PeerCommands WITH
            Callers <- PeerCallers, Capacity <- PeerCapacity, handle <- peer_handle,
            worker <- peer_worker, current <- peer_current, queue <- peer_queue,
            caller <- peer_caller, reply <- peer_reply

Mcp == INSTANCE Drain

ASSUME PeerAssumption == Peer!CapacityIsPositive /\ LastDrop \in Nat

CallsInit == /\ kind \in {"client", "peer", "mcp"}
             /\ Init /\ Peer!Init /\ Mcp!Init

CallsNext ==
    /\ UNCHANGED kind
    /\ \/ kind = "client" /\ Next /\ UNCHANGED <<peerVars, drainVars>>
       \/ kind = "peer" /\ Peer!Next /\ UNCHANGED <<vars, drainVars>>
       \/ kind = "mcp" /\ Mcp!Next /\ UNCHANGED <<vars, peerVars>>

CallsSpec ==
    /\ CallsInit
    /\ [][CallsNext]_<<kind, vars, peerVars, drainVars>>
    /\ kind = "client" => Fairness
    /\ kind = "peer" => Peer!Fairness
    /\ kind = "mcp" => Mcp!Running

-----------------------------------------------------------------------------
(***************************************************************************)
(* A caller told that the peer is disconnected can rely on it              *)
(* (PeerCommands).                                                         *)
(***************************************************************************)
PeerInv == Peer!PeerInv

(***************************************************************************)
(* A call whose other side ends is settled without any timeout: that to a  *)
(* client loop which exits, and that to a peer worker which is cancelled,  *)
(* whether or not it is blocked in a write to the peer.                    *)
(***************************************************************************)
CallsSettle == FailsFast /\ Peer!NobodyIsLeftWaiting

(***************************************************************************)
(* Before its deadline the drain ends only when every answer is written,   *)
(* and it never sleeps through an answer (Drain).                          *)
(***************************************************************************)
DrainInv == Mcp!DrainInv

(***************************************************************************)
(* The end of the input is reported (Drain).                               *)
(***************************************************************************)
DrainEnds == Mcp!DrainEnds
=============================================================================
