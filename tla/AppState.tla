------------------------------ MODULE AppState ------------------------------
(***************************************************************************)
(* The tables of AppState (src/state/app_state.rs) side by side: the pipes *)
(* with their deliveries (Pipes), the search of would_create_cycle on any  *)
(* graph (PipeSearch), servers (ServerLifecycle), clients                  *)
(* (ClientLifecycle) and the restore of a session (SessionRestore).  No    *)
(* property relates two of them, so a behaviour explores one of them; what *)
(* is not explored stays in an initial state, in which none of its fair    *)
(* actions is enabled.                                                     *)
(***************************************************************************)
EXTENDS Pipes

CONSTANTS Servers, Conns, ServerOf, Workers, KeyOf,          \* ServerLifecycle
          Clients, ClientOf, CallLimit, LastCall,            \* ClientLifecycle
          Instances, PipeEnds, Wrapper, Task                 \* SessionRestore

VARIABLES table,   \* "pipes", "search", "servers", "clients" or "session"
          existing, from, to, stack, seen, answer,
          rows, status, start, closing, scheduled, conn, handles, unlinking, worker,
          client_rows, client_status, client_start, dial, hanging, client_closing,
          client_handles, calls, client_worker,
          made, piped, linked, restore, todo, owned, cleanup, removing

searchVars == <<existing, from, to, stack, seen, answer>>
serverVars == <<rows, status, start, closing, scheduled, conn, handles, unlinking, worker>>
clientVars == <<client_rows, client_status, client_start, dial, hanging, client_closing,
                client_handles, calls, client_worker>>
sessionVars == <<made, piped, linked, restore, todo, owned, cleanup, removing>>

Search == INSTANCE PipeSearch

Server == INSTANCE ServerLifecycle

Client == INSTANCE ClientLifecycle WITH
              rows <- client_rows, status <- client_status, start <- client_start,
              closing <- client_closing, handles <- client_handles, worker <- client_worker

Session == INSTANCE SessionRestore WITH table <- made, at <- restore

ASSUME TablesAssumption ==
    Server!OwnersAssumption /\ Client!ClientConstantsOK /\ Session!PlanIsClosed

\* A search that is not explored is one that was answered at once.
TablesInit ==
    /\ table \in {"pipes", "search", "servers", "clients", "session"}
    /\ Init /\ Search!Init /\ Server!Init /\ Client!Init /\ Session!Init
    /\ table # "search" => existing = {} /\ from = (CHOOSE n \in Nodes : TRUE) /\ to = from

TablesNext ==
    /\ UNCHANGED table
    /\ \/ table = "pipes" /\ Next /\ UNCHANGED <<searchVars, serverVars, clientVars, sessionVars>>
       \/ table = "search" /\ Search!Next /\ UNCHANGED <<vars, serverVars, clientVars, sessionVars>>
       \/ table = "servers" /\ Server!Next /\ UNCHANGED <<vars, searchVars, clientVars, sessionVars>>
       \/ table = "clients" /\ Client!Next /\ UNCHANGED <<vars, searchVars, serverVars, sessionVars>>
       \/ table = "session" /\ Session!Next /\ UNCHANGED <<vars, searchVars, serverVars, clientVars>>

TablesSpec ==
    /\ TablesInit
    /\ [][TablesNext]_<<table, vars, searchVars, serverVars, clientVars, sessionVars>>
    /\ Fairness /\ Search!Fairness /\ Server!Fairness /\ Client!Fairness
    /\ Session!Fairness

-----------------------------------------------------------------------------
(***************************************************************************)
(* The search of would_create_cycle maintains its invariant and gives the  *)
(* answer of the reference definition (PipeSearch).                        *)
(***************************************************************************)
SearchInv == Search!SearchInv

(***************************************************************************)
(* The search ends on every graph, and the deliveries it allows die out    *)
(* once nothing new comes in (PipeSearch, Pipes).                          *)
(***************************************************************************)
PipesSettle == Search!SearchEnds /\ CascadesDieOut

(***************************************************************************)
(* No worker, handle, connection or counter is kept for a server or a      *)
(* client that is gone (ServerLifecycle, ClientLifecycle).                 *)
(***************************************************************************)
NothingOutlivesOwner == Server!ServerInv /\ Client!ClientInv

(***************************************************************************)
(* The workers of a closed connection, a removed server and a removed      *)
(* client die, also those that register meanwhile.                         *)
(***************************************************************************)
WorkersStop ==
    Server!ClosedConnectionStops /\ Server!RemovedServerStops /\ Client!RemovedClientStops

(***************************************************************************)
(* A start that fails or is cancelled leaves no row, of a server or of a   *)
(* client whose start is guarded.                                          *)
(***************************************************************************)
NoZombieRow == Server!NoZombieRow /\ Client!GuardedStartLeavesNoZombie

(***************************************************************************)
(* No scheduled task is left for a server that is gone (ServerLifecycle).  *)
(***************************************************************************)
NoOrphanedSchedule == Server!NoOrphanedSchedule

(***************************************************************************)
(* Whatever a restore has made is noted for a rollback until the restore   *)
(* is committed (SessionRestore).                                          *)
(***************************************************************************)
SessionInv == Session!SessionInv

(***************************************************************************)
(* A restore that fails or is dropped leaves nothing (SessionRestore).     *)
(***************************************************************************)
AllOrNothing == Session!AllOrNothing
=============================================================================
