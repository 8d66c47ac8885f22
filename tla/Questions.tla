----------------------------- MODULE Questions ------------------------------
(***************************************************************************)
(* The three places where an event waits for an answer from outside: the   *)
(* agent's queue (AgentQueue), the operator's pending list (Intercepts)    *)
(* and a resident script (ResidentScripts).  No operation touches two of   *)
(* them, so a behaviour explores one while the others stay in their        *)
(* initial state, in which none of their fair actions is enabled.          *)
(***************************************************************************)
EXTENDS AgentQueue

CONSTANTS Events, Operators,            \* Intercepts
          ScriptEvents, Procs, Noisy, MaxUnread, None  \* ResidentScripts

VARIABLES used,   \* the one that is in use: "agent", "manual" or "script"
          pending, dispatcher, answers, resolving, resolved,
          registry, io, lock, wedged, asked, said, event, use, got, owner, victim

Manual == INSTANCE Intercepts WITH channel <- answers, sending <- resolving,
                                   confirmed <- resolved

Script == INSTANCE ResidentScripts WITH Events <- ScriptEvents

ASSUME QuestionsAssumption == Script!NoneIsNoId

manualVars == <<pending, dispatcher, answers, resolving, resolved>>
scriptVars == <<registry, io, lock, wedged, asked, said, event, use, got, owner, victim>>

QuestionsInit == /\ used \in {"agent", "manual", "script"}
                 /\ Init /\ Manual!Init /\ Script!Init

QuestionsNext ==
    /\ UNCHANGED used
    /\ \/ used = "agent" /\ Next /\ UNCHANGED <<manualVars, scriptVars>>
       \/ used = "manual" /\ Manual!Next /\ UNCHANGED <<vars, scriptVars>>
       \/ used = "script" /\ Script!Next /\ UNCHANGED <<vars, manualVars>>

QuestionsSpec ==
    /\ QuestionsInit
    /\ [][QuestionsNext]_<<used, vars, manualVars, scriptVars>>
    /\ Fairness /\ Manual!Fairness /\ Script!Fairness

-----------------------------------------------------------------------------
(***************************************************************************)
(* A waiting dispatcher can be woken by the operator in exactly one way    *)
(* (Intercepts).                                                           *)
(***************************************************************************)
PendingInv == Manual!PendingInv

(***************************************************************************)
(* The pending list implements the rendezvous (Intercepts).                *)
(***************************************************************************)
PendingImplementsRendezvous == Manual!ImplementsRendezvous

(***************************************************************************)
(* A dispatch reads the reply to its own event, and a shutdown leaves no   *)
(* process (ResidentScripts).                                              *)
(***************************************************************************)
ScriptInv == Script!ScriptInv

(***************************************************************************)
(* No event hangs: one that left the pending list goes on without its      *)
(* deadline, and a wedged script holds no dispatch and no shutdown up.     *)
(***************************************************************************)
EventsGoOn == Manual!OffTheListIsOver /\ Script!DispatchEnds
=============================================================================
