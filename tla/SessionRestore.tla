--------------------------- MODULE SessionRestore ---------------------------
(***************************************************************************)
(* Loading a saved session (restore_session and RestoreOwnership in        *)
(* src/utils/save_load.rs): the servers and clients of the session are     *)
(* started one after the other, then its pipes, easy-protocol wrappers and *)
(* global tasks are added.  What was made is noted in an ownership record; *)
(* an error rolls it back, and a restore whose future is dropped at any    *)
(* await leaves it to a spawned cleanup.                                   *)
(*                                                                         *)
(* Ids are new, so only what this restore makes is in the variables.  The  *)
(* session has been validated.  A start that is cancelled is cleaned up by *)
(* its StartupGuard (ServerLifecycle, ClientLifecycle); here it leaves     *)
(* nothing behind.                                                         *)
(***************************************************************************)
CONSTANTS Instances,   \* saved servers and clients
          PipeEnds,    \* the two servers of the saved pipe
          Wrapper,     \* the saved easy wrapper of one of them
          Task         \* the saved global task

PlanIsClosed == /\ PipeEnds \subseteq Instances /\ PipeEnds # {}
                /\ Wrapper # Task /\ {Wrapper, Task} \cap Instances = {}

VARIABLES table,    \* what the restore has made and is there: rows, wrapper, task
          piped,    \* the pipe is in the table
          linked,   \* server_to_easy, client_to_easy
          at,       \* where the restore stands
          todo,     \* saved resources that are not started yet
          owned,    \* RestoreOwnership: noted and not taken off yet
          cleanup,  \* what the spawned cleanup has to remove
          removing  \* the id whose removal the rollback awaits

vars == <<table, piped, linked, at, todo, owned, cleanup, removing>>

Made == Instances \cup {Wrapper, Task}

TypeOK ==
    /\ table \subseteq Made /\ owned \subseteq Made /\ cleanup \subseteq Made
    /\ todo \subseteq Instances
    /\ piped \in BOOLEAN /\ linked \in BOOLEAN
    /\ piped => PipeEnds \subseteq table
    /\ at \in {"starting", "piping", "wrapping", "linking", "tasking",
               "rolling", "failed", "cancelled", "committed"}
    /\ removing \subseteq Made

Init ==
    /\ table = {} /\ owned = {} /\ cleanup = {} /\ removing = {}
    /\ todo = Instances
    /\ piped = FALSE /\ linked = FALSE
    /\ at = "starting"

-----------------------------------------------------------------------------
\* form.create returns, and the id is noted before the next await; or the
\* start fails, having removed its row.
Noted(x) == owned \cup {x}

create(x) ==
    /\ at = "starting" /\ x \in todo
    /\ \/ /\ table' = table \cup {x}
          /\ owned' = Noted(x)
          /\ todo' = todo \ {x}
          /\ at' = IF todo' = {} THEN "piping" ELSE at
       \/ /\ at' = "rolling"
          /\ UNCHANGED <<table, owned, todo>>
    /\ UNCHANGED <<piped, linked, cleanup, removing>>

\* add_pipe, which refuses a server that is gone.
add_pipe ==
    /\ at = "piping"
    /\ piped' = (PipeEnds \subseteq table)
    /\ at' = IF piped' THEN "wrapping" ELSE "rolling"
    /\ UNCHANGED <<table, linked, todo, owned, cleanup, removing>>

add_easy_instance ==
    /\ at = "wrapping"
    /\ table' = table \cup {Wrapper}
    /\ owned' = Noted(Wrapper)
    /\ at' = "linking"
    /\ UNCHANGED <<piped, linked, todo, cleanup, removing>>

\* The routing entry is made whether the server is there or not.
link_to_easy ==
    /\ at = "linking"
    /\ linked' = TRUE
    /\ at' = "tasking"
    /\ UNCHANGED <<table, piped, todo, owned, cleanup, removing>>

\* add_task, and with it the restore is committed.
add_task ==
    /\ at = "tasking"
    /\ table' = table \cup {Task}
    /\ owned' = Noted(Task)
    /\ at' = "committed"
    /\ UNCHANGED <<piped, linked, todo, cleanup, removing>>

-----------------------------------------------------------------------------
\* rollback goes through tasks, wrappers, instances.
FirstOf(list) == IF Task \in list THEN {Task} ELSE IF Wrapper \in list THEN {Wrapper} ELSE list

\* Removing an instance takes its pipes along, a wrapper its routing entry.
PipeAfter(x) == piped /\ x \notin PipeEnds

Remove(x) ==
    /\ table' = table \ {x}
    /\ piped' = PipeAfter(x)
    /\ linked' = (linked /\ (x = Wrapper => x \notin table))

\* An id stays on the list while its removal is awaited: a rollback that is
\* itself dropped hands it on.
PopFirst(list, x) == list \ {x}
PeekFirst(list, x) == list
ListMeanwhile(list, x) == PeekFirst(list, x)

remove_last(x) ==
    /\ at = "rolling" /\ removing = {} /\ x \in FirstOf(owned)
    /\ owned' = ListMeanwhile(owned, x)
    /\ removing' = {x}
    /\ UNCHANGED <<table, piped, linked, at, todo, cleanup>>

\* A drop after the removal and before the pop is a removal from outside and
\* a drop.
removal_returns(x) ==
    /\ at = "rolling" /\ x \in removing
    /\ Remove(x)
    /\ owned' = owned \ {x}
    /\ removing' = {}
    /\ UNCHANGED <<at, todo, cleanup>>

rolled_back ==
    /\ at = "rolling" /\ owned = {} /\ removing = {}
    /\ at' = "failed"
    /\ UNCHANGED <<table, piped, linked, todo, owned, cleanup, removing>>

rollback == rolled_back \/ \E x \in Made : remove_last(x) \/ removal_returns(x)

\* The restore is dropped at an await: what is still noted goes to a cleanup
\* task, which rolls it back.
Forgotten == {}
HandedOver == owned
CleanupTakes == HandedOver

drop ==
    /\ at \in {"starting", "piping", "wrapping", "linking", "tasking", "rolling"}
    /\ at' = "cancelled"
    /\ cleanup' = CleanupTakes
    /\ owned' = {} /\ removing' = {}
    /\ UNCHANGED <<table, piped, linked, todo>>

clean(x) ==
    /\ x \in FirstOf(cleanup)
    /\ Remove(x)
    /\ cleanup' = cleanup \ {x}
    /\ UNCHANGED <<at, todo, owned, removing>>

\* Anybody else removes an instance meanwhile, or cancels the task.
remove_from_outside(x) ==
    /\ x \in table \ {Wrapper}
    /\ Remove(x)
    /\ UNCHANGED <<at, todo, owned, cleanup, removing>>

Next == \/ \E x \in Instances : create(x)
        \/ add_pipe \/ add_easy_instance \/ link_to_easy \/ add_task
        \/ rollback \/ drop
        \/ \E x \in Made : clean(x) \/ remove_from_outside(x)

Spec == Init /\ [][Next]_vars

\* A rollback goes on, and the spawned cleanup runs.
Fairness == WF_vars(rollback) /\ \A x \in Made : WF_vars(clean(x))

-----------------------------------------------------------------------------
(***************************************************************************)
(* At every await of the restore, of its rollback and of the cleanup, what *)
(* exists is noted where a drop at that point will find it.                *)
(***************************************************************************)
OwnedUntilCommitted == at # "committed" => table \subseteq owned \cup cleanup

(***************************************************************************)
(* "On startup failure, remove resources created by this restore": a       *)
(* restore that fails or is dropped, also in the middle of its rollback,   *)
(* leaves no instance, pipe, wrapper, route or task.                       *)
(***************************************************************************)
AllOrNothing ==
    at \in {"rolling", "cancelled"} ~> (table = {} /\ ~piped /\ ~linked)

(***************************************************************************)
(* When the rollback, or the cleanup of a dropped restore, has gone        *)
(* through its list, nothing of the session is left: no instance was made  *)
(* and not noted, no pipe or routing entry outlived what it belongs to.    *)
(***************************************************************************)
NothingLeftOver ==
    at = "failed" \/ (at = "cancelled" /\ cleanup = {}) => table = {} /\ ~piped /\ ~linked

(***************************************************************************)
(* The invariant of a restore: its types, a note of whatever exists, and   *)
(* nothing left over at its end.                                           *)
(***************************************************************************)
SessionInv == TypeOK /\ OwnedUntilCommitted /\ NothingLeftOver
=============================================================================
