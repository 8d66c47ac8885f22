--------------------------- MODULE ResidentScripts --------------------------
(***************************************************************************)
(* Resident scripts (src/scripting/resident.rs): one interpreter process   *)
(* per scope answers one event per line.  A dispatch looks the process up  *)
(* in the registry or spawns it, waits for its turn at the process's lock, *)
(* takes the pipes into its own hands, writes the event and reads one line *)
(* back, all before one deadline; any failure kills the process.  The      *)
(* harness writes its replies to the standard output of the script, which  *)
(* the script's own prints go to as well: a printed line is one that no    *)
(* event asked for, written None here.                                     *)
(*                                                                         *)
(* The model has one scope of one server or client; others are seen only   *)
(* in that their dispatches evict an idle entry.  A process whose pipes    *)
(* nobody owns any more is killed by the drop of its last reference.       *)
(***************************************************************************)
EXTENDS Naturals, Sequences

CONSTANTS Events,   \* dispatches
          Procs,    \* processes, each spawned at most once
          Noisy,    \* the processes whose script prints something itself
          MaxUnread,  \* lines the output pipe of a process holds
          None

NoneIsNoId == None \notin Events \cup Procs

VARIABLES registry,  \* the process of the scope, or None
          io,        \* where the pipes of each process are
          lock,      \* who holds the lock of each process
          wedged,    \* processes that answer no more, or have exited
          asked,     \* events written to a process and not answered yet
          said,      \* lines a process has written and nobody has read: an
                     \* event for its reply, None for a print
          event,     \* where each dispatch stands
          use,       \* the process it found
          got,       \* the event whose reply it read
          owner,     \* the server or client
          victim     \* the process shutdown_owner took from the registry

vars == <<registry, io, lock, wedged, asked, said, event, use, got, owner, victim>>

Settled == {"answered", "fallback", "cancelled"}
Holding == {"asking", "reading", "reaping", "not_alive"}

TypeOK ==
    /\ registry \in Procs \cup {None}
    /\ io \in [Procs -> {"unborn", "slot", "hand", "dead"}]
    /\ lock \in [Procs -> Events \cup {None}]
    /\ \A p \in Procs : lock[p] # None => use[lock[p]] = p /\ event[lock[p]] \in Holding
    /\ wedged \subseteq Procs
    /\ asked \in [Procs -> SUBSET Events] /\ said \in [Procs -> Seq(Events \cup {None})]
    /\ event \in [Events -> {"new", "queued", "judging", "evicting"} \cup Holding \cup Settled]
    /\ use \in [Events -> Procs \cup {None}]
    /\ got \in [Events -> Events \cup {None}]
    /\ owner \in {"up", "shutting", "killing", "removed"}
    /\ victim \in Procs \cup {None}

Init ==
    /\ registry = None
    /\ io = [p \in Procs |-> "unborn"]
    /\ lock = [p \in Procs |-> None]
    /\ wedged = {}
    /\ asked = [p \in Procs |-> {}]
    /\ said = [p \in Procs |-> <<>>]
    /\ event = [e \in Events |-> "new"]
    /\ use = [e \in Events |-> None]
    /\ got = [e \in Events |-> None]
    /\ owner = "up"
    /\ victim = None

Goes(e, from, to) == event[e] \in from /\ event' = [event EXCEPT ![e] = to]

\* is_dead: the lock is free and the slot empty.
is_dead(p) == lock[p] = None /\ io[p] = "dead"

\* The process is running: its pipes are in use, or in the slot of a
\* ResidentScript someone refers to.
Runs(p) == \/ io[p] = "hand"
           \/ /\ io[p] = "slot"
              /\ \/ registry = p \/ victim = p
                 \/ \E e \in Events : use[e] = p /\ event[e] \notin Settled

-----------------------------------------------------------------------------
\* dispatch: the lookup, under the registry's lock.  It asks nobody whether
\* the owner is still there: a closed server runs on until it is reaped.
dispatch(e) ==
    /\ Goes(e, {"new"}, "queued")
    /\ IF registry # None /\ ~is_dead(registry)
         THEN /\ use' = [use EXCEPT ![e] = registry]
              /\ UNCHANGED <<registry, io>>
         ELSE \E p \in Procs : /\ io[p] = "unborn"
                               /\ io' = [io EXCEPT ![p] = "slot"]
                               /\ use' = [use EXCEPT ![e] = p]
                               /\ registry' = p
    /\ UNCHANGED <<lock, wedged, asked, said, got, owner, victim>>

\* evict_idle in the dispatch of another scope.
evict_idle ==
    /\ registry # None
    /\ registry' = None
    /\ UNCHANGED <<io, lock, wedged, asked, said, event, use, got, owner, victim>>

\* round_trip gets the lock and takes the pipes, if they are there.
take_io(e) ==
    LET p == use[e] IN
    /\ event[e] = "queued"
    /\ lock[p] = None
    /\ lock' = [lock EXCEPT ![p] = e]
    /\ IF io[p] = "slot"
         THEN Goes(e, {"queued"}, "asking") /\ io' = [io EXCEPT ![p] = "hand"]
         ELSE Goes(e, {"queued"}, "not_alive") /\ UNCHANGED io
    /\ UNCHANGED <<registry, wedged, asked, said, use, got, owner, victim>>

write_event(e) ==
    /\ Goes(e, {"asking"}, "reading")
    /\ asked' = [asked EXCEPT ![use[e]] = @ \cup {e}]
    /\ UNCHANGED <<registry, io, lock, wedged, said, use, got, owner, victim>>

\* What the process writes to its output, while it runs and the pipe has room.
Writes(p, line) ==
    /\ p \notin wedged /\ io[p] \in {"slot", "hand"}
    /\ Len(said[p]) < MaxUnread
    /\ said' = [said EXCEPT ![p] = Append(@, line)]

\* The harness answers an event it has read, with one line; Node's handlers
\* are asynchronous and may finish in any order.
child_answers(p) ==
    \E e \in asked[p] :
       /\ Writes(p, e)
       /\ asked' = [asked EXCEPT ![p] = @ \ {e}]
       /\ UNCHANGED <<registry, io, lock, wedged, event, use, got, owner, victim>>

\* The script itself prints a line, when it is loaded, in handle or later.
child_prints(p) ==
    /\ p \in Noisy
    /\ Writes(p, None)
    /\ UNCHANGED <<registry, io, lock, wedged, asked, event, use, got, owner, victim>>

child_wedges(p) ==
    /\ io[p] \in {"slot", "hand"}
    /\ wedged' = wedged \cup {p}
    /\ UNCHANGED <<registry, io, lock, asked, said, event, use, got, owner, victim>>

\* A line came back, whatever it is: the pipes return to the slot; it has
\* actions, or it is an error or no reply, and leaves the process as it is.
read_reply(e) ==
    LET p == use[e] IN
    /\ event[e] = "reading"
    /\ said[p] # <<>>
    /\ got' = [got EXCEPT ![e] = Head(said[p])]
    /\ said' = [said EXCEPT ![p] = Tail(@)]
    /\ Goes(e, {"reading"}, "answered") \/ Goes(e, {"reading"}, "judging")
    /\ io' = [io EXCEPT ![p] = "slot"]
    /\ lock' = [lock EXCEPT ![p] = None]
    /\ UNCHANGED <<registry, wedged, asked, use, owner, victim>>

\* What is in the pipes of a process is dropped with them.
DropsPipes ==
    /\ asked' = [p \in Procs |-> IF io'[p] = "dead" THEN {} ELSE asked[p]]
    /\ said' = [p \in Procs |-> IF io'[p] = "dead" THEN <<>> ELSE said[p]]

\* The deadline passes, or a pipe is broken: kill the process, and wait for
\* its end with the lock in hand.
AfterFailure(p) == io' = [io EXCEPT ![p] = "dead"]
Unbounded(e) == use[e] \notin wedged
Bounded(e) == TRUE
DeadlineOf(e) == Bounded(e)
fail(e) ==
    /\ DeadlineOf(e)
    /\ Goes(e, {"asking", "reading"}, "reaping")
    /\ AfterFailure(use[e]) /\ DropsPipes
    /\ UNCHANGED <<registry, lock, wedged, use, got, owner, victim>>

\* The lock is released on the way out of a failed round trip.
release(e) ==
    /\ Goes(e, {"reaping", "not_alive"}, "judging")
    /\ lock' = [lock EXCEPT ![use[e]] = None]
    /\ UNCHANGED <<registry, io, wedged, asked, said, use, got, owner, victim>>

\* The deadline passes before it was this event's turn.
time_out_in_queue(e) ==
    /\ Goes(e, {"queued"}, "judging")
    /\ UNCHANGED <<registry, io, lock, wedged, asked, said, use, got, owner, victim>>

\* A failed dispatch evicts the process if it is dead, and falls back.
judge(e) ==
    /\ Goes(e, {"judging"}, IF is_dead(use[e]) THEN "evicting" ELSE "fallback")
    /\ UNCHANGED <<registry, io, lock, wedged, asked, said, use, got, owner, victim>>

evict(e) ==
    /\ Goes(e, {"evicting"}, "fallback")
    /\ registry' = IF registry = use[e] THEN None ELSE registry
    /\ UNCHANGED <<io, lock, wedged, asked, said, use, got, owner, victim>>

\* The task that dispatches is aborted: what it has in its hands is dropped.
LeftInSlot(p) == "slot"
DroppedPipes(p) == "dead"
AfterCancel(p) == DroppedPipes(p)
Unlocked(e) == [p \in Procs |-> IF lock[p] = e THEN None ELSE lock[p]]
cancel(e) ==
    /\ Goes(e, {"queued", "judging", "evicting"} \cup Holding, "cancelled")
    /\ io' = [p \in Procs |-> IF lock[p] = e /\ io[p] = "hand" THEN AfterCancel(p) ELSE io[p]]
    /\ lock' = Unlocked(e)
    /\ DropsPipes
    /\ UNCHANGED <<registry, wedged, use, got, owner, victim>>

-----------------------------------------------------------------------------
\* The owner goes: a client, or a server by close_server, with
\* shutdown_owner; a server by remove_server (dashboard, MCP) without.
remove_owner(shuts) ==
    /\ owner = "up"
    /\ owner' = IF shuts THEN "shutting" ELSE "removed"
    /\ UNCHANGED <<registry, io, lock, wedged, asked, said, event, use, got, victim>>

shutdown_owner ==
    /\ owner = "shutting"
    /\ owner' = "killing"
    /\ victim' = registry
    /\ registry' = None
    /\ UNCHANGED <<io, lock, wedged, asked, said, event, use, got>>

\* ResidentScript::kill waits for the lock, and the round trip that holds it.
KillWaits == victim # None => lock[victim] = None
kill ==
    /\ owner = "killing"
    /\ KillWaits
    /\ owner' = "removed"
    /\ io' = [p \in Procs |-> IF p = victim /\ io[p] = "slot" THEN "dead" ELSE io[p]]
    /\ DropsPipes
    /\ UNCHANGED <<registry, lock, wedged, event, use, got, victim>>

event_step(e) ==
    \/ take_io(e) \/ write_event(e) \/ read_reply(e) \/ fail(e) \/ release(e)
    \/ time_out_in_queue(e) \/ judge(e) \/ evict(e)
owner_step == shutdown_owner \/ kill

Next ==
    \/ \E e \in Events : dispatch(e) \/ event_step(e) \/ cancel(e)
    \/ \E p \in Procs : child_answers(p) \/ child_prints(p) \/ child_wedges(p)
    \/ evict_idle \/ remove_owner(TRUE) \/ remove_owner(FALSE) \/ owner_step

Spec == Init /\ [][Next]_vars

\* Dispatches run, their deadline included, and a shutdown runs on.
Fairness == WF_vars(owner_step) /\ \A e \in Events : WF_vars(event_step(e))

FairSpec == Spec /\ Fairness

-----------------------------------------------------------------------------
(***************************************************************************)
(* "Its unread reply cannot be mistaken for the next event's response":    *)
(* whatever timed out, was cancelled or failed before, the line a dispatch *)
(* reads is the answer to its own event, and actions are taken from no     *)
(* other, as long as the script prints nothing itself.  A line it prints   *)
(* is read as the reply, and is no reason to end the process if it fails   *)
(* to parse: the next dispatch then reads the reply left in the pipe.      *)
(***************************************************************************)
RepliesMatch ==
    \A e \in Events : use[e] \notin Noisy =>
       got[e] \in {None, e} /\ (event[e] = "answered" => got[e] = e)

(***************************************************************************)
(* When shutdown_owner returns, the process it took from the registry is   *)
(* not running, even if a dispatch was talking to it.                      *)
(***************************************************************************)
ShutdownKills == owner = "removed" /\ victim # None => ~Runs(victim)

(***************************************************************************)
(* A wedged script holds nobody: every dispatch ends, those queued behind  *)
(* it included, and so does a shutdown that waits for its turn.            *)
(***************************************************************************)
DispatchEnds ==
    /\ \A e \in Events : event[e] = "queued" ~> event[e] \in Settled
    /\ owner = "shutting" ~> owner = "removed"

(***************************************************************************)
(* The invariant of a resident script: the types of its registry and       *)
(* pipes, replies that belong to their events, and no process left by a    *)
(* shutdown.                                                               *)
(***************************************************************************)
ScriptInv == TypeOK /\ RepliesMatch /\ ShutdownKills
=============================================================================
