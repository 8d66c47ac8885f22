-------------------------- MODULE QuestionsProofs ---------------------------
(***************************************************************************)
(* Proofs about Questions, for any requests, tool calls, parked events,    *)
(* operators, dispatches and processes.                                    *)
(*                                                                         *)
(* Queue and pending list need the same strengthening: "one way to wake"   *)
(* must be claimed for dead entries too (OneHand, OneSender), every place  *)
(* of the waiting side needs its channel (InStep, CallerInStep), and Ok    *)
(* was returned exactly for what was put into a channel.  A resident       *)
(* script that does not print needs to know what is in its pipes: nothing  *)
(* while nobody talks to it, and the event of the lock's holder otherwise  *)
(* (InHand, Turn).                                                         *)
(***************************************************************************)
EXTENDS Questions, FiniteSetTheorems, TLAPS

\* Who can wake a dispatcher: its entry, one resolve or the channel, and never
\* two of them, dead or alive.
OneHand ==
    /\ \A e \in pending : answers[e] \in {"empty", "closed"}
                          /\ \A o \in Operators : e \notin resolving[o]
    /\ \A o \in Operators : \A e \in resolving[o] :
          /\ answers[e] \in {"empty", "closed"}
          /\ \A q \in Operators : e \in resolving[q] => q = o
          /\ \A d \in resolving[o] : d = e

\* Where a dispatcher stands, as its channel shows.
InStep ==
    \A e \in Events :
       /\ dispatcher[e] = "new" => /\ e \notin pending /\ answers[e] = "empty"
                                   /\ \A o \in Operators : e \notin resolving[o]
       /\ dispatcher[e] = "waiting" =>
             /\ answers[e] # "closed"
             /\ \/ e \in pending \/ answers[e] \in {"full", "no_sender"}
                \/ \E o \in Operators : e \in resolving[o]
       /\ dispatcher[e] = "answered" => answers[e] = "full"
       /\ dispatcher[e] = "dismissed" => answers[e] = "no_sender"
       /\ dispatcher[e] \in {"expiring", "timed_out", "cancelled"} => answers[e] = "closed"

\* A resolve returned Ok exactly if it filled the channel.
Acknowledged ==
    \A e \in Events : /\ answers[e] = "full" => e \in resolved
                      /\ e \in resolved => answers[e] \in {"full", "closed"}

ManualInv == Manual!TypeOK /\ OneHand /\ InStep /\ Acknowledged

(***************************************************************************)
(* What the dispatcher does.                                               *)
(***************************************************************************)
LEMMA DispatcherKeeps ==
    ASSUME ManualInv, NEW e \in Events,
           \/ Manual!park(e) \/ Manual!elapse(e) \/ Manual!cancel(e)
           \/ Manual!dispatcher_step(e)
    PROVE  ManualInv'
<1> USE DEF ManualInv, Manual!TypeOK, OneHand, InStep, Acknowledged, Manual!Goes, Manual!Ended
<1>1. CASE Manual!park(e)
  BY <1>1 DEF Manual!park, Manual!Live
<1>2. CASE Manual!receive(e)
  BY <1>2 DEF Manual!receive
<1>3. CASE Manual!elapse(e)
  BY <1>3 DEF Manual!elapse, Manual!PolledEmpty
<1>4. CASE Manual!drop_receiver(e)
  BY <1>4 DEF Manual!drop_receiver, Manual!CloseChannel
<1>5. CASE Manual!remove_intercept(e)
  BY <1>5 DEF Manual!remove_intercept, Manual!Unlist
<1>6. CASE Manual!cancel(e)
  BY <1>6 DEF Manual!cancel, Manual!CloseChannel
<1> QED
  BY <1>1, <1>2, <1>3, <1>4, <1>5, <1>6, Zenon DEF Manual!dispatcher_step

(***************************************************************************)
(* What operators do.                                                      *)
(***************************************************************************)
LEMMA OperatorKeeps ==
    ASSUME ManualInv,
           \/ \E e \in Events : Manual!dismiss_intercept(e)
           \/ \E e \in Events, o \in Operators : Manual!resolve_intercept(o, e)
           \/ \E o \in Operators : Manual!send(o)
           \/ Manual!list_intercepts \/ UNCHANGED manualVars
    PROVE  ManualInv'
<1> USE DEF ManualInv, Manual!TypeOK, OneHand, InStep, Acknowledged, Manual!Ended
<1>1. ASSUME NEW e \in Events, Manual!dismiss_intercept(e) PROVE ManualInv'
  BY <1>1 DEF Manual!dismiss_intercept, Manual!DismissDrops
<1>2. ASSUME NEW e \in Events, NEW o \in Operators, Manual!resolve_intercept(o, e) PROVE ManualInv'
  BY <1>2 DEF Manual!resolve_intercept, Manual!TakeSender, Manual!TakeEntry
<1>3. ASSUME NEW o \in Operators, Manual!send(o) PROVE ManualInv'
  <2>1. PICK e \in resolving[o] :
           IF answers[e] = "empty"
           THEN /\ answers' = [answers EXCEPT ![e] = "full"]
                /\ resolved' = resolved \cup {e}
           ELSE UNCHANGED <<answers, resolved>>
    BY <1>3 DEF Manual!send
  <2>2. /\ resolving' = [resolving EXCEPT ![o] = {}]
        /\ UNCHANGED <<pending, dispatcher>>
    BY <1>3 DEF Manual!send
  <2>3. e \in Events /\ e \notin pending /\ answers[e] \in {"empty", "closed"}
        /\ (\A q \in Operators : e \in resolving[q] => q = o) /\ resolving[o] = {e}
    BY <2>1
  <2>4. CASE answers[e] = "empty"
    <3>1. dispatcher[e] # "new"
      BY <2>1
    <3>2. answers' = [answers EXCEPT ![e] = "full"] /\ resolved' = resolved \cup {e}
      BY <2>1, <2>4
    <3>3. Manual!TypeOK'
      BY <2>2, <2>3, <3>2
    <3>4. OneHand'
      BY <2>2, <2>3, <3>2
    <3>5. InStep'
      BY <2>2, <2>3, <2>4, <3>1, <3>2
    <3>6. Acknowledged'
      BY <2>3, <3>2
    <3> QED
      BY <3>3, <3>4, <3>5, <3>6
  <2>5. CASE answers[e] = "closed"
    BY <2>1, <2>2, <2>3, <2>5
  <2> QED
    BY <2>3, <2>4, <2>5
<1>4. CASE Manual!list_intercepts
  BY <1>4 DEF Manual!list_intercepts, Manual!Live
<1>5. CASE UNCHANGED manualVars
  BY <1>5 DEF manualVars
<1> QED
  BY <1>1, <1>2, <1>3, <1>4, <1>5, Zenon

(***************************************************************************)
(* Every step of the pending list.                                         *)
(***************************************************************************)
LEMMA ManualStep ==
    ASSUME ManualInv, Manual!Next \/ UNCHANGED manualVars
    PROVE  ManualInv'
BY DispatcherKeeps, OperatorKeeps, Zenon DEF Manual!Next

(***************************************************************************)
(* Nothing is parked at the start.                                         *)
(***************************************************************************)
LEMMA ManualInit == Manual!Init => ManualInv
  BY DEF Manual!Init, ManualInv, Manual!TypeOK, OneHand, InStep, Acknowledged

(***************************************************************************)
(* The instances count with the same Cardinality.                          *)
(***************************************************************************)
LEMMA SameCardinality == \A S : Manual!Cardinality(S) = Cardinality(S)
  BY DEF Manual!Cardinality, Cardinality

(***************************************************************************)
(* One hand at most, and one at least while a dispatcher waits, is one.    *)
(***************************************************************************)
LEMMA ManualImplied == ManualInv => PendingInv
<1> SUFFICES ASSUME ManualInv, NEW e \in Events, dispatcher[e] = "waiting"
             PROVE  Manual!Wakers(e) = 1
  BY DEF ManualInv, PendingInv, Manual!PendingInv, Manual!OneWayToWake
<1> DEFINE H == {o \in Operators : e \in resolving[o]}
           n == Manual!Cardinality(H)
<1>0. Manual!Wakers(e) = (IF e \in pending THEN 1 ELSE 0) + n
                            + (IF answers[e] \in {"full", "no_sender"} THEN 1 ELSE 0)
  BY DEF Manual!Wakers
<1>1. (H = {} => n = 0) /\ \A o : H = {o} => n = 1
  BY FS_EmptySet, FS_Singleton, SameCardinality
<1> HIDE DEF n
<1>2. CASE e \in pending
  <2>1. H = {} /\ answers[e] \notin {"full", "no_sender"}
    BY <1>2 DEF ManualInv, OneHand
  <2> QED
    BY <1>0, <1>1, <1>2, <2>1
<1>3. CASE \E o \in Operators : e \in resolving[o]
  <2>1. PICK o \in Operators : e \in resolving[o]
    BY <1>3
  <2>2. H = {o} /\ answers[e] \notin {"full", "no_sender"} /\ e \notin pending
    BY <2>1 DEF ManualInv, OneHand
  <2> QED
    BY <1>0, <1>1, <2>2
<1>4. CASE answers[e] \in {"full", "no_sender"}
  <2>1. H = {} /\ e \notin pending
    BY <1>4 DEF ManualInv, OneHand
  <2> QED
    BY <1>0, <1>1, <1>4, <2>1
<1> QED
  BY <1>2, <1>3, <1>4 DEF ManualInv, InStep

(***************************************************************************)
(* A dispatcher that waits can be woken by the operator in exactly one     *)
(* way, for any events and any number of operators at the same time.       *)
(***************************************************************************)
THEOREM OneWakerEach == Manual!Spec => []PendingInv
<1>1. ManualInv /\ [Manual!Next]_(Manual!vars) => ManualInv'
  BY ManualStep DEF Manual!vars, manualVars
<1> QED
  BY <1>1, ManualInit, ManualImplied, PTL DEF Manual!Spec

(***************************************************************************)
(* A dispatcher that goes from one place to another moves its asker.       *)
(***************************************************************************)
LEMMA AskerGoes ==
    ASSUME Manual!TypeOK, NEW e \in Events, NEW place, Manual!Goes(e, place)
    PROVE  [d \in Events |-> Manual!Asker(dispatcher[d])]'
             = [[d \in Events |-> Manual!Asker(dispatcher[d])] EXCEPT ![e] = Manual!Asker(place)]
BY DEF Manual!TypeOK, Manual!Goes

(***************************************************************************)
(* Unless the two places are one to the asker.                             *)
(***************************************************************************)
LEMMA AskerStays ==
    ASSUME Manual!TypeOK, NEW e \in Events, NEW place, Manual!Goes(e, place),
           Manual!Asker(place) = Manual!Asker(dispatcher[e])
    PROVE  UNCHANGED [d \in Events |-> Manual!Asker(dispatcher[d])]
BY DEF Manual!TypeOK, Manual!Goes

(***************************************************************************)
(* Every step is one of the rendezvous, or none.                           *)
(***************************************************************************)
LEMMA ManualRefines ==
    ASSUME ManualInv, Manual!Next \/ UNCHANGED manualVars
    PROVE  Manual!R!Next \/ UNCHANGED Manual!R!vars
<1> USE DEF Manual!R!vars, ManualInv
<1>1. ASSUME NEW e \in Events, Manual!park(e) PROVE Manual!R!Ask(e)
  BY <1>1, AskerGoes DEF Manual!park, Manual!R!Ask, Manual!R!Goes, Manual!Asker
<1>2. ASSUME NEW e \in Events, Manual!receive(e) PROVE Manual!R!Receive(e) \/ Manual!R!Refuse(e)
  BY <1>2, AskerGoes
  DEF Manual!receive, Manual!R!Receive, Manual!R!Refuse, Manual!R!Goes, Manual!Asker, Acknowledged
<1>3. ASSUME NEW e \in Events, Manual!elapse(e) PROVE Manual!R!Elapse(e)
  BY <1>3, AskerGoes
  DEF Manual!elapse, Manual!PolledEmpty, Manual!R!Elapse, Manual!R!Goes, Manual!Asker, Acknowledged
<1>4. ASSUME NEW e \in Events, Manual!drop_receiver(e) PROVE Manual!R!GiveUp(e)
  BY <1>4, AskerGoes DEF Manual!drop_receiver, Manual!R!GiveUp, Manual!R!Goes, Manual!Asker
<1>5. ASSUME NEW e \in Events, Manual!remove_intercept(e) PROVE UNCHANGED Manual!R!vars
  BY <1>5, AskerStays DEF Manual!remove_intercept, Manual!Asker
<1>6. ASSUME NEW e \in Events, Manual!cancel(e)
      PROVE  Manual!R!Abandon(e) \/ UNCHANGED Manual!R!vars
  <2>1. CASE dispatcher[e] = "waiting"
    BY <1>6, <2>1, AskerGoes DEF Manual!cancel, Manual!R!Abandon, Manual!R!Goes, Manual!Asker
  <2>2. CASE dispatcher[e] = "expiring"
    BY <1>6, <2>2, AskerStays DEF Manual!cancel, Manual!Asker
  <2> QED
    BY <1>6, <2>1, <2>2 DEF Manual!cancel
<1>7. ASSUME NEW o \in Operators, Manual!send(o)
      PROVE  UNCHANGED Manual!R!vars \/ \E e \in Events : Manual!R!Acknowledge(e)
  <2>1. PICK e \in resolving[o] :
           IF answers[e] = "empty"
           THEN /\ answers' = [answers EXCEPT ![e] = "full"]
                /\ resolved' = resolved \cup {e}
           ELSE UNCHANGED <<answers, resolved>>
    BY <1>7 DEF Manual!send
  <2>2. UNCHANGED dispatcher /\ e \in Events
    BY <1>7, <2>1 DEF Manual!send, Manual!TypeOK
  <2>3. CASE answers[e] = "empty"
    <3>1. dispatcher[e] \in {"waiting", "elapsed"} /\ e \notin resolved
      BY <2>1, <2>2, <2>3 DEF InStep, Acknowledged, Manual!TypeOK, Manual!Ended
    <3> QED
      BY <2>1, <2>2, <2>3, <3>1 DEF Manual!R!Acknowledge, Manual!Asker
  <2> QED
    BY <2>1, <2>2, <2>3
<1>8. ASSUME \/ Manual!list_intercepts \/ UNCHANGED manualVars
             \/ \E e \in Events : \/ Manual!dismiss_intercept(e)
                                  \/ \E o \in Operators : Manual!resolve_intercept(o, e)
      PROVE  UNCHANGED Manual!R!vars
  BY <1>8 DEF Manual!list_intercepts, manualVars, Manual!dismiss_intercept, Manual!resolve_intercept
<1> QED
  BY <1>1, <1>2, <1>3, <1>4, <1>5, <1>6, <1>7, <1>8, Zenon
  DEF Manual!Next, Manual!dispatcher_step, Manual!R!Next

(***************************************************************************)
(* The pending list and its oneshots implement the rendezvous: no answer   *)
(* is acknowledged twice or to nobody, and one acknowledged before the     *)
(* deadline fired is never followed by the fail-closed reply, for any      *)
(* events and operators.                                                   *)
(***************************************************************************)
THEOREM PendingListIsARendezvous == Manual!Spec => PendingImplementsRendezvous
<1>1. Manual!Init => Manual!R!Init
  BY DEF Manual!Init, Manual!R!Init, Manual!Asker
<1>2. ManualInv /\ [Manual!Next]_(Manual!vars) => [Manual!R!Next]_(Manual!R!vars)
  BY ManualRefines DEF Manual!vars, manualVars
<1>3. ManualInv /\ [Manual!Next]_(Manual!vars) => ManualInv'
  BY ManualStep DEF Manual!vars, manualVars
<1> QED
  BY <1>1, <1>2, <1>3, ManualInit, PTL
  DEF Manual!Spec, PendingImplementsRendezvous, Manual!ImplementsRendezvous, Manual!R!Spec

-----------------------------------------------------------------------------
\* The pipes are in the hands of the dispatch whose turn it is; a process that
\* nobody talks to, and whose script does not print, has neither a question
\* nor an unread reply.
InHand ==
    \A p \in Procs :
       /\ p \notin Noisy /\ io[p] \in {"unborn", "slot"} => asked[p] = {} /\ said[p] = <<>>
       /\ io[p] = "hand" => lock[p] \in ScriptEvents /\ event[lock[p]] \in {"asking", "reading"}

\* The dispatch whose turn it is has the pipes in its hands, or says that they
\* are gone; a process that does not print was asked nothing but its event.
Turn(e) ==
    /\ event[e] \in Script!Holding => lock[use[e]] = e
    /\ event[e] \in {"asking", "reading"} => io[use[e]] = "hand"
    /\ event[e] = "asking" /\ use[e] \notin Noisy =>
          asked[use[e]] = {} /\ said[use[e]] = <<>>
    /\ event[e] = "reading" /\ use[e] \notin Noisy =>
          \/ asked[use[e]] = {e} /\ said[use[e]] = <<>>
          \/ asked[use[e]] = {} /\ said[use[e]] = <<e>>
    /\ event[e] \in {"reaping", "not_alive"} => io[use[e]] = "dead"

\* Whoever knows a process knows one that was spawned, and reads nothing before.
Spawned ==
    /\ \A e \in ScriptEvents : event[e] = "new" => got[e] = None
    /\ \A e \in ScriptEvents : event[e] # "new" => use[e] \in Procs /\ io[use[e]] # "unborn"
    /\ registry # None => io[registry] # "unborn"
    /\ victim # None => io[victim] # "unborn"

\* A shutdown takes one process, and has killed it when it is over.
Shutdown ==
    /\ owner \in {"up", "shutting"} => victim = None
    /\ owner = "removed" /\ victim # None => io[victim] = "dead"

ScriptIInv ==
    /\ Script!TypeOK /\ Script!RepliesMatch
    /\ InHand /\ (\A e \in ScriptEvents : Turn(e)) /\ Spawned /\ Shutdown

(***************************************************************************)
(* Registry and owner.                                                     *)
(***************************************************************************)
LEMMA RegistryKeeps ==
    ASSUME ScriptIInv,
           \/ \E e \in ScriptEvents : Script!dispatch(e)
           \/ Script!evict_idle \/ Script!remove_owner(TRUE) \/ Script!remove_owner(FALSE)
           \/ Script!owner_step \/ UNCHANGED scriptVars
    PROVE  ScriptIInv'
<1> USE QuestionsAssumption
    DEF Script!NoneIsNoId, ScriptIInv, Script!TypeOK, Script!RepliesMatch, InHand, Turn, Spawned, Shutdown,
        Script!Holding, Script!Settled
<1>1. ASSUME NEW e \in ScriptEvents, Script!dispatch(e) PROVE ScriptIInv'
  <2>1. /\ event[e] = "new" /\ event' = [event EXCEPT ![e] = "queued"]
        /\ UNCHANGED <<lock, wedged, asked, said, got, owner, victim>>
    BY <1>1 DEF Script!dispatch, Script!Goes
  <2>2. CASE registry # None /\ ~Script!is_dead(registry)
    <3>0. use' = [use EXCEPT ![e] = registry] /\ UNCHANGED <<registry, io>> /\ registry \in Procs
      BY <1>1, <2>2 DEF Script!dispatch
    <3>1. Script!TypeOK'
      BY <2>1, <3>0, <2>2
    <3>2. Script!RepliesMatch'
      BY <2>1, <3>0, <2>2
    <3>3. InHand'
      BY <2>1, <3>0, <2>2
    <3>4. (\A d \in ScriptEvents : Turn(d))'
      BY <2>1, <3>0, <2>2
    <3>5. Spawned'
      BY <2>1, <3>0, <2>2
    <3>6. Shutdown'
      BY <2>1, <3>0, <2>2
    <3> QED
      BY <3>1, <3>2, <3>3, <3>4, <3>5, <3>6
  <2>3. CASE ~(registry # None /\ ~Script!is_dead(registry))
    <3>0. PICK p \in Procs : /\ io[p] = "unborn"
                             /\ io' = [io EXCEPT ![p] = "slot"]
                             /\ use' = [use EXCEPT ![e] = p]
                             /\ registry' = p
      BY <1>1, <2>3 DEF Script!dispatch
    <3>1. Script!TypeOK'
      BY <2>1, <3>0
    <3>2. Script!RepliesMatch'
      BY <2>1, <3>0
    <3>3. InHand'
      BY <2>1, <3>0
    <3>4. (\A d \in ScriptEvents : Turn(d))'
      BY <2>1, <3>0
    <3>5. Spawned'
      BY <2>1, <3>0
    <3>6. Shutdown'
      BY <2>1, <3>0
    <3> QED
      BY <3>1, <3>2, <3>3, <3>4, <3>5, <3>6
  <2> QED
    BY <2>2, <2>3
<1>2. CASE Script!evict_idle
  BY <1>2 DEF Script!evict_idle
<1>3. CASE Script!remove_owner(TRUE) \/ Script!remove_owner(FALSE)
  BY <1>3 DEF Script!remove_owner
<1>4. CASE Script!shutdown_owner
  BY <1>4 DEF Script!shutdown_owner
<1>5. CASE Script!kill
  <2>1. /\ owner = "killing" /\ owner' = "removed" /\ (victim # None => lock[victim] = None)
        /\ io' = [q \in Procs |-> IF q = victim /\ io[q] = "slot" THEN "dead" ELSE io[q]]
        /\ UNCHANGED <<registry, lock, wedged, event, use, got, victim>>
    BY <1>5 DEF Script!kill, Script!KillWaits
  <2>2. /\ asked' \in [Procs -> SUBSET ScriptEvents]
        /\ said' \in [Procs -> Seq(ScriptEvents \cup {None})]
        /\ \A q \in Procs : io'[q] # "dead" => asked'[q] = asked[q] /\ said'[q] = said[q]
    BY <1>5 DEF Script!kill, Script!DropsPipes
  <2>3. Script!TypeOK' /\ Script!RepliesMatch'
    BY <2>1, <2>2
  <2>4. InHand'
    BY <2>1, <2>2
  <2>5. (\A e \in ScriptEvents : Turn(e))'
    BY <2>1, <2>2
  <2>6. Spawned' /\ Shutdown'
    BY <2>1, <2>2
  <2> QED
    BY <2>3, <2>4, <2>5, <2>6
<1>6. CASE UNCHANGED scriptVars
  BY <1>6 DEF scriptVars
<1> QED
  BY <1>1, <1>2, <1>3, <1>4, <1>5, <1>6, Zenon DEF Script!owner_step

(***************************************************************************)
(* The process.                                                            *)
(***************************************************************************)
LEMMA ProcessKeeps ==
    ASSUME ScriptIInv, NEW p \in Procs,
           Script!child_answers(p) \/ Script!child_prints(p) \/ Script!child_wedges(p)
    PROVE  ScriptIInv'
<1> USE QuestionsAssumption
    DEF Script!NoneIsNoId, ScriptIInv, Script!TypeOK, Script!RepliesMatch, InHand, Turn, Spawned, Shutdown,
        Script!Holding, Script!Settled
<1>1. CASE Script!child_answers(p)
  <2>1. PICK e \in asked[p] :
           /\ io[p] \in {"slot", "hand"}
           /\ said' = [said EXCEPT ![p] = Append(@, e)]
           /\ asked' = [asked EXCEPT ![p] = @ \ {e}]
           /\ UNCHANGED <<registry, io, lock, wedged, event, use, got, owner, victim>>
    BY <1>1 DEF Script!child_answers, Script!Writes
  <2>2. e \in ScriptEvents /\ Append(said[p], e) \in Seq(ScriptEvents \cup {None})
    BY <2>1
  <2>3. Script!TypeOK' /\ Script!RepliesMatch' /\ Spawned' /\ Shutdown'
    BY <2>1, <2>2
  <2>4. CASE p \in Noisy
    <3>1. \A q \in Procs \ {p} : said'[q] = said[q] /\ asked'[q] = asked[q]
      BY <2>1
    <3>2. InHand'
      BY <2>1, <2>4, <3>1
    <3>3. (\A q \in ScriptEvents : Turn(q))'
      BY <2>1, <2>4, <3>1
    <3> QED
      BY <2>3, <3>2, <3>3
  <2>5. CASE p \notin Noisy
    <3>1. PICK d \in ScriptEvents : lock[p] = d /\ event[d] \in {"asking", "reading"} /\ use[d] = p
      BY <2>1, <2>5
    <3>2. d = e /\ event[e] = "reading" /\ io[p] = "hand" /\ asked[p] = {e} /\ said[p] = <<>>
      BY <2>1, <2>5, <3>1
    <3>3. Append(<<>>, e) = <<e>> /\ {e} \ {e} = {}
      OBVIOUS
    <3>a. said'[p] = Append(said[p], e) /\ asked'[p] = asked[p] \ {e}
      BY <2>1
    <3>4. /\ said'[p] = <<e>> /\ asked'[p] = {}
          /\ \A q \in Procs \ {p} : said'[q] = said[q] /\ asked'[q] = asked[q]
      BY <2>1, <3>2, <3>3, <3>a
    <3>5. InHand'
      BY <2>1, <3>2, <3>4
    <3>6. (\A q \in ScriptEvents : Turn(q))'
      BY <2>1, <2>2, <3>1, <3>2, <3>4
    <3> QED
      BY <2>3, <3>5, <3>6
  <2> QED
    BY <2>4, <2>5
<1>3. CASE Script!child_prints(p)
  <2>1. /\ p \in Noisy /\ said' = [said EXCEPT ![p] = Append(@, None)]
        /\ UNCHANGED <<registry, io, lock, wedged, asked, event, use, got, owner, victim>>
    BY <1>3 DEF Script!child_prints, Script!Writes
  <2>2. Append(said[p], None) \in Seq(ScriptEvents \cup {None})
    OBVIOUS
  <2> QED
    BY <2>1, <2>2
<1>2. CASE Script!child_wedges(p)
  BY <1>2 DEF Script!child_wedges
<1> QED
  BY <1>1, <1>2, <1>3

(***************************************************************************)
(* A dispatch.                                                             *)
(***************************************************************************)
LEMMA DispatchKeeps ==
    ASSUME ScriptIInv, NEW e \in ScriptEvents, Script!event_step(e) \/ Script!cancel(e)
    PROVE  ScriptIInv'
<1> USE QuestionsAssumption
    DEF Script!NoneIsNoId, ScriptIInv, Script!TypeOK, Script!RepliesMatch, InHand, Turn, Spawned, Shutdown,
        Script!Holding, Script!Settled, Script!Goes
<1>1. CASE Script!take_io(e)
  <2> DEFINE p == use[e]
  <2>1. /\ p \in Procs /\ event[e] = "queued" /\ lock[p] = None
        /\ lock' = [lock EXCEPT ![p] = e]
        /\ UNCHANGED <<registry, wedged, asked, said, use, got, owner, victim>>
    BY <1>1 DEF Script!take_io
  <2>2. \A d \in ScriptEvents : event[d] \in Script!Holding => use[d] # p /\ d # e
    BY <2>1
  <2>3. CASE io[p] = "slot"
    <3>0. event' = [event EXCEPT ![e] = "asking"] /\ io' = [io EXCEPT ![p] = "hand"]
      BY <1>1, <2>3 DEF Script!take_io
    <3>a. use[e] = p /\ (p \notin Noisy => asked[p] = {} /\ said[p] = <<>>)
      BY <2>1, <2>3
    <3> HIDE DEF p
    <3>1. Script!TypeOK'
      BY <2>1, <2>2, <2>3, <3>0, <3>a
    <3>2. Script!RepliesMatch'
      BY <2>1, <2>2, <2>3, <3>0, <3>a
    <3>3. InHand'
      BY <2>1, <2>2, <2>3, <3>0, <3>a
    <3>4. (\A d \in ScriptEvents : Turn(d))'
      BY <2>1, <2>2, <2>3, <3>0, <3>a
    <3>5. Spawned'
      BY <2>1, <2>2, <2>3, <3>0, <3>a
    <3>6. Shutdown'
      BY <2>1, <2>2, <2>3, <3>0, <3>a
    <3> QED
      BY <3>1, <3>2, <3>3, <3>4, <3>5, <3>6
  <2>4. CASE io[p] # "slot"
    <3>0. event' = [event EXCEPT ![e] = "not_alive"] /\ io' = io
      BY <1>1, <2>4 DEF Script!take_io
    <3>a. io[p] = "dead" /\ use[e] = p
      BY <2>1, <2>4
    <3> HIDE DEF p
    <3>1. Script!TypeOK'
      BY <2>1, <2>2, <2>4, <3>0, <3>a
    <3>2. Script!RepliesMatch'
      BY <2>1, <2>2, <2>4, <3>0, <3>a
    <3>3. InHand'
      BY <2>1, <2>2, <2>4, <3>0, <3>a
    <3>4. (\A d \in ScriptEvents : Turn(d))'
      BY <2>1, <2>2, <2>4, <3>0, <3>a
    <3>5. Spawned'
      BY <2>1, <2>2, <2>4, <3>0, <3>a
    <3>6. Shutdown'
      BY <2>1, <2>2, <2>4, <3>0, <3>a
    <3> QED
      BY <3>1, <3>2, <3>3, <3>4, <3>5, <3>6
  <2> QED
    BY <2>3, <2>4
<1>2. CASE Script!write_event(e)
  <2> DEFINE p == use[e]
  <2>1. /\ event[e] = "asking" /\ event' = [event EXCEPT ![e] = "reading"]
        /\ asked' = [asked EXCEPT ![p] = @ \cup {e}]
        /\ UNCHANGED <<registry, io, lock, wedged, said, use, got, owner, victim>>
    BY <1>2 DEF Script!write_event
  <2>2. /\ p \in Procs /\ use[e] = p /\ lock[p] = e /\ io[p] = "hand"
        /\ p \notin Noisy => asked[p] = {} /\ said[p] = <<>>
    BY <2>1
  <2>3. asked'[p] \subseteq ScriptEvents /\ (p \notin Noisy => asked'[p] = {e})
    BY <2>1, <2>2
  <2>4. \A d \in ScriptEvents : event[d] \in Script!Holding => use[d] # p \/ d = e
    BY <2>2
  <2> HIDE DEF p
  <2>11. Script!TypeOK'
    BY <2>1, <2>2, <2>3, <2>4
  <2>12. Script!RepliesMatch'
    BY <2>1, <2>2, <2>3, <2>4
  <2>13. InHand'
    BY <2>1, <2>2, <2>3, <2>4
  <2>14. (\A d \in ScriptEvents : Turn(d))'
    BY <2>1, <2>2, <2>3, <2>4
  <2>15. Spawned'
    BY <2>1, <2>2, <2>3, <2>4
  <2>16. Shutdown'
    BY <2>1, <2>2, <2>3, <2>4
  <2> QED
    BY <2>11, <2>12, <2>13, <2>14, <2>15, <2>16
<1>3. CASE Script!read_reply(e)
  <2> DEFINE p == use[e]
  <2>1. /\ event[e] = "reading" /\ said[p] # <<>>
        /\ got' = [got EXCEPT ![e] = Head(said[p])]
        /\ said' = [said EXCEPT ![p] = Tail(@)]
        /\ io' = [io EXCEPT ![p] = "slot"]
        /\ lock' = [lock EXCEPT ![p] = None]
        /\ UNCHANGED <<registry, wedged, asked, use, owner, victim>>
    BY <1>3 DEF Script!read_reply
  <2>2. PICK place \in {"answered", "judging"} : event' = [event EXCEPT ![e] = place]
    BY <1>3 DEF Script!read_reply
  <2>3. /\ p \in Procs /\ use[e] = p /\ lock[p] = e /\ io[p] = "hand"
        /\ p \notin Noisy => asked[p] = {} /\ said[p] = <<e>>
    BY <2>1
  <2>4. Head(<<e>>) = e /\ Tail(<<e>>) = <<>>
    OBVIOUS
  <2>5. /\ Head(said[p]) \in ScriptEvents \cup {None} /\ Tail(said[p]) \in Seq(ScriptEvents \cup {None})
        /\ p \notin Noisy => Head(said[p]) = e /\ Tail(said[p]) = <<>>
    BY <2>1, <2>3, <2>4
  <2>6. \A d \in ScriptEvents : event[d] \in Script!Holding => use[d] # p \/ d = e
    BY <2>3
  <2>7. owner = "removed" => victim # p
    BY <2>3
  <2> DEFINE h == Head(said[p])
             t == Tail(said[p])
  <2>8. /\ event[e] = "reading" /\ io' = [io EXCEPT ![p] = "slot"] /\ lock' = [lock EXCEPT ![p] = None]
        /\ got' = [got EXCEPT ![e] = h] /\ said' = [said EXCEPT ![p] = t]
        /\ UNCHANGED <<registry, wedged, asked, use, owner, victim>>
    BY <2>1
  <2>9. ScriptIInv'
    <3>0. /\ h \in ScriptEvents \cup {None} /\ t \in Seq(ScriptEvents \cup {None})
          /\ p \notin Noisy => h = e /\ t = <<>>
      BY <2>5
    <3> HIDE DEF p, h, t
    <3>1. Script!TypeOK'
      BY <2>2, <2>3, <3>0, <2>6, <2>7, <2>8
    <3>2. Script!RepliesMatch'
      BY <2>2, <2>3, <3>0, <2>6, <2>7, <2>8
    <3>3. InHand'
      BY <2>2, <2>3, <3>0, <2>6, <2>7, <2>8
    <3>4. (\A d \in ScriptEvents : Turn(d))'
      BY <2>2, <2>3, <3>0, <2>6, <2>7, <2>8
    <3>5. Spawned'
      BY <2>2, <2>3, <3>0, <2>6, <2>7, <2>8
    <3>6. Shutdown'
      BY <2>2, <2>3, <3>0, <2>6, <2>7, <2>8
    <3> QED
      BY <3>1, <3>2, <3>3, <3>4, <3>5, <3>6
  <2> QED
    BY <2>9
<1>4. CASE Script!fail(e)
  <2> DEFINE p == use[e]
  <2>1. /\ event[e] \in {"asking", "reading"} /\ event' = [event EXCEPT ![e] = "reaping"]
        /\ io' = [io EXCEPT ![p] = "dead"]
        /\ UNCHANGED <<registry, lock, wedged, use, got, owner, victim>>
    BY <1>4 DEF Script!fail, Script!AfterFailure
  <2>2. p \in Procs /\ use[e] = p /\ lock[p] = e /\ io[p] = "hand"
    BY <2>1
  <2>3. \A d \in ScriptEvents : event[d] \in Script!Holding => use[d] # p \/ d = e
    BY <2>2
  <2>5. /\ asked' \in [Procs -> SUBSET ScriptEvents]
        /\ said' \in [Procs -> Seq(ScriptEvents \cup {None})]
        /\ \A q \in Procs : io'[q] # "dead" => asked'[q] = asked[q] /\ said'[q] = said[q]
    BY <1>4 DEF Script!fail, Script!DropsPipes
  <2>4. ScriptIInv'
    <3> HIDE DEF p
    <3>a. event' \in [ScriptEvents -> {"new", "queued", "judging", "evicting"}
                                       \cup Script!Holding \cup Script!Settled]
      BY <2>1
    <3>b. \A q \in Procs : lock'[q] # None => use'[lock'[q]] = q /\ event'[lock'[q]] \in Script!Holding
      BY <2>1, <2>2, <2>3
    <3>1. Script!TypeOK'
      BY <2>1, <2>2, <2>5, <3>a, <3>b
    <3>2. Script!RepliesMatch'
      BY <2>1, <2>2, <2>3, <2>5
    <3>3. InHand'
      BY <2>1, <2>2, <2>3, <2>5
    <3>4. (\A d \in ScriptEvents : Turn(d))'
      <4> SUFFICES ASSUME NEW d \in ScriptEvents PROVE Turn(d)'
        OBVIOUS
      <4>1. CASE d = e
        BY <2>1, <2>2, <4>1
      <4>2. CASE d # e /\ event[d] \in Script!Holding
        <5>1. event'[d] = event[d] /\ use'[d] = use[d] /\ use[d] \in Procs /\ use[d] # p
          BY <2>1, <2>3, <4>2
        <5>2. io'[use[d]] = io[use[d]] /\ lock' = lock
          BY <2>1, <5>1
        <5> QED
          BY <2>5, <4>2, <5>1, <5>2
      <4>3. CASE d # e /\ event[d] \notin Script!Holding
        BY <2>1, <4>3
      <4> QED
        BY <4>1, <4>2, <4>3
    <3>5. Spawned'
      BY <2>1, <2>2, <2>3, <2>5
    <3>6. Shutdown'
      BY <2>1, <2>2, <2>3, <2>5
    <3> QED
      BY <3>1, <3>2, <3>3, <3>4, <3>5, <3>6
  <2> QED
    BY <2>4
<1>5. CASE Script!release(e)
  BY <1>5 DEF Script!release
<1>6. CASE Script!time_out_in_queue(e)
  BY <1>6 DEF Script!time_out_in_queue
<1>7. CASE Script!judge(e)
  BY <1>7 DEF Script!judge, Script!is_dead
<1>8. CASE Script!evict(e)
  BY <1>8 DEF Script!evict
<1>9. CASE Script!cancel(e)
  BY <1>9 DEF Script!cancel, Script!DropsPipes, Script!Unlocked, Script!AfterCancel, Script!DroppedPipes
<1> QED
  BY <1>1, <1>2, <1>3, <1>4, <1>5, <1>6, <1>7, <1>8, <1>9, Zenon DEF Script!event_step

(***************************************************************************)
(* Every step of a resident script.                                        *)
(***************************************************************************)
LEMMA ScriptStep ==
    ASSUME ScriptIInv, Script!Next \/ UNCHANGED scriptVars
    PROVE  ScriptIInv'
BY RegistryKeeps, ProcessKeeps, DispatchKeeps, Zenon DEF Script!Next

(***************************************************************************)
(* No process and no dispatch at the start.                                *)
(***************************************************************************)
LEMMA ScriptInit == Script!Init => ScriptIInv
  BY QuestionsAssumption
  DEF Script!NoneIsNoId, Script!Init, ScriptIInv, Script!TypeOK, Script!RepliesMatch, InHand,
      Turn, Spawned, Shutdown, Script!Holding

(***************************************************************************)
(* A process that a shutdown has killed does not run.                      *)
(***************************************************************************)
LEMMA ScriptImplied == ScriptIInv => ScriptInv
  BY DEF ScriptIInv, Shutdown, ScriptInv, Script!ScriptInv, Script!ShutdownKills, Script!Runs

(***************************************************************************)
(* A dispatch to a script that prints nothing itself reads the reply to    *)
(* its own event and takes actions from no other, whatever timed out,      *)
(* failed or was cancelled before it, and a shutdown leaves no process,    *)
(* for any number of dispatches and processes and whichever of them print. *)
(***************************************************************************)
THEOREM RepliesBelong == Script!Spec => []ScriptInv
<1>1. ScriptIInv /\ [Script!Next]_(Script!vars) => ScriptIInv'
  BY ScriptStep DEF Script!vars, scriptVars
<1> QED
  BY <1>1, ScriptInit, ScriptImplied, PTL DEF Script!Spec

-----------------------------------------------------------------------------
\* An id is in the queue once.
NoRepetition == \A i, j \in 1..Len(order) : order[i] = order[j] => i = j

\* Who can answer a request: its entry, one tool call or the channel, and
\* never two of them, dead or alive.
OneSender ==
    /\ \A r \in Entries : channel[r] \in {"empty", "closed"}
                          /\ \A a \in Agents : r \notin sending[a]
    /\ \A a \in Agents : \A r \in sending[a] :
          /\ agent[a] = "sending"
          /\ channel[r] \in {"empty", "closed"}
          /\ \A b \in Agents : r \in sending[b] => b = a
          /\ \A q \in sending[a] : q = r

\* Where a caller stands, as its channel shows.
CallerInStep ==
    \A r \in Requests :
       /\ caller[r] = "new" => /\ r \notin Entries /\ channel[r] = "empty"
                               /\ \A a \in Agents : r \notin sending[a]
       /\ caller[r] \in {"inserted", "waiting"} =>
             /\ channel[r] # "closed"
             /\ r \in Entries \/ channel[r] = "full" \/ \E a \in Agents : r \in sending[a]
       /\ caller[r] = "answered" => channel[r] = "full"
       /\ caller[r] \in {"expiring", "timed_out", "cancelled"} => channel[r] = "closed"

\* An answer returned Ok exactly if it filled the channel.
Confirmed ==
    \A r \in Requests : /\ channel[r] = "full" => r \in confirmed
                        /\ r \in confirmed => channel[r] \in {"full", "closed"}

QueueIInv == /\ TypeOK /\ NoLostWakeup
             /\ NoRepetition /\ OneSender /\ CallerInStep /\ Confirmed

(***************************************************************************)
(* What retain leaves.                                                     *)
(***************************************************************************)
LEMMA WithoutLeaves ==
    ASSUME NEW q \in Seq(Requests), NEW i \in 1..Len(q)
    PROVE  /\ Without(q, i) \in Seq(Requests)
           /\ Len(Without(q, i)) = Len(q) - 1
           /\ \A j \in 1..(Len(q) - 1) : Without(q, i)[j] = IF j < i THEN q[j] ELSE q[j + 1]
<1>1. Len(q) \in Nat /\ Len(q) - 1 \in Nat
  OBVIOUS
<1>2. \A j \in 1..(Len(q) - 1) : (IF j < i THEN q[j] ELSE q[j + 1]) \in Requests
  BY <1>1
<1>3. Without(q, i) \in [1..(Len(q) - 1) -> Requests]
  BY <1>1, <1>2 DEF Without
<1>4. Without(q, i) \in Seq(Requests) /\ Len(Without(q, i)) = Len(q) - 1
  BY <1>1, <1>3
<1> QED
  BY <1>4 DEF Without

(***************************************************************************)
(* The removal of an id takes it, and nothing else, out of the queue.      *)
(***************************************************************************)
LEMMA RemoveTakes ==
    ASSUME QueueIInv, NEW r \in Requests, Remove(r)
    PROVE  /\ order' \in Seq(Requests) /\ NoRepetition'
           /\ Entries' = Entries \ {r}
           /\ claimed' = claimed \ {r} /\ claimed' \subseteq Entries'
<1>1. claimed' = claimed \ {r} /\ claimed \subseteq Entries /\ order \in Seq(Requests)
  BY DEF Remove, QueueIInv, TypeOK
<1>2. CASE r \notin Entries /\ UNCHANGED order
  BY <1>1, <1>2 DEF Entries, QueueIInv, NoRepetition
<1>3. ASSUME NEW i \in 1..Len(order), order[i] = r, order' = Without(order, i)
      PROVE  order' \in Seq(Requests) /\ NoRepetition' /\ Entries' = Entries \ {r}
  <2>1. /\ order' \in Seq(Requests) /\ Len(order') = Len(order) - 1 /\ Len(order) \in Nat
        /\ \A j \in 1..Len(order') : order'[j] = IF j < i THEN order[j] ELSE order[j + 1]
    <3>1. /\ Without(order, i) \in Seq(Requests) /\ Len(Without(order, i)) = Len(order) - 1
          /\ \A j \in 1..(Len(order) - 1) :
                Without(order, i)[j] = IF j < i THEN order[j] ELSE order[j + 1]
      BY <1>1, WithoutLeaves
    <3> QED
      BY <1>1, <1>3, <3>1
  <2>2. NoRepetition'
    BY <2>1 DEF QueueIInv, NoRepetition
  <2>3. \A j \in 1..Len(order') : order'[j] \in Entries /\ order'[j] # r
    BY <1>3, <2>1 DEF QueueIInv, NoRepetition, Entries
  <2>4. ASSUME NEW j \in 1..Len(order), order[j] # r
        PROVE  \E k \in 1..Len(order') : order'[k] = order[j]
    <3>1. CASE j < i
      BY <2>1, <3>1
    <3>2. CASE j > i
      <4>1. j - 1 \in 1..Len(order') /\ ~(j - 1 < i) /\ (j - 1) + 1 = j
        BY <2>1, <3>2
      <4> QED
        BY <2>1, <4>1
    <3> QED
      BY <1>3, <2>4, <3>1, <3>2
  <2> QED
    <3>1. Entries' \subseteq Entries \ {r}
      BY <2>3 DEF Entries
    <3>2. Entries \ {r} \subseteq Entries'
      BY <2>4 DEF Entries
    <3> QED
      BY <2>1, <2>2, <3>1, <3>2
<1> QED
  BY <1>1, <1>2, <1>3 DEF Remove

(***************************************************************************)
(* Without a change of order, the queue is what it was.                    *)
(***************************************************************************)
LEMMA SameOrder ==
    ASSUME QueueIInv, UNCHANGED order
    PROVE  Entries' = Entries /\ NoRepetition' /\ order' \in Seq(Requests)
BY DEF QueueIInv, TypeOK, NoRepetition, Entries

(***************************************************************************)
(* The server that asks: no step of it takes a sender from anybody, and    *)
(* notify_waiters leaves no sleeper behind.                                *)
(***************************************************************************)
LEMMA CallerKeeps ==
    ASSUME QueueIInv, NEW r \in Requests, submit(r) \/ server_step(r) \/ cancel(r)
    PROVE  QueueIInv'
<1> USE DEF QueueIInv, TypeOK, OneSender, CallerInStep, Confirmed, CallerGoes, Done
<1>1. CASE submit(r)
  <2>1. /\ order' \in Seq(Requests) /\ Len(order') = Len(order) + 1
        /\ \A j \in 1..Len(order') : order'[j] = IF j <= Len(order) THEN order[j] ELSE r
    BY <1>1 DEF submit
  <2>2. r \notin Entries
    BY <1>1 DEF submit
  <2>3. NoRepetition'
    <3> SUFFICES ASSUME NEW i \in 1..Len(order'), NEW j \in 1..Len(order'), order'[i] = order'[j]
                 PROVE  i = j
      BY DEF NoRepetition
    <3>1. Len(order) \in Nat /\ \A k \in 1..Len(order) : order[k] # r
      BY <2>2 DEF Entries
    <3>2. CASE i <= Len(order) /\ j <= Len(order)
      BY <2>1, <3>1, <3>2 DEF NoRepetition
    <3> QED
      BY <2>1, <3>1, <3>2
  <2>4. Entries' = Entries \cup {r}
    <3>1. Entries' \subseteq Entries \cup {r}
      BY <2>1 DEF Entries
    <3>2. Entries \cup {r} \subseteq Entries'
      BY <2>1 DEF Entries
    <3> QED
      BY <3>1, <3>2
  <2>5. caller[r] = "new" /\ caller' = [caller EXCEPT ![r] = "inserted"]
        /\ UNCHANGED <<claimed, channel, agent, notified, sending, confirmed>>
    BY <1>1 DEF submit
  <2>6. TypeOK'
    BY <2>1, <2>4, <2>5
  <2>7. NoLostWakeup'
    BY <2>2, <2>4, <2>5 DEF NoLostWakeup, Unclaimed
  <2>8. OneSender'
    BY <2>4, <2>5
  <2>9. CallerInStep' /\ Confirmed'
    BY <2>4, <2>5
  <2> QED
    BY <2>3, <2>6, <2>7, <2>8, <2>9
<1>2. CASE expire(r)
  <2>1. /\ order' \in Seq(Requests) /\ NoRepetition' /\ Entries' = Entries \ {r}
        /\ claimed' = claimed \ {r} /\ claimed' \subseteq Entries'
    BY <1>2, RemoveTakes DEF expire
  <2>2. caller[r] = "expiring" /\ caller' = [caller EXCEPT ![r] = "timed_out"]
        /\ UNCHANGED <<channel, agent, notified, sending, confirmed>>
    BY <1>2 DEF expire
  <2>3. TypeOK'
    BY <2>1, <2>2
  <2>4. NoLostWakeup'
    BY <2>1, <2>2 DEF NoLostWakeup, Unclaimed
  <2>5. OneSender' /\ CallerInStep' /\ Confirmed'
    BY <2>1, <2>2
  <2> QED
    BY <2>1, <2>3, <2>4, <2>5
<1>3. CASE notify_waiters(r)
  <2>1. Entries' = Entries /\ NoRepetition' /\ order' \in Seq(Requests)
    BY <1>3, SameOrder DEF notify_waiters
  <2>2. TypeOK'
    BY <1>3, <2>1 DEF notify_waiters, Notifiable
  <2>3. NoLostWakeup'
    BY <1>3, <2>1 DEF notify_waiters, Notifiable, NoLostWakeup, Unclaimed
  <2>4. OneSender' /\ CallerInStep' /\ Confirmed'
    BY <1>3, <2>1 DEF notify_waiters
  <2> QED
    BY <2>1, <2>2, <2>3, <2>4
<1>4. CASE receive(r) \/ time_out(r)
  <2>1. Entries' = Entries /\ NoRepetition' /\ order' \in Seq(Requests)
    BY <1>4, SameOrder DEF receive, time_out
  <2>2. TypeOK'
    BY <1>4, <2>1 DEF receive, time_out
  <2>3. NoLostWakeup'
    <3>1. caller[r] = "waiting" /\ \A q \in Requests \ {r} : caller'[q] = caller[q]
      BY <1>4 DEF receive, time_out
    <3>2. UNCHANGED <<claimed, agent, notified>>
      BY <1>4 DEF receive, time_out
    <3>3. Entries \subseteq Requests
      BY DEF Entries
    <3> QED
      BY <2>1, <3>1, <3>2, <3>3 DEF NoLostWakeup, Unclaimed
  <2>4. OneSender' /\ CallerInStep' /\ Confirmed'
    BY <1>4, <2>1 DEF receive, time_out
  <2> QED
    BY <2>1, <2>2, <2>3, <2>4
<1>5. CASE drop_receiver(r) \/ cancel(r)
  <2>1. Entries' = Entries /\ NoRepetition' /\ order' \in Seq(Requests)
    BY <1>5, SameOrder DEF drop_receiver, cancel
  <2>2. TypeOK'
    BY <1>5, <2>1 DEF drop_receiver, cancel
  <2>3. NoLostWakeup'
    <3>1. caller[r] # "inserted" /\ \A q \in Requests \ {r} : caller'[q] = caller[q]
      BY <1>5 DEF drop_receiver, cancel
    <3>2. UNCHANGED <<claimed, agent, notified>>
      BY <1>5 DEF drop_receiver, cancel
    <3>3. Entries \subseteq Requests
      BY DEF Entries
    <3> QED
      BY <2>1, <3>1, <3>2, <3>3 DEF NoLostWakeup, Unclaimed
  <2>4. OneSender' /\ CallerInStep' /\ Confirmed'
    <3>1. PICK place \in {"expiring", "cancelled"} : caller' = [caller EXCEPT ![r] = place]
      BY <1>5 DEF drop_receiver, cancel
    <3>2. channel' = [channel EXCEPT ![r] = "closed"] /\ UNCHANGED <<agent, sending, confirmed>>
      BY <1>5 DEF drop_receiver, cancel
    <3>3. OneSender'
      BY <2>1, <3>2
    <3>4. CallerInStep'
      BY <2>1, <3>1, <3>2
    <3>5. Confirmed'
      BY <3>2
    <3> QED
      BY <3>3, <3>4, <3>5
  <2> QED
    BY <2>1, <2>2, <2>3, <2>4
<1> QED
  BY <1>1, <1>2, <1>3, <1>4, <1>5, Zenon DEF server_step

(***************************************************************************)
(* The agent's tool calls: one falls asleep only beside a queue without an *)
(* unclaimed request, after it has registered for the notification.        *)
(***************************************************************************)
LEMMA AgentKeeps ==
    ASSUME QueueIInv, NEW a \in Agents,
           \/ wait_and_claim(a) \/ agent_step(a) \/ give_up(a)
           \/ \E r \in Requests : answer(a, r)
    PROVE  QueueIInv'
<1> USE DEF QueueIInv, TypeOK, OneSender, CallerInStep, Confirmed, AgentGoes, Done
<1>1. CASE claim_next(a)
  <2>1. Entries' = Entries /\ NoRepetition' /\ order' \in Seq(Requests)
    BY <1>1, SameOrder DEF claim_next
  <2>2. TypeOK'
    BY <1>1, <2>1 DEF claim_next, Unclaimed
  <2>3. NoLostWakeup'
    BY <1>1, <2>1 DEF claim_next, NoLostWakeup, Unclaimed
  <2>4. OneSender' /\ CallerInStep' /\ Confirmed'
    BY <1>1, <2>1 DEF claim_next
  <2> QED
    BY <2>1, <2>2, <2>3, <2>4
<1>2. CASE wait_and_claim(a) \/ find_nothing(a) \/ register(a) \/ fall_asleep(a) \/ give_up(a)
  <2>1. Entries' = Entries /\ NoRepetition' /\ order' \in Seq(Requests)
    BY <1>2, SameOrder DEF wait_and_claim, find_nothing, register, fall_asleep, give_up
  <2>2. TypeOK'
    BY <1>2, <2>1 DEF wait_and_claim, find_nothing, register, fall_asleep, give_up
  <2>3. NoLostWakeup'
    BY <1>2, <2>1
    DEF wait_and_claim, find_nothing, register, fall_asleep, give_up, FindsNothingAgain,
        NoLostWakeup, Unclaimed
  <2>4. OneSender' /\ CallerInStep' /\ Confirmed'
    BY <1>2, <2>1 DEF wait_and_claim, find_nothing, register, fall_asleep, give_up
  <2> QED
    BY <2>1, <2>2, <2>3, <2>4
<1>3. ASSUME NEW r \in Requests, answer(a, r) PROVE QueueIInv'
  <2>1. /\ order' \in Seq(Requests) /\ NoRepetition' /\ Entries' = Entries \ {r}
        /\ claimed' = claimed \ {r} /\ claimed' \subseteq Entries'
    BY <1>3, RemoveTakes DEF answer
  <2>2. /\ agent[a] = "idle" /\ r \in Entries
        /\ sending' = [sending EXCEPT ![a] = {r}]
        /\ agent' = [agent EXCEPT ![a] = "sending"]
        /\ UNCHANGED <<caller, channel, notified, confirmed>>
    BY <1>3 DEF answer
  <2>3. TypeOK'
    BY <2>1, <2>2
  <2>4. NoLostWakeup'
    BY <2>1, <2>2 DEF NoLostWakeup, Unclaimed
  <2>5. OneSender'
    BY <2>1, <2>2
  <2>6. CallerInStep' /\ Confirmed'
    BY <2>1, <2>2
  <2> QED
    BY <2>1, <2>3, <2>4, <2>5, <2>6
<1>4. CASE send(a)
  <2>1. PICK r \in sending[a] :
           IF channel[r] = "empty"
           THEN /\ channel' = [channel EXCEPT ![r] = "full"]
                /\ confirmed' = confirmed \cup {r}
           ELSE UNCHANGED <<channel, confirmed>>
    BY <1>4 DEF send
  <2>2. /\ sending' = [sending EXCEPT ![a] = {}]
        /\ agent[a] = "sending" /\ agent' = [agent EXCEPT ![a] = "idle"]
        /\ UNCHANGED <<order, claimed, caller, notified>>
    BY <1>4 DEF send
  <2>3. /\ r \in Requests /\ r \notin Entries /\ channel[r] \in {"empty", "closed"}
        /\ (\A b \in Agents : r \in sending[b] => b = a) /\ sending[a] = {r}
    BY <2>1
  <2>4. Entries' = Entries /\ NoRepetition' /\ order' \in Seq(Requests)
    BY <2>2, SameOrder
  <2>5. NoLostWakeup'
    BY <2>2, <2>4 DEF NoLostWakeup, Unclaimed
  <2>6. CASE channel[r] = "empty"
    <3>1. caller[r] # "new"
      BY <2>1, <2>3
    <3>2. channel' = [channel EXCEPT ![r] = "full"] /\ confirmed' = confirmed \cup {r}
      BY <2>1, <2>6
    <3>3. TypeOK'
      BY <2>2, <2>3, <2>4, <3>2
    <3>4. OneSender'
      BY <2>2, <2>3, <2>4, <3>2
    <3>5. CallerInStep'
      BY <2>2, <2>3, <2>4, <2>6, <3>1, <3>2
    <3>6. Confirmed'
      BY <2>3, <3>2
    <3> QED
      BY <2>4, <2>5, <3>3, <3>4, <3>5, <3>6
  <2>7. CASE channel[r] = "closed"
    <3>1. UNCHANGED <<channel, confirmed>>
      BY <2>1, <2>7
    <3>2. TypeOK'
      BY <2>2, <2>3, <2>4, <3>1
    <3>3. OneSender' /\ CallerInStep' /\ Confirmed'
      BY <2>2, <2>3, <2>4, <2>7, <3>1
    <3> QED
      BY <2>4, <2>5, <3>2, <3>3
  <2> QED
    BY <2>3, <2>6, <2>7
<1> QED
  BY <1>1, <1>2, <1>3, <1>4, Zenon DEF agent_step

(***************************************************************************)
(* Every step of the queue.                                                *)
(***************************************************************************)
LEMMA QueueStep ==
    ASSUME QueueIInv, Next \/ UNCHANGED vars
    PROVE  QueueIInv'
<1>1. CASE UNCHANGED vars
  <2>1. Entries' = Entries /\ NoRepetition' /\ order' \in Seq(Requests)
    BY <1>1, SameOrder DEF vars
  <2> QED
    BY <1>1, <2>1
    DEF vars, QueueIInv, TypeOK, NoLostWakeup, Unclaimed, OneSender, CallerInStep, Confirmed
<1>2. CASE Next
  BY <1>2, CallerKeeps, AgentKeeps, Zenon DEF Next
<1> QED
  BY <1>1, <1>2

(***************************************************************************)
(* The queue is empty at the start.                                        *)
(***************************************************************************)
LEMMA QueueInit == Init => QueueIInv
<1> SUFFICES ASSUME Init PROVE QueueIInv
  OBVIOUS
<1>1. order \in Seq(Requests) /\ Len(order) = 0 /\ Entries = {}
  BY DEF Init, Entries
<1> QED
  BY <1>1
  DEF Init, QueueIInv, TypeOK, NoLostWakeup, Unclaimed, NoRepetition, OneSender, CallerInStep,
      Confirmed

(***************************************************************************)
(* One sender at most, and one at least while a caller waits, is one.      *)
(***************************************************************************)
LEMMA QueueImplied == QueueIInv => QueueInv
<1> SUFFICES ASSUME QueueIInv, NEW r \in Requests, caller[r] \in {"inserted", "waiting"}
             PROVE  Sender(r) = 1
  BY DEF QueueIInv, QueueInv, OneAnswerPerRequest
<1> DEFINE H == {a \in Agents : r \in sending[a]}
           n == Cardinality(H)
<1>0. Sender(r) = (IF r \in Entries THEN 1 ELSE 0) + n
                     + (IF channel[r] = "full" THEN 1 ELSE 0)
  BY DEF Sender
<1>1. (H = {} => n = 0) /\ \A a : H = {a} => n = 1
  BY FS_EmptySet, FS_Singleton
<1> HIDE DEF n
<1>2. CASE r \in Entries
  <2>1. H = {} /\ channel[r] # "full"
    BY <1>2 DEF QueueIInv, OneSender
  <2> QED
    BY <1>0, <1>1, <1>2, <2>1
<1>3. CASE \E a \in Agents : r \in sending[a]
  <2>1. PICK a \in Agents : r \in sending[a]
    BY <1>3
  <2>2. H = {a} /\ channel[r] # "full" /\ r \notin Entries
    BY <2>1 DEF QueueIInv, OneSender
  <2> QED
    BY <1>0, <1>1, <2>2
<1>4. CASE channel[r] = "full"
  <2>1. H = {} /\ r \notin Entries
    BY <1>4 DEF QueueIInv, OneSender
  <2> QED
    BY <1>0, <1>1, <1>4, <2>1
<1> QED
  BY <1>2, <1>3, <1>4 DEF QueueIInv, CallerInStep

(***************************************************************************)
(* No long-poll of the agent sleeps through a request, and a request that  *)
(* waits can be answered by exactly one hand, for any requests and any     *)
(* number of tool calls at the same time.                                  *)
(***************************************************************************)
THEOREM NoRequestIsMissed == Spec => []QueueInv
<1>1. QueueIInv /\ [Next]_vars => QueueIInv'
  BY QueueStep
<1> QED
  BY <1>1, QueueInit, QueueImplied, PTL DEF Spec

(***************************************************************************)
(* A caller that goes from one place to another moves its asker.           *)
(***************************************************************************)
LEMMA CallerMoves ==
    ASSUME TypeOK, NEW r \in Requests, NEW place, CallerGoes(r, place)
    PROVE  [q \in Requests |-> Asker(caller[q])]'
             = [[q \in Requests |-> Asker(caller[q])] EXCEPT ![r] = Asker(place)]
BY DEF TypeOK, CallerGoes

(***************************************************************************)
(* Unless the two places are one to the asker.                             *)
(***************************************************************************)
LEMMA CallerStays ==
    ASSUME TypeOK, NEW r \in Requests, NEW place, CallerGoes(r, place),
           Asker(place) = Asker(caller[r])
    PROVE  UNCHANGED [q \in Requests |-> Asker(caller[q])]
BY DEF TypeOK, CallerGoes

(***************************************************************************)
(* Every step of the queue is one of the rendezvous, or none.              *)
(***************************************************************************)
LEMMA QueueRefines ==
    ASSUME QueueIInv, Next \/ UNCHANGED vars
    PROVE  R!Next \/ UNCHANGED R!vars
<1> USE DEF R!vars, QueueIInv
<1>1. ASSUME NEW r \in Requests, submit(r) PROVE R!Ask(r)
  BY <1>1, CallerMoves DEF submit, R!Ask, R!Goes, Asker
<1>2. ASSUME NEW r \in Requests, notify_waiters(r) \/ expire(r) PROVE UNCHANGED R!vars
  <2>1. CASE notify_waiters(r)
    BY <2>1, CallerStays DEF notify_waiters, Asker
  <2>2. CASE expire(r)
    BY <2>2, CallerStays DEF expire, Asker
  <2> QED
    BY <1>2, <2>1, <2>2
<1>3. ASSUME NEW r \in Requests, receive(r) PROVE R!Receive(r)
  BY <1>3, CallerMoves DEF receive, R!Receive, R!Goes, Asker, Confirmed
<1>4. ASSUME NEW r \in Requests, time_out(r) PROVE R!Elapse(r)
  BY <1>4, CallerMoves
  DEF time_out, MayTimeOut, TimerChecksChannel, R!Elapse, R!Goes, Asker, Confirmed
<1>5. ASSUME NEW r \in Requests, drop_receiver(r) PROVE R!GiveUp(r)
  BY <1>5, CallerMoves DEF drop_receiver, R!GiveUp, R!Goes, Asker
<1>6. ASSUME NEW r \in Requests, cancel(r) PROVE R!Abandon(r)
  BY <1>6, CallerMoves DEF cancel, R!Abandon, R!Goes, Asker
<1>7. ASSUME NEW a \in Agents, send(a)
      PROVE  UNCHANGED R!vars \/ \E r \in Requests : R!Acknowledge(r)
  <2>1. PICK r \in sending[a] :
           IF channel[r] = "empty"
           THEN /\ channel' = [channel EXCEPT ![r] = "full"]
                /\ confirmed' = confirmed \cup {r}
           ELSE UNCHANGED <<channel, confirmed>>
    BY <1>7 DEF send
  <2>2. UNCHANGED caller /\ r \in Requests
    BY <1>7, <2>1 DEF send, TypeOK
  <2>3. CASE channel[r] = "empty"
    <3>1. caller[r] \in {"inserted", "waiting", "elapsed"} /\ r \notin confirmed
      BY <2>1, <2>2, <2>3 DEF CallerInStep, Confirmed, TypeOK, Done
    <3> QED
      BY <2>1, <2>2, <2>3, <3>1 DEF R!Acknowledge, Asker
  <2> QED
    BY <2>1, <2>2, <2>3
<1>8. ASSUME \/ UNCHANGED vars
             \/ \E a \in Agents : \/ wait_and_claim(a) \/ claim_next(a) \/ find_nothing(a)
                                  \/ register(a) \/ fall_asleep(a) \/ give_up(a)
                                  \/ \E r \in Requests : answer(a, r)
      PROVE  UNCHANGED R!vars
  BY <1>8 DEF vars, wait_and_claim, claim_next, find_nothing, register, fall_asleep, give_up, answer
<1> QED
  BY <1>1, <1>2, <1>3, <1>4, <1>5, <1>6, <1>7, <1>8, Zenon
  DEF Next, server_step, agent_step, R!Next

(***************************************************************************)
(* The agent's queue implements the rendezvous: no answer is acknowledged  *)
(* twice or to a server that no longer listens, and one acknowledged       *)
(* before the deadline fired is never followed by the server's timeout,    *)
(* for any requests and any number of tool calls.                          *)
(***************************************************************************)
THEOREM QueueIsARendezvous == Spec => ImplementsRendezvous
<1>1. Init => R!Init
  BY DEF Init, R!Init, Asker
<1>2. QueueIInv /\ [Next]_vars => [R!Next]_(R!vars)
  BY QueueRefines
<1>3. QueueIInv /\ [Next]_vars => QueueIInv'
  BY QueueStep
<1> QED
  BY <1>1, <1>2, <1>3, QueueInit, PTL DEF Spec, ImplementsRendezvous, R!Spec

-----------------------------------------------------------------------------
(***************************************************************************)
(* The three side by side keep their invariants.                           *)
(***************************************************************************)
THEOREM QuestionsSafe == QuestionsSpec => [](QueueInv /\ PendingInv /\ ScriptInv)
<1> DEFINE All == QueueIInv /\ ManualInv /\ ScriptIInv
           v == <<used, vars, manualVars, scriptVars>>
<1>1. QuestionsInit => All
  BY QueueInit, ManualInit, ScriptInit DEF QuestionsInit
<1>2. All /\ [QuestionsNext]_v => All'
  <2> SUFFICES ASSUME All, [QuestionsNext]_v PROVE All'
    OBVIOUS
  <2>1. /\ Next \/ UNCHANGED vars
        /\ Manual!Next \/ UNCHANGED manualVars
        /\ Script!Next \/ UNCHANGED scriptVars
    BY DEF QuestionsNext
  <2> QED
    BY <2>1, QueueStep, ManualStep, ScriptStep
<1>3. All => QueueInv /\ PendingInv /\ ScriptInv
  BY QueueImplied, ManualImplied, ScriptImplied
<1> QED
  BY <1>1, <1>2, <1>3, PTL DEF QuestionsSpec
=============================================================================
