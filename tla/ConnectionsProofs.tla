------------------------- MODULE ConnectionsProofs -------------------------
(***************************************************************************)
(* Proofs about BoundedAccept and Connections: the cap, for any finite set *)
(* of peers and any limit, and the idle watch, for any bound of at least   *)
(* four ticks and any handlers.                                            *)
(***************************************************************************)
EXTENDS Connections, FiniteSetTheorems, TLAPS

Admitted == In("admitted")

(***************************************************************************)
(* The number of open connections is a number, and it follows each way a   *)
(* peer can move: in, out, or neither.                                     *)
(***************************************************************************)
LEMMA AdmittedIsFinite == IsFiniteSet(Admitted) /\ Cardinality(Admitted) \in Nat
<1>1. Admitted \subseteq Peers
  BY DEF Admitted, In
<1>2. IsFiniteSet(Admitted)
  BY <1>1, AcceptAssumption, FS_Subset
<1> QED
  BY <1>2, FS_CardinalityType

(***************************************************************************)
(* A peer that moves between places outside the cap changes no count.      *)
(***************************************************************************)
LEMMA OutsideMove ==
    ASSUME TypeOK, NEW p \in Peers, NEW from, NEW to, Goes(p, from, to),
           from # "admitted", to # "admitted"
    PROVE  Admitted' = Admitted
  BY DEF TypeOK, Goes, Admitted, In

(***************************************************************************)
(* One that is admitted raises it by one.                                  *)
(***************************************************************************)
LEMMA AdmissionCounts ==
    ASSUME TypeOK, NEW p \in Peers, Goes(p, "accepted", "admitted")
    PROVE  Cardinality(Admitted') = Cardinality(Admitted) + 1
<1>1. Admitted' = Admitted \cup {p} /\ p \notin Admitted
  BY DEF TypeOK, Goes, Admitted, In
<1> QED
  BY <1>1, AdmittedIsFinite, FS_AddElement

(***************************************************************************)
(* One whose connection ends lowers it by one.                             *)
(***************************************************************************)
LEMMA EndCounts ==
    ASSUME TypeOK, NEW p \in Peers, Goes(p, "admitted", "ended")
    PROVE  Cardinality(Admitted') = Cardinality(Admitted) - 1
<1>1. Admitted' = Admitted \ {p} /\ p \in Admitted
  BY DEF TypeOK, Goes, Admitted, In
<1> QED
  BY <1>1, AdmittedIsFinite, FS_RemoveElement

(***************************************************************************)
(* Every step of the accept loop and of the peers keeps the slots.         *)
(***************************************************************************)
LEMMA StepAccept == ASSUME AcceptInv, [Next]_vars PROVE AcceptInv'
<1> USE DEF AcceptInv
<1>0. /\ permits \in Nat
      /\ permits + Cardinality(Admitted) = max
  BY DEF TypeOK, SlotsConserved, Admitted
<1>1. ASSUME NEW p \in Peers, connect(p) \/ come_back(p) \/ accept(p) \/ refuse(p)
      PROVE  AcceptInv'
  <2>1. TypeOK' /\ permits' = permits
    BY <1>1 DEF TypeOK, connect, come_back, accept, refuse, Goes
  <2>2. PICK from \in {"away", "refused", "ended", "backlog", "refusing"},
             to \in {"backlog", "away", "accepted", "refused"} : Goes(p, from, to)
    BY <1>1 DEF connect, come_back, accept, refuse
  <2>3. Admitted' = Admitted
    BY <2>2, OutsideMove
  <2> QED
    BY <1>0, <2>1, <2>3 DEF SlotsConserved, Admitted, max
<1>2. ASSUME NEW p \in Peers, try_acquire(p) PROVE AcceptInv'
  <2>1. CASE HasSlot
    <3>1. permits' = permits - 1 /\ Goes(p, "accepted", "admitted") /\ UNCHANGED <<deaf, listening>>
      BY <1>2, <2>1 DEF try_acquire
    <3>2. TypeOK'
      BY <1>0, <2>1, <3>1 DEF TypeOK, Goes, HasSlot
    <3>3. Cardinality(Admitted') = Cardinality(Admitted) + 1
      BY <3>1, AdmissionCounts
    <3> QED
      BY <1>0, <3>1, <3>2, <3>3, AdmittedIsFinite DEF SlotsConserved, Admitted, max
  <2>2. CASE ~HasSlot
    <3>1. /\ permits' = permits /\ Goes(p, "accepted", "refusing")
          /\ deaf' \in {deaf, deaf \cup {p}} /\ listening' = listening
      BY <1>2, <2>2 DEF try_acquire
    <3>2. TypeOK'
      BY <3>1 DEF TypeOK, Goes
    <3>3. Admitted' = Admitted
      BY <3>1, OutsideMove
    <3> QED
      BY <1>0, <3>1, <3>2, <3>3 DEF SlotsConserved, Admitted, max
  <2> QED
    BY <2>1, <2>2
<1>3. ASSUME NEW p \in Peers, end_connection(p) PROVE AcceptInv'
  <2>1. permits' = permits + 1 /\ Goes(p, "admitted", "ended") /\ UNCHANGED <<deaf, listening>>
    BY <1>3 DEF end_connection, Released, Returned
  <2>2. TypeOK'
    BY <2>1 DEF TypeOK, Goes
  <2>3. Cardinality(Admitted') = Cardinality(Admitted) - 1
    BY <2>1, EndCounts
  <2> QED
    BY <1>0, <2>1, <2>2, <2>3, AdmittedIsFinite DEF SlotsConserved, Admitted, max
<1>4. CASE listener_fails
  <2>1. TypeOK' /\ permits' = permits /\ Admitted' = Admitted
    BY <1>4 DEF listener_fails, TypeOK, Admitted, In
  <2> QED
    BY <1>0, <2>1 DEF SlotsConserved, Admitted, max
<1>5. CASE UNCHANGED vars
  BY <1>5 DEF vars, TypeOK, SlotsConserved, In, max
<1> QED
  BY <1>1, <1>2, <1>3, <1>4, <1>5 DEF Next

(***************************************************************************)
(* No slot is lost or invented: for any cap, a requested zero included,    *)
(* and any number of peers, the free permits and the open connections make *)
(* up the cap.                                                             *)
(***************************************************************************)
THEOREM CapIsExact == Spec => []AcceptInv
<1>1. Init => AcceptInv
  <2> SUFFICES ASSUME Init PROVE AcceptInv
    OBVIOUS
  <2>1. max \in Nat
    BY AcceptAssumption DEF max
  <2>2. In("admitted") = {}
    BY DEF Init, In
  <2> QED
    BY <2>1, <2>2, FS_EmptySet DEF Init, AcceptInv, TypeOK, SlotsConserved
<1>2. AcceptInv /\ [Next]_vars => AcceptInv'
  BY StepAccept
<1> QED
  BY <1>1, <1>2, PTL DEF Spec

-----------------------------------------------------------------------------
(***************************************************************************)
(* The inductive invariant of the watch.  in_flight counts the handlers at *)
(* work.  A handler that has begun has just touched the clock, and no tick *)
(* passes before it raises in_flight: work that begins under the look of   *)
(* the watchdog is seen in the age.  Without work, a live peer is probed   *)
(* when its age reaches half of the bound, and `probed` left over from an  *)
(* earlier stretch is cleared before it could suppress that.               *)
(***************************************************************************)
Half == Idle \div 2
Working == {h \in Handlers : work[h] = "working"}
Counted == IsFiniteSet(Working) /\ inflight = Cardinality(Working)
BegunIsFresh == (\E h \in Handlers : work[h] = "begun") => age = 0
LookingSees == watch = "looking" => ~looked /\ (inflight > 0 => age = 0)
ProbedIsStale == (probed /\ ~ping /\ link = "live") => age = 0 \/ (age = 1 /\ ~looked)
Quiet == inflight = 0 /\ link = "live" /\ \A h \in Handlers : work[h] # "ending"
QuietIsProbed == Quiet => age <= Half /\ (looked /\ age = Half => ping)

WInv ==
    /\ W!TypeOK /\ Counted /\ BegunIsFresh /\ LookingSees /\ ProbedIsStale /\ QuietIsProbed

\* The idle bound and its half are numbers, the half at least two and below it.
LEMMA HalfOfIdle == Idle \in Nat /\ Half \in Nat /\ Half >= 2 /\ Half < Idle
  BY WatchAssumption DEF W!IdleIsFourTicks, Half

(***************************************************************************)
(* What each access of a handler does: begin_work touches and then raises, *)
(* end_work lowers and then touches.                                       *)
(***************************************************************************)
LEMMA BeginSteps ==
    ASSUME NEW h \in Handlers, W!begin_work(h)
    PROVE  /\ UNCHANGED <<watch, probed, looked, link, ping>>
           /\ \/ W!WorkGoes(h, "none", "begun") /\ age' = 0 /\ inflight' = inflight
              \/ W!WorkGoes(h, "begun", "working") /\ age' = age /\ inflight' = inflight + 1
  BY DEF W!begin_work, W!Do, W!BeginWork, W!TouchThenRaise

\* The two steps with which an exchange ends.
LEMMA EndSteps ==
    ASSUME NEW h \in Handlers, W!end_work(h)
    PROVE  /\ UNCHANGED <<watch, probed, looked, link, ping>>
           /\ \/ W!WorkGoes(h, "working", "ending") /\ age' = age /\ inflight' = inflight - 1
              \/ W!WorkGoes(h, "ending", "done") /\ age' = 0 /\ inflight' = inflight
  BY DEF W!end_work, W!Do, W!EndWork

(***************************************************************************)
(* in_flight follows the handlers at work.                                 *)
(***************************************************************************)
LEMMA CountedStep ==
    ASSUME W!TypeOK, Counted, NEW h \in Handlers, W!begin_work(h) \/ W!end_work(h)
    PROVE  Counted' /\ inflight' \in Nat
<1> USE DEF Counted, W!WorkGoes, W!TypeOK
<1> SUFFICES Counted'
  BY FS_CardinalityType
<1>1. CASE W!WorkGoes(h, "begun", "working") /\ inflight' = inflight + 1
  <2>1. Working' = Working \cup {h} /\ h \notin Working
    BY <1>1 DEF Working
  <2> QED BY <1>1, <2>1, FS_AddElement
<1>2. CASE W!WorkGoes(h, "working", "ending") /\ inflight' = inflight - 1
  <2>1. Working' = Working \ {h} /\ h \in Working
    BY <1>2 DEF Working
  <2> QED BY <1>2, <2>1, FS_RemoveElement
<1>3. CASE (W!WorkGoes(h, "none", "begun") \/ W!WorkGoes(h, "ending", "done")) /\ inflight' = inflight
  <2>1. Working' = Working
    BY <1>3 DEF Working
  <2> QED BY <1>3, <2>1
<1> QED BY <1>1, <1>2, <1>3, BeginSteps, EndSteps

\* Every step of the idle watch keeps its inductive invariant.
LEMMA WatchStep == ASSUME WInv, W!Next \/ UNCHANGED watchVars PROVE WInv'
<1>0. age \in Nat /\ inflight \in Nat
  BY DEF WInv, W!TypeOK
<1> DEFINE Parts == /\ W!TypeOK /\ Counted /\ BegunIsFresh /\ LookingSees /\ ProbedIsStale /\ QuietIsProbed
<1> SUFFICES Parts'
  BY DEF WInv
<1> USE <1>0, HalfOfIdle
<1> USE DEF WInv, W!TypeOK, BegunIsFresh, LookingSees, ProbedIsStale, QuietIsProbed, Quiet
<1>1. ASSUME NEW h \in Handlers, W!begin_work(h) PROVE Parts'
  <2>1. Counted' /\ inflight' \in Nat
    BY <1>1, CountedStep
  <2>2. CASE W!WorkGoes(h, "none", "begun") /\ age' = 0 /\ inflight' = inflight
    <3>1. age' \in 0..Idle
      BY <2>2
    <3>2. W!TypeOK'
      BY <1>1, <2>1, <2>2, <3>1, BeginSteps DEF W!WorkGoes
    <3>3. BegunIsFresh' /\ LookingSees'
      BY <1>1, <2>2, BeginSteps
    <3>4. ProbedIsStale' /\ QuietIsProbed'
      BY <2>2
    <3> QED BY <2>1, <3>2, <3>3, <3>4
  <2>3. CASE W!WorkGoes(h, "begun", "working") /\ age' = age /\ inflight' = inflight + 1
    BY <1>1, <2>1, <2>3, BeginSteps DEF W!WorkGoes
  <2> QED BY <1>1, <2>2, <2>3, BeginSteps
<1>2. ASSUME NEW h \in Handlers, W!end_work(h) PROVE Parts'
  <2>1. Counted' /\ inflight' \in Nat
    BY <1>2, CountedStep
  <2>2. CASE W!WorkGoes(h, "working", "ending") /\ age' = age /\ inflight' = inflight - 1
    <3>1. W!TypeOK' /\ BegunIsFresh' /\ QuietIsProbed'
      BY <1>2, <2>1, <2>2, EndSteps DEF W!WorkGoes
    <3>2. ProbedIsStale'
      BY <1>2, <2>2, EndSteps
    <3>3. inflight' > 0 => inflight > 0
      BY <2>2
    <3>4. LookingSees'
      BY <1>2, <2>2, <3>3, EndSteps
    <3> QED BY <2>1, <3>1, <3>2, <3>4
  <2>3. CASE W!WorkGoes(h, "ending", "done") /\ age' = 0 /\ inflight' = inflight
    <3>1. age' \in 0..Idle
      BY <2>3
    <3>2. W!TypeOK'
      BY <1>2, <2>1, <2>3, <3>1, EndSteps DEF W!WorkGoes
    <3>3. BegunIsFresh' /\ LookingSees'
      BY <1>2, <2>3, EndSteps
    <3>4. ProbedIsStale' /\ QuietIsProbed'
      BY <2>3
    <3> QED BY <2>1, <3>2, <3>3, <3>4
  <2> QED BY <1>2, <2>2, <2>3, EndSteps
<1>3. ASSUME UNCHANGED <<work, inflight>> PROVE Counted'
  BY <1>3 DEF Counted, Working
<1>4. CASE W!touch
  <2>1. age' = 0 /\ age' \in 0..Idle
    BY <1>4 DEF W!touch
  <2>2. W!TypeOK' /\ Counted'
    BY <1>3, <1>4, <2>1 DEF W!touch
  <2>3. BegunIsFresh' /\ LookingSees'
    BY <1>4, <2>1 DEF W!touch
  <2>4. ProbedIsStale' /\ QuietIsProbed'
    BY <2>1
  <2> QED BY <2>2, <2>3, <2>4
<1>5. CASE W!vanish
  BY <1>3, <1>5 DEF W!vanish
<1>6. CASE W!look
  <2>1. W!TypeOK' /\ Counted' /\ BegunIsFresh' /\ LookingSees'
    BY <1>3, <1>6 DEF W!look
  <2>2. ProbedIsStale' /\ QuietIsProbed'
    BY <1>6 DEF W!look
  <2> QED BY <2>1, <2>2
<1>7. CASE W!judge
  <2>0. UNCHANGED <<age, inflight, work, link>> /\ ~looked /\ looked' /\ watch = "looking"
    BY <1>7 DEF W!judge
  <2>1. W!TypeOK' /\ Counted' /\ BegunIsFresh' /\ LookingSees'
    BY <1>3, <1>7 DEF W!judge, W!HeardFrom, W!NewStretch
  <2>3. CASE age >= Idle
    BY <2>0, <2>1, <2>3, <1>7 DEF W!judge, Half
  <2>4. CASE age < Idle /\ age >= Half
    <3>1. link = "live" => ping \/ ~probed
      BY <2>4
    <3>2. link = "live" => ping'
      <4>1. ping' = (ping \/ ~probed)
        BY <1>7, <2>4 DEF W!judge, Half
      <4> QED BY <3>1, <4>1, Zenon
    <3>3. ProbedIsStale' /\ QuietIsProbed'
      BY <2>0, <3>2
    <3> QED BY <2>1, <3>3
  <2>5. CASE age < Half
    <3>1. ~probed' /\ ping' = ping
      BY <1>7, <2>5 DEF W!judge, Half, W!HeardFrom, W!NewStretch
    <3>2. ProbedIsStale' /\ QuietIsProbed'
      BY <2>0, <2>5, <3>1
    <3> QED BY <2>1, <3>2
  <2> QED BY <2>3, <2>4, <2>5
<1>8. CASE W!tick
  <2>1. age' = (IF age + 1 < Idle THEN age + 1 ELSE Idle) /\ age' \in 0..Idle
    BY <1>8 DEF W!tick, W!AtMost
  <2>2. W!TypeOK' /\ Counted'
    BY <1>3, <1>8, <2>1 DEF W!tick
  <2>3. BegunIsFresh' /\ LookingSees'
    BY <1>8 DEF W!tick
  <2>4. ProbedIsStale' /\ QuietIsProbed'
    BY <1>8, <2>1 DEF W!tick
  <2> QED BY <2>2, <2>3, <2>4
<1>9. CASE UNCHANGED watchVars
  BY <1>3, <1>9 DEF watchVars
<1> QED BY <1>1, <1>2, <1>4, <1>5, <1>6, <1>7, <1>8, <1>9 DEF W!Next, W!watchdog

(***************************************************************************)
(* A connection begins with a fresh activity, and leaves one behind.       *)
(***************************************************************************)
LEMMA WatchInit == W!Init => WInv
<1> SUFFICES ASSUME W!Init PROVE WInv
  OBVIOUS
<1>1. Working = {} /\ 0 \in 0..Idle
  BY HalfOfIdle DEF W!Init, Working
<1>2. Counted /\ W!TypeOK
  BY <1>1, FS_EmptySet DEF W!Init, Counted, W!TypeOK
<1>3. BegunIsFresh /\ LookingSees /\ ProbedIsStale /\ QuietIsProbed
  BY HalfOfIdle DEF W!Init, BegunIsFresh, LookingSees, ProbedIsStale, QuietIsProbed
<1> QED BY <1>2, <1>3 DEF WInv

\* The activity is dropped with the last task of its connection.
LEMMA WatchDropped == ASSUME W!dropped PROVE WInv'
<1>1. Working' = {} /\ 0 \in 0..Idle
  BY HalfOfIdle DEF W!dropped, Working
<1>2. Counted' /\ W!TypeOK'
  BY <1>1, FS_EmptySet DEF W!dropped, Counted, W!TypeOK
<1>3. BegunIsFresh' /\ LookingSees' /\ ProbedIsStale' /\ QuietIsProbed'
  BY HalfOfIdle DEF W!dropped, BegunIsFresh, LookingSees, ProbedIsStale, QuietIsProbed
<1> QED BY <1>2, <1>3 DEF WInv

(***************************************************************************)
(* When the watchdog fires, the clock shows the whole bound: then nothing  *)
(* is in flight, nobody has just begun, and a live peer would have been    *)
(* heard from but for a handler inside end_work.                           *)
(***************************************************************************)
LEMMA FireStep ==
    ASSUME WInv, W!Next \/ W!dropped \/ UNCHANGED watchVars,
           watch # "fired", watch' = "fired"
    PROVE  /\ \A h \in Handlers : work[h] \notin {"begun", "working"}
           /\ link = "live" => \E h \in Handlers : work[h] = "ending"
<1> USE HalfOfIdle DEF WInv
<1>1. W!judge
  BY DEF W!Next, W!watchdog, W!dropped, watchVars, W!begin_work, W!end_work, W!touch, W!vanish,
         W!look, W!tick
<1>2. watch = "looking" /\ age >= Idle /\ age \in Nat /\ inflight \in Nat
  BY <1>1 DEF W!judge, W!TypeOK
<1>3. inflight = 0
  BY <1>2 DEF LookingSees
<1>4. Working = {}
  BY <1>3, FS_EmptySet DEF Counted
<1>5. \A h \in Handlers : work[h] \notin {"begun", "working"}
  BY <1>2, <1>4 DEF Working, BegunIsFresh
<1>6. link = "live" => \E h \in Handlers : work[h] = "ending"
  BY <1>2, <1>3 DEF QuietIsProbed, Quiet
<1> QED BY <1>5, <1>6

(***************************************************************************)
(* The cap and the idle watch together: the accept loop is the one of      *)
(* BoundedAccept, and nothing but the watch's own steps and the end of the *)
(* connection moves the watch.                                             *)
(***************************************************************************)
LEMMA ConnectionsSteps ==
    ASSUME [ConnectionsNext]_allVars
    PROVE  [Next]_vars /\ (W!Next \/ W!dropped \/ UNCHANGED watchVars)
<1> USE WatchAssumption
<1>1. CASE limiter_step
  BY <1>1 DEF limiter_step, Next, Others
<1>2. CASE watch_step
  BY <1>2 DEF watch_step
<1>3. CASE reader_ends
  BY <1>3 DEF reader_ends
<1>4. CASE last_drop
  BY <1>4 DEF last_drop, Next
<1>5. CASE UNCHANGED allVars
  BY <1>5 DEF allVars
<1> QED BY <1>1, <1>2, <1>3, <1>4, <1>5 DEF ConnectionsNext

(***************************************************************************)
(* With an idle watch on one of its connections a server's accept loop     *)
(* still implements BoundedAccept, so the cap stays exact (CapIsExact).    *)
(***************************************************************************)
THEOREM ConnectionsKeepCap == ConnectionsSpec => Spec /\ []AcceptInv
<1>1. ConnectionsInit => Init
  BY DEF ConnectionsInit
<1>2. [ConnectionsNext]_allVars => [Next]_vars
  BY ConnectionsSteps
<1> QED BY <1>1, <1>2, CapIsExact, PTL DEF ConnectionsSpec, Spec

(***************************************************************************)
(* watch_idle_with_probe never fires on a connection at work, although it  *)
(* reads in_flight before `last` and work may begin at any time, and on a  *)
(* live peer only in the window inside end_work; a live peer is heard from *)
(* within half of the bound: for any bound of at least four ticks, any     *)
(* number of handlers and any number of silent stretches.                  *)
(***************************************************************************)
THEOREM WatchSafe == ConnectionsSpec => []WatchInv /\ FiresOnlyWhenIdle
<1>1. ConnectionsInit => WInv
  BY WatchInit DEF ConnectionsInit
<1>2. WInv /\ [ConnectionsNext]_allVars => WInv'
  BY ConnectionsSteps, WatchStep, WatchDropped
<1>3. WInv => WatchInv
  BY DEF WInv, QuietIsProbed, Quiet, Half, WatchInv, W!WatchInv, W!LivePeerIsHeard
<1>4. WInv /\ [ConnectionsNext]_allVars =>
         [watch # "fired" /\ watch' = "fired" =>
             /\ \A h \in Handlers : work[h] \notin {"begun", "working"}
             /\ link = "live" => \E h \in Handlers : work[h] = "ending"]_(W!vars)
  BY ConnectionsSteps, FireStep
<1> QED BY <1>1, <1>2, <1>3, <1>4, PTL DEF ConnectionsSpec, FiresOnlyWhenIdle, W!FiresOnlyWhenIdle
=============================================================================
