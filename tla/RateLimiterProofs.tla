------------------------- MODULE RateLimiterProofs -------------------------
(***************************************************************************)
(* Proofs about ConcurrencyGate and the RateLimiter that waits on it, for  *)
(* any number of requests and any sequence of limits.  The gate comes      *)
(* first, as a specification of its own (Spec); then the limiter is shown  *)
(* to use it as such (LimiterSpec => Spec) and to keep its own counters,   *)
(* queue bound and budget.                                                 *)
(***************************************************************************)
EXTENDS RateLimiter, SequenceTheorems, FiniteSetTheorems, TLAPS

\* The inductive invariant.  NoLostWakeup needs only the types;
\* ActiveCountsHolders carries the rest.
IInv == TypeOK /\ NoLostWakeup /\ ActiveCountsHolders

-----------------------------------------------------------------------------
(***************************************************************************)
(* What queue.retain leaves: every other entry, in order.                  *)
(***************************************************************************)
LEMMA WithoutProperties ==
    ASSUME NEW q \in Seq(Tasks), NEW i \in 1..Len(q)
    PROVE  /\ Without(q, i) \in Seq(Tasks)
           /\ Len(Without(q, i)) = Len(q) - 1
           /\ \A j \in 1..(Len(q) - 1) :
                  Without(q, i)[j] = IF j < i THEN q[j] ELSE q[j + 1]
<1>1. Len(q) \in Nat /\ q \in [1..Len(q) -> Tasks]
  BY LenProperties
<1>2. Len(q) - 1 \in Nat
  BY <1>1
<1>3. Without(q, i) \in [1..(Len(q) - 1) -> Tasks]
  BY <1>1 DEF Without
<1>4. Without(q, i) \in Seq(Tasks)
  BY <1>2, <1>3
<1>5. Len(Without(q, i)) = Len(q) - 1
  BY <1>2, <1>3, <1>4
<1>6. QED
  BY <1>4, <1>5 DEF Without

(***************************************************************************)
(* The queue an admission from its front leaves.                           *)
(***************************************************************************)
LEMMA TailEntries ==
    ASSUME NEW q \in Seq(Tasks), q # <<>>
    PROVE  /\ Tail(q) \in Seq(Tasks)
           /\ Len(Tail(q)) = Len(q) - 1
           /\ \A j \in 1..(Len(q) - 1) : Tail(q)[j] = q[j + 1]
           /\ Head(q) = q[1]
           /\ Len(q) \in Nat \ {0}
  BY HeadTailProperties, EmptySeq

(***************************************************************************)
(* The queue an arrival leaves.                                            *)
(***************************************************************************)
LEMMA AppendEntries ==
    ASSUME NEW q \in Seq(Tasks), NEW t \in Tasks
    PROVE  /\ Append(q, t) \in Seq(Tasks)
           /\ Len(Append(q, t)) = Len(q) + 1
           /\ \A j \in 1..Len(q) : Append(q, t)[j] = q[j]
           /\ Append(q, t)[Len(q) + 1] = t
           /\ q # <<>> => Head(Append(q, t)) = Head(q)
  BY LenProperties, EmptySeq

(***************************************************************************)
(* The front of a queue is one of its entries.                             *)
(***************************************************************************)
LEMMA FrontWaits ==
    ASSUME TypeOK
    PROVE  /\ queue # <<>> => Head(queue) \in Waiting
           /\ Waiting \subseteq Tasks
           /\ Front(queue) \subseteq Tasks
<1>1. queue \in Seq(Tasks)
  BY DEF TypeOK
<1>2. queue # <<>> => Head(queue) = queue[1] /\ 1 \in 1..Len(queue)
  BY <1>1, TailEntries
<1>3. \A i \in 1..Len(queue) : queue[i] \in Tasks
  BY <1>1, ElementOfSeq
<1>4. QED
  BY <1>2, <1>3 DEF Waiting, Front

-----------------------------------------------------------------------------
(***************************************************************************)
(* Types are preserved by every operation of the gate.  The count of       *)
(* permits stays natural because whoever drops one is among the holders.   *)
(***************************************************************************)
LEMMA TypesPreserved ==
    ASSUME TypeOK, ActiveCountsHolders, [Next]_vars
    PROVE  TypeOK'
<1> USE GateAssumption
<1>1. /\ queue \in Seq(Tasks)
      /\ Front(queue) \subseteq Tasks
      /\ Waiting \subseteq Tasks
  BY FrontWaits DEF TypeOK
<1>2. ASSUME NEW t \in Tasks, try_acquire_owned(t) PROVE TypeOK'
  BY <1>2 DEF TypeOK, try_acquire_owned, Admit
<1>3. ASSUME NEW t \in Tasks, poll_new(t) PROVE TypeOK'
  <2>1. queue' \in Seq(Tasks)
    BY <1>1, <1>3, AppendEntries DEF poll_new
  <2>2. QED
    BY <1>3, <2>1 DEF TypeOK, poll_new, Admit
<1>4. ASSUME NEW t \in Tasks, poll(t) PROVE TypeOK'
  <2>1. queue # <<>>
    BY <1>4 DEF poll, Waiting
  <2>2. Tail(queue) \in Seq(Tasks) /\ Front(Tail(queue)) \subseteq Tasks
    <3>1. Tail(queue) \in Seq(Tasks)
      BY <1>1, <2>1, TailEntries
    <3>2. QED
      BY <3>1, HeadTailProperties DEF Front
  <2>3. QED
    BY <1>4, <2>2 DEF TypeOK, poll, Admit, PassWake, PassOn, WakeFront
<1>5. ASSUME NEW t \in Tasks, drop_wait(t) PROVE TypeOK'
  <2>1. PICK i \in 1..Len(queue) : /\ queue' = Without(queue, i)
                                   /\ WakeSuccessor(queue')
    BY <1>5 DEF drop_wait
  <2>2. queue' \in Seq(Tasks)
    BY <1>1, <2>1, WithoutProperties
  <2>3. Front(queue') \subseteq Tasks
    BY <2>2, HeadTailProperties DEF Front
  <2>4. QED
    BY <1>5, <2>1, <2>2, <2>3 DEF TypeOK, drop_wait, WakeSuccessor, WakeFront
<1>6. ASSUME NEW t \in Tasks, drop_permit(t) PROVE TypeOK'
  <2>1. IsFiniteSet(holders)
    BY FS_Subset DEF TypeOK, GateAssumption
  <2>2. active - 1 \in Nat
    <3>1. Cardinality(holders) # 0 /\ Cardinality(holders) \in Nat
      BY <1>6, <2>1, FS_EmptySet, FS_CardinalityType DEF drop_permit
    <3>2. QED
      BY <3>1 DEF ActiveCountsHolders
  <2>3. QED
    BY <1>1, <1>6, <2>2 DEF TypeOK, drop_permit, WakeFront
<1>7. ASSUME NEW t \in Tasks, wake(t) PROVE TypeOK'
  BY <1>7 DEF TypeOK, wake
<1>8. ASSUME NEW n \in Limits, resize(n) PROVE TypeOK'
  BY <1>1, <1>8 DEF TypeOK, resize, WakeAtResize, WakeFront, GateAssumption
<1>9. CASE UNCHANGED vars
  BY <1>9 DEF TypeOK, vars
<1>10. QED
  BY <1>2, <1>3, <1>4, <1>5, <1>6, <1>7, <1>8, <1>9 DEF Next

(***************************************************************************)
(* No operation loses the wakeup the front of the queue is owed.           *)
(***************************************************************************)
LEMMA WakeupPreserved ==
    ASSUME TypeOK, NoLostWakeup, [Next]_vars
    PROVE  NoLostWakeup'
<1>1. /\ queue \in Seq(Tasks)
      /\ queue # <<>> => Head(queue) \in Waiting
      /\ active \in Nat /\ limit \in Nat
  BY FrontWaits DEF TypeOK
<1>2. ASSUME NEW t \in Tasks, try_acquire_owned(t) PROVE NoLostWakeup'
  BY <1>2 DEF try_acquire_owned, FastPathRoom, NoLostWakeup
<1>3. ASSUME NEW t \in Tasks, poll_new(t) PROVE NoLostWakeup'
  <2>1. CASE queue = <<>> /\ HasRoom
    BY <1>3, <2>1 DEF poll_new, NoLostWakeup
  <2>2. CASE ~(queue = <<>> /\ HasRoom)
    <3>1. queue # <<>> => Head(queue') = Head(queue)
      BY <1>1, <1>3, <2>2, AppendEntries DEF poll_new
    <3>2. HasRoom' <=> HasRoom
      BY <1>3, <2>2 DEF poll_new, HasRoom
    <3>3. QED
      BY <1>3, <2>2, <3>1, <3>2 DEF poll_new, NoLostWakeup
  <2>3. QED
    BY <2>1, <2>2
<1>4. ASSUME NEW t \in Tasks, poll(t) PROVE NoLostWakeup'
  <2>1. CASE Head(queue) = t /\ HasRoom
    <3>1. /\ queue' = Tail(queue)
          /\ active' = active + 1
          /\ limit' = limit
          /\ PassOn(Tail(queue))
      BY <1>4, <2>1 DEF poll, Admit, PassWake
    <3>2. SUFFICES ASSUME queue' # <<>>, HasRoom' PROVE Head(queue') \in waking'
      BY DEF NoLostWakeup
    <3>3. active + 1 < limit
      BY <3>1, <3>2 DEF HasRoom
    <3>4. QED
      BY <3>1, <3>2, <3>3 DEF PassOn, WakeFront, Front
  <2>2. CASE ~(Head(queue) = t /\ HasRoom)
    <3>1. UNCHANGED <<queue, active, waking, limit>> /\ woken' = woken \ {t}
      BY <1>4, <2>2 DEF poll
    <3>2. QED
      BY <2>2, <3>1 DEF NoLostWakeup, HasRoom
  <2>3. QED
    BY <2>1, <2>2
<1>5. ASSUME NEW t \in Tasks, drop_wait(t) PROVE NoLostWakeup'
  BY <1>5 DEF drop_wait, WakeSuccessor, WakeFront, Front, NoLostWakeup
<1>6. ASSUME NEW t \in Tasks, drop_permit(t) PROVE NoLostWakeup'
  BY <1>6 DEF drop_permit, WakeFront, Front, NoLostWakeup
<1>7. ASSUME NEW t \in Tasks, wake(t) PROVE NoLostWakeup'
  BY <1>1, <1>7 DEF wake, NoLostWakeup, HasRoom
<1>8. ASSUME NEW n \in Limits, resize(n) PROVE NoLostWakeup'
  BY <1>8 DEF resize, WakeAtResize, WakeFront, Front, NoLostWakeup
<1>9. CASE UNCHANGED vars
  BY <1>9 DEF NoLostWakeup, HasRoom, vars
<1>10. QED
  BY <1>2, <1>3, <1>4, <1>5, <1>6, <1>7, <1>8, <1>9 DEF Next

(***************************************************************************)
(* The counter follows the permits, and the queue holds each waiter once.  *)
(***************************************************************************)
LEMMA CountsPreserved ==
    ASSUME TypeOK, ActiveCountsHolders, [Next]_vars
    PROVE  ActiveCountsHolders'
<1>1. queue \in Seq(Tasks) /\ IsFiniteSet(holders) /\ Len(queue) \in Nat
  BY GateAssumption, FS_Subset, LenProperties DEF TypeOK, GateAssumption
<1> DEFINE Distinct(q) == \A i, j \in 1..Len(q) : q[i] = q[j] => i = j
           Entries(q) == {q[i] : i \in 1..Len(q)}
<1>2. /\ active = Cardinality(holders)
      /\ Entries(queue) \cap holders = {}
      /\ Distinct(queue)
  BY DEF ActiveCountsHolders, Waiting
<1>3. SUFFICES /\ active' = Cardinality(holders')
               /\ Entries(queue') \cap holders' = {}
               /\ Distinct(queue')
  BY DEF ActiveCountsHolders, Waiting
<1>4. ASSUME NEW t \in Tasks, t \notin holders, Admit(t)
      PROVE  active' = Cardinality(holders') /\ holders' = holders \cup {t}
  BY <1>1, <1>2, <1>4, FS_AddElement DEF Admit
<1> HIDE DEF Distinct, Entries
<1>5. ASSUME NEW t \in Tasks, try_acquire_owned(t) PROVE <1>3!1
  <2>1. queue' = queue /\ Entries(queue) = {}
    BY <1>5 DEF try_acquire_owned, FastPathRoom, Entries
  <2>2. QED
    BY <1>2, <1>4, <1>5, <2>1 DEF try_acquire_owned
<1>6. ASSUME NEW t \in Tasks, poll_new(t) PROVE <1>3!1
  <2>1. CASE queue = <<>> /\ HasRoom
    <3>1. queue' = queue /\ Entries(queue) = {}
      BY <1>6, <2>1 DEF poll_new, Entries
    <3>2. QED
      BY <1>2, <1>4, <1>6, <2>1, <3>1 DEF poll_new
  <2>2. CASE ~(queue = <<>> /\ HasRoom)
    <3>1. queue' = Append(queue, t) /\ UNCHANGED <<active, holders>>
      BY <1>6, <2>2 DEF poll_new
    <3>2. Entries(queue') \subseteq Entries(queue) \cup {t}
      BY <1>1, <3>1, AppendEntries DEF Entries
    <3>3. t \notin holders /\ \A i \in 1..Len(queue) : queue[i] # t
      BY <1>6 DEF poll_new, Waiting
    <3>4. Distinct(queue')
      BY <1>1, <1>2, <3>1, <3>3, AppendEntries DEF Distinct
    <3>5. QED
      BY <1>2, <3>1, <3>2, <3>3, <3>4
  <2>3. QED
    BY <2>1, <2>2
<1>7. ASSUME NEW t \in Tasks, poll(t) PROVE <1>3!1
  <2>1. CASE Head(queue) = t /\ HasRoom
    <3>1. queue' = Tail(queue) /\ Admit(t) /\ queue # <<>> /\ t \in Entries(queue)
      BY <1>7, <2>1 DEF poll, Waiting, Entries
    <3>2. t = queue[1]
      BY <1>1, <2>1, <3>1, TailEntries
    <3>3. Entries(queue') \subseteq Entries(queue) \ {t}
      BY <1>1, <1>2, <3>1, <3>2, TailEntries DEF Entries, Distinct
    <3>4. Distinct(queue')
      BY <1>1, <1>2, <3>1, TailEntries DEF Distinct
    <3>5. t \notin holders
      BY <1>2, <3>1
    <3>6. QED
      BY <1>2, <1>4, <3>1, <3>3, <3>4, <3>5
  <2>2. CASE ~(Head(queue) = t /\ HasRoom)
    BY <1>2, <1>7, <2>2 DEF poll
  <2>3. QED
    BY <2>1, <2>2
<1>8. ASSUME NEW t \in Tasks, drop_wait(t) PROVE <1>3!1
  <2>1. PICK i \in 1..Len(queue) : queue' = Without(queue, i)
    BY <1>8 DEF drop_wait
  <2>2. /\ Len(queue') = Len(queue) - 1
        /\ \A j \in 1..(Len(queue) - 1) :
               queue'[j] = IF j < i THEN queue[j] ELSE queue[j + 1]
    BY <1>1, <2>1, WithoutProperties
  <2>3. Entries(queue') \subseteq Entries(queue)
    <3>1. ASSUME NEW j \in 1..(Len(queue) - 1)
          PROVE  \E k \in 1..Len(queue) : queue'[j] = queue[k]
      <4>1. CASE j < i
        BY <1>1, <2>2, <4>1
      <4>2. CASE ~(j < i)
        <5>1. j + 1 \in 1..Len(queue) /\ queue'[j] = queue[j + 1]
          BY <1>1, <2>2, <4>2
        <5>2. QED
          BY <5>1
      <4>3. QED
        BY <4>1, <4>2
    <3>2. QED
      BY <2>2, <3>1 DEF Entries
  <2>4. Distinct(queue')
    <3>1. SUFFICES ASSUME NEW j \in 1..Len(queue'), NEW k \in 1..Len(queue'),
                          queue'[j] = queue'[k]
                   PROVE  j = k
      BY DEF Distinct
    <3>2. PICK m \in 1..Len(queue) : /\ queue'[j] = queue[m]
                                     /\ m = IF j < i THEN j ELSE j + 1
      BY <1>1, <2>2
    <3>3. PICK n \in 1..Len(queue) : /\ queue'[k] = queue[n]
                                     /\ n = IF k < i THEN k ELSE k + 1
      BY <1>1, <2>2
    <3>4. m = n
      BY <1>2, <3>1, <3>2, <3>3 DEF Distinct
    <3>5. QED
      BY <1>1, <2>2, <3>2, <3>3, <3>4
  <2>5. QED
    BY <1>2, <1>8, <2>3, <2>4 DEF drop_wait
<1>9. ASSUME NEW t \in Tasks, drop_permit(t) PROVE <1>3!1
  <2>1. active' = Cardinality(holders')
    BY <1>1, <1>2, <1>9, FS_RemoveElement DEF drop_permit
  <2>2. QED
    BY <1>2, <1>9, <2>1 DEF drop_permit
<1>10. ASSUME NEW t \in Tasks, wake(t) PROVE <1>3!1
  BY <1>2, <1>10 DEF wake
<1>11. ASSUME NEW n \in Limits, resize(n) PROVE <1>3!1
  BY <1>2, <1>11 DEF resize
<1>12. CASE UNCHANGED vars
  BY <1>2, <1>12 DEF vars
<1>13. QED
  BY <1>5, <1>6, <1>7, <1>8, <1>9, <1>10, <1>11, <1>12 DEF Next

-----------------------------------------------------------------------------
(***************************************************************************)
(* The inductive invariant holds in every reachable state, for any finite  *)
(* set of tasks, any initial limit and any resizes (0 included).           *)
(***************************************************************************)
THEOREM GateInv == Spec => []IInv
<1>1. Init => IInv
  <2>1. SUFFICES ASSUME Init PROVE IInv
    OBVIOUS
  <2>2. TypeOK
    BY <2>1, GateAssumption, EmptySeq DEF Init, TypeOK, GateAssumption
  <2>3. NoLostWakeup
    BY <2>1 DEF Init, NoLostWakeup
  <2>4. ActiveCountsHolders
    BY <2>1, FS_EmptySet, EmptySeq DEF Init, ActiveCountsHolders, Waiting
  <2>5. QED
    BY <2>2, <2>3, <2>4 DEF IInv
<1>2. IInv /\ [Next]_vars => IInv'
  BY TypesPreserved, WakeupPreserved, CountsPreserved DEF IInv
<1>3. QED
  BY <1>1, <1>2, PTL DEF Spec

(***************************************************************************)
(* The gate's variables keep their types; in particular `active -= 1` of   *)
(* Drop for ConcurrencyPermit never goes below zero.                       *)
(***************************************************************************)
THEOREM GateTypes == Spec => []TypeOK
  BY GateInv, PTL DEF IInv

(***************************************************************************)
(* No lost wakeup: no interleaving of arrivals, admissions, cancelled      *)
(* waits, dropped permits and resizes leaves room beside a front waiter    *)
(* nobody has woken or will wake.                                          *)
(***************************************************************************)
THEOREM WakeupNeverLost == Spec => []NoLostWakeup
  BY GateInv, PTL DEF IInv

(***************************************************************************)
(* The active counter is the number of permits out, and nobody waits twice *)
(* or while admitted.                                                      *)
(***************************************************************************)
THEOREM CounterExact == Spec => []ActiveCountsHolders
  BY GateInv, PTL DEF IInv

(***************************************************************************)
(* Only the three admitting operations add a holder, each when there is    *)
(* room and for the front of the queue, or with nobody queued.             *)
(***************************************************************************)
LEMMA Admissions ==
    ASSUME IInv, [Next]_vars, NEW t \in holders' \ holders
    PROVE  /\ HasRoom /\ active' = active + 1
           /\ queue = <<>> \/ Head(queue) = t
<1>1. ASSUME NEW u \in Tasks, try_acquire_owned(u) PROVE HasRoom /\ active' = active + 1 /\ queue = <<>>
  BY <1>1 DEF try_acquire_owned, FastPathRoom, Admit
<1>2. ASSUME NEW u \in Tasks, poll_new(u) PROVE HasRoom /\ active' = active + 1 /\ queue = <<>>
  BY <1>2 DEF poll_new, Admit
<1>3. ASSUME NEW u \in Tasks, poll(u) PROVE HasRoom /\ active' = active + 1 /\ Head(queue) = t
  BY <1>3 DEF poll, Admit
<1>4. ASSUME NEW u \in Tasks, drop_wait(u) \/ drop_permit(u) \/ wake(u) PROVE FALSE
  BY <1>4 DEF drop_wait, drop_permit, wake
<1>5. ASSUME NEW n \in Limits, resize(n) PROVE FALSE
  BY <1>5 DEF resize
<1>6. CASE UNCHANGED vars
  BY <1>6 DEF vars
<1>7. QED
  BY <1>1, <1>2, <1>3, <1>4, <1>5, <1>6 DEF Next

(***************************************************************************)
(* First come, first served, also against the fast path.                   *)
(***************************************************************************)
THEOREM FirstComeFirstServed == Spec => NoOvertaking
<1>1. IInv /\ [Next]_vars =>
          [\A t \in holders' \ holders : queue = <<>> \/ Head(queue) = t]_vars
  BY Admissions
<1>2. QED
  BY <1>1, GateInv, PTL DEF Spec, NoOvertaking

(***************************************************************************)
(* No admission exceeds the limit in force, however often it was changed.  *)
(***************************************************************************)
THEOREM LimitRespected == Spec => AdmissionWithinLimit
<1>1. ASSUME IInv, [Next]_vars, holders' \ holders # {}
      PROVE  Cardinality(holders') <= limit
  <2>1. HasRoom /\ active' = active + 1
    BY <1>1, Admissions
  <2>2. ActiveCountsHolders' /\ active \in Nat /\ limit \in Nat
    BY <1>1, CountsPreserved DEF IInv, TypeOK
  <2>3. QED
    BY <2>1, <2>2 DEF ActiveCountsHolders, HasRoom
<1>2. IInv /\ [Next]_vars =>
          [holders' \ holders # {} => Cardinality(holders') <= limit]_vars
  BY <1>1
<1>3. QED
  BY <1>2, GateInv, PTL DEF Spec, AdmissionWithinLimit

-----------------------------------------------------------------------------
(***************************************************************************)
(* What each operation of the gate does to who waits and who is admitted.  *)
(***************************************************************************)
LEMMA AcquireSets ==
    ASSUME IInv, NEW t \in Tasks, try_acquire_owned(t)
    PROVE  Waiting' = Waiting /\ holders' = holders \cup {t}
  BY DEF try_acquire_owned, Admit, Waiting

\* A first poll takes the permit or joins those who wait.
LEMMA PollNewSets ==
    ASSUME IInv, NEW t \in Tasks, poll_new(t)
    PROVE  \/ Waiting' = Waiting /\ holders' = holders \cup {t}
           \/ Waiting' = Waiting \cup {t} /\ holders' = holders /\ t \notin holders
<1>1. CASE queue = <<>> /\ HasRoom
  BY <1>1 DEF poll_new, Admit, Waiting
<1>2. CASE ~(queue = <<>> /\ HasRoom)
  <2>1. queue' = Append(queue, t) /\ holders' = holders /\ t \notin holders
    BY <1>2 DEF poll_new
  <2>2. queue \in Seq(Tasks) /\ Len(queue) \in Nat
    BY LenProperties DEF IInv, TypeOK
  <2>3. /\ Len(queue') = Len(queue) + 1 /\ queue'[Len(queue) + 1] = t
        /\ \A j \in 1..Len(queue) : queue'[j] = queue[j]
    BY <2>1, <2>2, AppendEntries
  <2>4. \A j \in 1..Len(queue') : j = Len(queue) + 1 \/ j \in 1..Len(queue)
    BY <2>2, <2>3
  <2>5. Len(queue) + 1 \in 1..Len(queue') /\ \A j \in 1..Len(queue) : j \in 1..Len(queue')
    BY <2>2, <2>3
  <2>6. Waiting' = Waiting \cup {t}
    BY <2>3, <2>4, <2>5 DEF Waiting
  <2> QED BY <2>1, <2>6
<1> QED BY <1>1, <1>2

\* A later poll takes the permit or leaves the sets as they are.
LEMMA PollSets ==
    ASSUME IInv, NEW t \in Tasks, poll(t)
    PROVE  \/ Waiting' = Waiting \ {t} /\ holders' = holders \cup {t}
           \/ Waiting' = Waiting /\ holders' = holders /\ t \notin holders
<1>0. t \in Waiting /\ t \notin holders
  BY DEF poll, IInv, ActiveCountsHolders
<1>1. CASE Head(queue) = t /\ HasRoom
  <2>1. queue' = Tail(queue) /\ holders' = holders \cup {t}
    BY <1>1 DEF poll, Admit
  <2>2. queue \in Seq(Tasks) /\ queue # <<>>
    BY <1>0 DEF IInv, TypeOK, Waiting
  <2>3. /\ Len(queue') = Len(queue) - 1 /\ queue[1] = t /\ Len(queue) \in Nat \ {0}
        /\ \A j \in 1..(Len(queue) - 1) : queue'[j] = queue[j + 1]
    BY <1>1, <2>1, <2>2, TailEntries
  <2>4. \A i, j \in 1..Len(queue) : queue[i] = queue[j] => i = j
    BY DEF IInv, ActiveCountsHolders
  <2>5. \A j \in 1..Len(queue') : j + 1 \in 1..Len(queue) /\ j + 1 # 1
    BY <2>3
  <2>6. \A i \in 1..Len(queue) : i # 1 => i - 1 \in 1..Len(queue') /\ queue'[i - 1] = queue[i]
    BY <2>3
  <2>7. 1 \in 1..Len(queue)
    BY <2>3
  <2>8. Waiting' \subseteq Waiting \ {t}
    BY <2>3, <2>4, <2>5, <2>7 DEF Waiting
  <2>9. Waiting \ {t} \subseteq Waiting'
    BY <2>3, <2>6 DEF Waiting
  <2> QED BY <2>1, <2>8, <2>9
<1>2. CASE ~(Head(queue) = t /\ HasRoom)
  BY <1>0, <1>2 DEF poll, Waiting
<1> QED BY <1>1, <1>2

\* A dropped wait leaves the waiting and holds nothing.
LEMMA DropWaitSets ==
    ASSUME IInv, NEW t \in Tasks, drop_wait(t)
    PROVE  Waiting' = Waiting \ {t} /\ holders' = holders /\ t \in Waiting
<1>1. PICK i \in 1..Len(queue) : queue[i] = t /\ queue' = Without(queue, i)
  BY DEF drop_wait
<1>2. queue \in Seq(Tasks) /\ Len(queue) \in Nat
  BY LenProperties DEF IInv, TypeOK
<1>3. /\ Len(queue') = Len(queue) - 1
      /\ \A j \in 1..(Len(queue) - 1) : queue'[j] = IF j < i THEN queue[j] ELSE queue[j + 1]
  BY <1>1, <1>2, WithoutProperties
<1>4. \A j, k \in 1..Len(queue) : queue[j] = queue[k] => j = k
  BY DEF IInv, ActiveCountsHolders
<1>5. ASSUME NEW j \in 1..Len(queue')
      PROVE  \E k \in 1..Len(queue) : k # i /\ queue'[j] = queue[k]
  <2>1. CASE j < i
    BY <1>2, <1>3, <2>1
  <2>2. CASE ~(j < i)
    <3>1. j + 1 \in 1..Len(queue) /\ j + 1 # i /\ queue'[j] = queue[j + 1]
      BY <1>2, <1>3, <2>2
    <3> QED BY <3>1
  <2> QED BY <2>1, <2>2
<1>6. ASSUME NEW k \in 1..Len(queue), k # i
      PROVE  \E j \in 1..Len(queue') : queue'[j] = queue[k]
  <2>1. CASE k < i
    <3>1. k \in 1..Len(queue') /\ queue'[k] = queue[k]
      BY <1>2, <1>3, <2>1
    <3> QED BY <3>1
  <2>2. CASE ~(k < i)
    <3>1. k - 1 \in 1..Len(queue') /\ queue'[k - 1] = queue[k]
      BY <1>2, <1>3, <1>6, <2>2
    <3> QED BY <3>1
  <2> QED BY <2>1, <2>2
<1>7. Waiting' = Waiting \ {t}
  <2>1. Waiting' \subseteq Waiting \ {t}
    BY <1>1, <1>4, <1>5 DEF Waiting
  <2>2. Waiting \ {t} \subseteq Waiting'
    BY <1>1, <1>6 DEF Waiting
  <2> QED BY <2>1, <2>2
<1> QED BY <1>1, <1>7 DEF drop_wait, Waiting

-----------------------------------------------------------------------------
(***************************************************************************)
(* A step of the limiter moves one request at most, and every counter      *)
(* follows that request: up by one when it starts to be counted, down by   *)
(* one when it stops.                                                      *)
(***************************************************************************)
Follows(c, d, before, after) ==
    \/ before /\ ~after /\ d = c - 1
    \/ ~before /\ after /\ d = c + 1
    \/ (before <=> after) /\ d = c

UserWaits(r) == r \in Users /\ at[r] \in Acquiring
Admitted(r) == at[r] \in {"recheck", "discarding", "running", "recorded"}

\* Who waits and who is admitted in the gate changes with the place.
GateFollows(r) ==
    /\ \A x \in Tasks \ {r} : /\ x \in Waiting' <=> x \in Waiting
                              /\ x \in holders' <=> x \in holders
    /\ r \in Waiting' <=> at'[r] = "waiting"
    /\ r \in holders' <=> Admitted(r)'

Moves(r) ==
    /\ at' \in [Tasks -> Places]
    /\ \A x \in Tasks \ {r} : at'[x] = at[x]
    /\ Follows(queued_network, queued_network', HoldsSlot(r), HoldsSlot(r)')
    /\ Follows(waiting_users, waiting_users', UserWaits(r), UserWaits(r)')
    /\ GateFollows(r)
    /\ r \in Users => at'[r] \notin {"slot", "refusing", "discarding"}

\* Which steps lengthen the queue, start a call or spend budget.
Spends(r) ==
    /\ at'[r] \in {"slot", "waiting"} =>
          \/ at[r] \in {"slot", "waiting"} \/ r \in Users
          \/ ~(MaxQueued > 0 /\ queued_network + 1 > MaxQueued) /\ queued_network' = queued_network + 1
    /\ \/ at'[r] # "running" /\ token_usage' = token_usage
       \/ at'[r] = "running" /\ HasTokens /\ token_usage' = token_usage
       \/ at[r] = "running" /\ at'[r] = "recorded" /\ token_usage' = token_usage + 1

\* Only network requests are refused or discarded: a user waits.
UsersWait == \A r \in Users : at[r] \notin {"slot", "refusing", "discarding"}

\* The inductive invariant of the limiter.
LInv == IInv /\ LimiterInv /\ UsersWait

\* What the step of one request changes in the gate, and what it spends.
LEMMA RequestMoves ==
    ASSUME LInv, NEW r \in Tasks,
           \/ acquire_permit(r) \/ step(r) \/ poll_queued(r) \/ queue_timeout(r)
           \/ record_usage(r) \/ cancel(r)
    PROVE  Moves(r) /\ Spends(r)
<1>0. /\ at \in [Tasks -> Places]
      /\ r \in Waiting <=> at[r] = "waiting"
      /\ r \in holders <=> Admitted(r)
      /\ IInv
      /\ r \in Users => at[r] \notin {"slot", "refusing", "discarding"}
  BY DEF LInv, LimiterInv, LimiterTypeOK, GuardsMatch, Admitted, UsersWait
<1>1. ASSUME UNCHANGED vars PROVE Waiting' = Waiting /\ holders' = holders
  BY <1>1 DEF vars, Waiting
<1>2. ASSUME NEW q \in Places, Goto(r, q)
      PROVE  at' \in [Tasks -> Places] /\ at'[r] = q /\ \A x \in Tasks \ {r} : at'[x] = at[x]
  BY <1>0, <1>2 DEF Goto
<1> DEFINE Rest == /\ Follows(queued_network, queued_network', HoldsSlot(r), HoldsSlot(r)')
                   /\ Follows(waiting_users, waiting_users', UserWaits(r), UserWaits(r)')
                   /\ Spends(r)
                   /\ r \in Users => at'[r] \notin {"slot", "refusing", "discarding"}
<1> SUFFICES /\ at' \in [Tasks -> Places] /\ \A x \in Tasks \ {r} : at'[x] = at[x]
             /\ GateFollows(r) /\ Rest
  BY DEF Moves
<1> USE DEF Follows, UserWaits, HoldsSlot, Acquiring, Spends, GateFollows, Admitted
<1>3. CASE acquire_permit(r)
  <2>1. /\ at[r] = "idle" /\ at' \in [Tasks -> Places] /\ at'[r] = "budget"
        /\ \A x \in Tasks \ {r} : at'[x] = at[x]
    BY <1>2, <1>3 DEF acquire_permit, Places
  <2>2. GateFollows(r)
    BY <1>0, <1>1, <1>3, <2>1 DEF acquire_permit
  <2>3. Rest
    BY <1>3, <2>1 DEF acquire_permit
  <2> QED BY <2>1, <2>2, <2>3
<1>4. CASE check_budget(r)
  <2>1. /\ at[r] = "budget" /\ at' \in [Tasks -> Places] /\ at'[r] = (IF HasTokens THEN "gate" ELSE "idle")
        /\ \A x \in Tasks \ {r} : at'[x] = at[x]
    BY <1>2, <1>4 DEF check_budget, Places
  <2>2. GateFollows(r)
    BY <1>0, <1>1, <1>4, <2>1 DEF check_budget
  <2>3. Rest
    BY <1>4, <2>1 DEF check_budget, BudgetGuard, MayProceed, Network
  <2> QED BY <2>1, <2>2, <2>3
<1>5. CASE try_fast(r)
  <2>1. /\ at[r] = "gate" /\ at' \in [Tasks -> Places] /\ at'[r] = "recheck"
        /\ \A x \in Tasks \ {r} : at'[x] = at[x]
    BY <1>2, <1>5 DEF try_fast, Places
  <2>2. GateFollows(r)
    BY <1>0, AcquireSets, <1>5, <2>1 DEF try_fast
  <2>3. Rest
    BY <1>5, <2>1 DEF try_fast, Network
  <2> QED BY <2>1, <2>2, <2>3
<1>6. CASE take_slot(r)
  <2>1. /\ at[r] = "gate" /\ at' \in [Tasks -> Places] /\ at'[r] = (IF QueueFull(queued_network + 1) THEN "refusing" ELSE "slot")
        /\ \A x \in Tasks \ {r} : at'[x] = at[x]
    BY <1>2, <1>6 DEF take_slot, Places
  <2>2. GateFollows(r)
    BY <1>0, <1>1, <1>6, <2>1 DEF take_slot
  <2>3. Rest
    BY <1>6, <2>1 DEF take_slot, QueueFull, Network
  <2> QED BY <2>1, <2>2, <2>3
<1>7. CASE enter_queue(r)
  <2>0. at[r] = "slot" \/ (at[r] = "gate" /\ r \in Users)
    BY <1>7 DEF enter_queue
  <2>1. /\ at' \in [Tasks -> Places] /\ at'[r] = (IF r \in holders' THEN "recheck" ELSE "waiting")
        /\ \A x \in Tasks \ {r} : at'[x] = at[x]
    BY <1>2, <1>7 DEF enter_queue, Places
  <2>2. GateFollows(r)
    BY <1>0, PollNewSets, <1>7, <2>0, <2>1 DEF enter_queue
  <2>3. Rest
    BY <1>7, <2>0, <2>1, LimiterAssumption DEF enter_queue, DropSlot, Network
  <2> QED BY <2>1, <2>2, <2>3
<1>8. CASE poll_queued(r)
  <2>1. /\ at[r] = "waiting" /\ at' \in [Tasks -> Places]
        /\ at'[r] = (IF r \in holders' THEN "recheck" ELSE "waiting")
        /\ \A x \in Tasks \ {r} : at'[x] = at[x]
    BY <1>0, <1>2, <1>8 DEF poll_queued, Places
  <2>2. GateFollows(r)
    BY <1>0, PollSets, <1>8, <2>1 DEF poll_queued
  <2>3. Rest
    BY <1>8, <2>1 DEF poll_queued, DropSlot
  <2> QED BY <2>1, <2>2, <2>3
<1>9. CASE queue_timeout(r)
  <2>1. /\ at[r] = "waiting" /\ at' \in [Tasks -> Places] /\ at'[r] = "refusing"
        /\ \A x \in Tasks \ {r} : at'[x] = at[x]
    BY <1>2, <1>9 DEF queue_timeout, Places
  <2>2. GateFollows(r)
    BY <1>0, DropWaitSets, <1>9, <2>1 DEF queue_timeout
  <2>3. Rest
    BY <1>9, <2>1 DEF queue_timeout, Network
  <2> QED BY <2>1, <2>2, <2>3
<1>10. CASE refuse(r)
  <2>1. /\ at[r] = "refusing" /\ at' \in [Tasks -> Places] /\ at'[r] = "idle"
        /\ \A x \in Tasks \ {r} : at'[x] = at[x]
    BY <1>2, <1>10 DEF refuse, Places
  <2>2. GateFollows(r)
    BY <1>0, <1>1, <1>10, <2>1 DEF refuse
  <2>3. Rest
    BY <1>0, <1>10, <2>1 DEF refuse, DropSlot
  <2> QED BY <2>1, <2>2, <2>3
<1>11. CASE recheck_budget(r)
  <2>1. /\ at[r] = "recheck" /\ at' \in [Tasks -> Places] /\ at'[r] = (IF HasTokens THEN "running" ELSE "discarding")
        /\ \A x \in Tasks \ {r} : at'[x] = at[x]
    BY <1>2, <1>11 DEF recheck_budget, BudgetAtRecheck, Places
  <2>2. GateFollows(r)
    BY <1>0, <1>1, <1>11, <2>1 DEF recheck_budget
  <2>3. Rest
    BY <1>11, <2>1 DEF recheck_budget, DropUserWait, BudgetAtRecheck, Network
  <2> QED BY <2>1, <2>2, <2>3
<1>12. CASE record_usage(r)
  <2>1. /\ at[r] = "running" /\ at' \in [Tasks -> Places] /\ at'[r] = "recorded"
        /\ \A x \in Tasks \ {r} : at'[x] = at[x]
    BY <1>2, <1>12 DEF record_usage, Places
  <2>2. GateFollows(r)
    BY <1>0, <1>1, <1>12, <2>1 DEF record_usage
  <2>3. Rest
    BY <1>12, <2>1 DEF record_usage
  <2> QED BY <2>1, <2>2, <2>3
<1>13. CASE finish(r)
  <2>1. /\ at[r] \in {"running", "recorded", "discarding"} /\ at' \in [Tasks -> Places] /\ at'[r] = "idle"
        /\ \A x \in Tasks \ {r} : at'[x] = at[x]
    BY <1>2, <1>13 DEF finish, Places
  <2>2. GateFollows(r)
    BY <1>0, <1>13, <2>1 DEF finish, drop_permit, Waiting
  <2>3. Rest
    BY <1>0, <1>13, <2>1 DEF finish
  <2> QED BY <2>1, <2>2, <2>3
<1>14. CASE cancel(r)
  <2>1. /\ at[r] \in Acquiring /\ at' \in [Tasks -> Places] /\ at'[r] = "idle"
        /\ \A x \in Tasks \ {r} : at'[x] = at[x]
    BY <1>2, <1>14 DEF cancel, Places
  <2>2. GateFollows(r)
    BY <1>0, <1>1, DropWaitSets, <1>14, <2>1 DEF cancel, drop_permit, Waiting
  <2>3. Rest
    BY <1>14, <2>1 DEF cancel, CancelGuards, ReleaseGuards, DropSlot, DropUserWait
  <2> QED BY <2>1, <2>2, <2>3
<1> QED
  BY <1>3, <1>4, <1>5, <1>6, <1>7, <1>8, <1>9, <1>10, <1>11, <1>12, <1>13, <1>14 DEF step

(***************************************************************************)
(* Every step of the limiter is a step of the gate, or leaves it alone.    *)
(***************************************************************************)
LEMMA LimiterStepsGate == [LimiterNext]_allVars => [Next]_vars
<1> SUFFICES ASSUME [LimiterNext]_allVars PROVE [Next]_vars
  OBVIOUS
<1>1. ASSUME NEW r \in Tasks, acquire_permit(r) \/ record_usage(r) PROVE UNCHANGED vars
  BY <1>1 DEF acquire_permit, record_usage
<1>2. ASSUME NEW r \in Tasks, step(r) PROVE [Next]_vars
  BY <1>2 DEF step, check_budget, try_fast, take_slot, enter_queue, refuse, recheck_budget, finish, Next
<1>3. ASSUME NEW r \in Tasks, poll_queued(r) \/ queue_timeout(r) \/ cancel(r) PROVE [Next]_vars
  BY <1>3 DEF poll_queued, queue_timeout, cancel, Next
<1>4. CASE expire_usage
  BY <1>4 DEF expire_usage
<1>5. CASE gate_step
  BY <1>5 DEF gate_step, Next
<1>6. CASE UNCHANGED allVars
  BY <1>6 DEF allVars
<1> QED BY <1>1, <1>2, <1>3, <1>4, <1>5, <1>6 DEF LimiterNext

(***************************************************************************)
(* A counter that follows one member of a set counts the set.              *)
(***************************************************************************)
LEMMA CountFollows ==
    ASSUME NEW A, IsFiniteSet(A), NEW B, NEW r, NEW c, NEW d, c = Cardinality(A),
           \A x : x # r => (x \in B <=> x \in A),
           Follows(c, d, r \in A, r \in B)
    PROVE  IsFiniteSet(B) /\ d = Cardinality(B) /\ d \in Nat
<1>1. CASE r \in A /\ r \notin B /\ d = c - 1
  <2>1. B = A \ {r}
    BY <1>1
  <2>2. IsFiniteSet(B) /\ Cardinality(B) = c - 1
    BY <1>1, <2>1, FS_RemoveElement
  <2> QED BY <1>1, <2>2, FS_CardinalityType
<1>2. CASE r \notin A /\ r \in B /\ d = c + 1
  <2>1. B = A \cup {r}
    BY <1>2
  <2> QED BY <1>2, <2>1, FS_AddElement, FS_CardinalityType
<1>3. CASE (r \in A <=> r \in B) /\ d = c
  <2>1. B = A
    BY <1>3
  <2> QED BY <1>3, <2>1, FS_CardinalityType
<1> QED BY <1>1, <1>2, <1>3 DEF Follows

\* Sets of tasks are finite.
LEMMA Finite == ASSUME NEW P \in SUBSET Tasks PROVE IsFiniteSet(P) /\ Cardinality(P) \in Nat
  BY GateAssumption, FS_Subset, FS_CardinalityType

(***************************************************************************)
(* A request that moves takes the counters, the guards and the bound of    *)
(* the queue along.                                                        *)
(***************************************************************************)
LEMMA MoveKeeps ==
    ASSUME LInv, NEW r \in Tasks, Moves(r), Spends(r), TypeOK', token_usage' \in Nat
    PROVE  LimiterInv' /\ UsersWait'
<1> USE LimiterAssumption
<1>1. CountersExact' /\ queued_network' \in Nat /\ waiting_users' \in Nat
  <2> DEFINE S == {x \in Tasks : HoldsSlot(x)}
             U == {x \in Users : UserWaits(x)}
  <2>1. queued_network = Cardinality(S) /\ IsFiniteSet(S)
    BY Finite DEF LInv, LimiterInv, CountersExact
  <2>2. waiting_users = Cardinality(U) /\ IsFiniteSet(U)
    <3>1. U = {x \in Users : at[x] \in Acquiring}
      BY DEF UserWaits
    <3>2. U \in SUBSET Tasks
      OBVIOUS
    <3> QED BY <3>1, <3>2, Finite DEF LInv, LimiterInv, CountersExact
  <2>3. \A x : x # r => (x \in S' <=> x \in S)
    BY DEF Moves, HoldsSlot
  <2>4. \A x : x # r => (x \in U' <=> x \in U)
    BY DEF Moves, UserWaits
  <2>5. (r \in S <=> HoldsSlot(r)) /\ (r \in S' <=> HoldsSlot(r)')
    OBVIOUS
  <2>6. (r \in U <=> UserWaits(r)) /\ (r \in U' <=> UserWaits(r)')
    BY DEF UserWaits
  <2>7. /\ Follows(queued_network, queued_network', r \in S, r \in S')
        /\ Follows(waiting_users, waiting_users', r \in U, r \in U')
    BY <2>5, <2>6 DEF Moves, Follows
  <2> HIDE DEF S, U
  <2>8. queued_network' = Cardinality(S') /\ queued_network' \in Nat
    BY <2>1, <2>3, <2>7, CountFollows
  <2>9. waiting_users' = Cardinality(U') /\ waiting_users' \in Nat
    BY <2>2, <2>4, <2>7, CountFollows
  <2>10. U' = {x \in Users : at'[x] \in Acquiring}
    BY DEF U, UserWaits
  <2> QED BY <2>8, <2>9, <2>10 DEF CountersExact, S
<1>2. LimiterTypeOK'
  BY <1>1 DEF LimiterTypeOK, Moves
<1>3. GuardsMatch' /\ UsersWait'
  BY DEF LInv, LimiterInv, GuardsMatch, UsersWait, Moves, GateFollows, Admitted
<1>4. QueueBounded'
  <2> DEFINE Q == {x \in Network : at[x] \in {"slot", "waiting"}}
             S == {x \in Tasks : HoldsSlot(x)}
  <2> SUFFICES ASSUME MaxQueued > 0 PROVE Cardinality(Q') <= MaxQueued
    BY DEF QueueBounded
  <2>1. Q \in SUBSET Tasks /\ Q' \in SUBSET Tasks /\ S' \in SUBSET Tasks /\ Q' \subseteq S'
    BY DEF Network, HoldsSlot
  <2>2. CASE Q' \subseteq Q
    <3>1. Cardinality(Q) <= MaxQueued
      BY DEF LInv, LimiterInv, QueueBounded
    <3>2. Cardinality(Q') <= Cardinality(Q)
      BY <2>1, <2>2, Finite, FS_Subset
    <3> HIDE DEF Q
    <3> QED BY <2>1, <3>1, <3>2, Finite
  <2>3. CASE ~(Q' \subseteq Q)
    <3>1. r \in Network /\ at'[r] \in {"slot", "waiting"} /\ at[r] \notin {"slot", "waiting"}
      BY <2>3 DEF Moves, Network
    <3>2. queued_network + 1 <= MaxQueued /\ queued_network' = queued_network + 1
      BY <3>1 DEF Spends, Network, LInv, LimiterInv, LimiterTypeOK
    <3>3. Cardinality(S') = queued_network'
      BY <1>1 DEF CountersExact
    <3>4. Cardinality(Q') <= Cardinality(S')
      BY <2>1, Finite, FS_Subset
    <3> HIDE DEF Q, S
    <3> QED BY <2>1, <3>2, <3>3, <3>4, Finite
  <2> QED BY <2>2, <2>3
<1> QED BY <1>1, <1>2, <1>3, <1>4 DEF LimiterInv

\* Every step of the limiter keeps its inductive invariant.
LEMMA LimiterStep == LInv /\ [LimiterNext]_allVars => LInv'
<1> SUFFICES ASSUME LInv, [LimiterNext]_allVars PROVE LInv'
  OBVIOUS
<1>1. IInv'
  BY LimiterStepsGate, TypesPreserved, WakeupPreserved, CountsPreserved DEF LInv, IInv
<1>2. TypeOK' /\ token_usage \in Nat
  BY <1>1 DEF IInv, LInv, LimiterInv, LimiterTypeOK
<1>3. ASSUME NEW r \in Tasks,
             \/ acquire_permit(r) \/ step(r) \/ poll_queued(r) \/ queue_timeout(r)
             \/ record_usage(r) \/ cancel(r)
      PROVE  LInv'
  <2>1. Moves(r) /\ Spends(r)
    BY <1>3, RequestMoves
  <2>2. token_usage' \in Nat
    BY <1>2, <2>1 DEF Spends
  <2> QED BY <1>1, <1>2, <2>1, <2>2, MoveKeeps DEF LInv
<1>4. ASSUME UNCHANGED <<at, queued_network, waiting_users, Waiting, holders>>, token_usage' \in Nat
      PROVE  LInv'
  <2>1. LimiterTypeOK' /\ CountersExact' /\ GuardsMatch' /\ UsersWait'
    BY <1>2, <1>4
    DEF LInv, LimiterInv, LimiterTypeOK, CountersExact, GuardsMatch, HoldsSlot, UsersWait
  <2>2. QueueBounded'
    BY <1>4 DEF LInv, LimiterInv, QueueBounded
  <2> QED BY <1>1, <2>1, <2>2 DEF LInv, LimiterInv
<1>5. CASE expire_usage
  BY <1>2, <1>4, <1>5 DEF expire_usage, vars, Waiting
<1>6. CASE gate_step
  BY <1>2, <1>4, <1>6 DEF gate_step, limiterVars, wake, resize, Waiting
<1>7. CASE UNCHANGED allVars
  BY <1>2, <1>4, <1>7 DEF allVars, limiterVars, vars, Waiting
<1> QED BY <1>3, <1>5, <1>6, <1>7 DEF LimiterNext

(***************************************************************************)
(* Composed with the limiter, the gate is the gate: acquire_permit calls   *)
(* it only as its own specification allows, so what is proved of the gate  *)
(* (no lost wakeup, first come first served, exact count) holds in the     *)
(* limiter.                                                                *)
(***************************************************************************)
THEOREM LimiterUsesGate == LimiterSpec => Spec
<1>1. LimiterInit => Init
  BY DEF LimiterInit
<1> QED BY <1>1, LimiterStepsGate, PTL DEF LimiterSpec, Spec

\* The limiter's inductive invariant holds throughout.
LEMMA LimiterInvariance == LimiterSpec => []LInv
<1>1. LimiterInit => LInv
  <2> SUFFICES ASSUME LimiterInit PROVE LInv
    OBVIOUS
  <2>1. IInv
    <3>1. TypeOK
      BY GateAssumption, EmptySeq DEF LimiterInit, Init, TypeOK, GateAssumption
    <3>2. NoLostWakeup /\ ActiveCountsHolders
      BY FS_EmptySet, EmptySeq DEF LimiterInit, Init, NoLostWakeup, ActiveCountsHolders, Waiting
    <3> QED BY <3>1, <3>2 DEF IInv
  <2>2. LimiterTypeOK /\ GuardsMatch /\ UsersWait
    BY <2>1, LimiterAssumption
    DEF IInv, LimiterInit, Init, LimiterTypeOK, Places, GuardsMatch, Waiting, UsersWait
  <2>3. {r \in Tasks : HoldsSlot(r)} = {} /\ {r \in Users : at[r] \in Acquiring} = {}
    BY LimiterAssumption DEF LimiterInit, HoldsSlot, Acquiring
  <2>4. {r \in Network : at[r] \in {"slot", "waiting"}} = {}
    BY DEF LimiterInit, Network
  <2>5. CountersExact /\ QueueBounded
    BY <2>3, <2>4, FS_EmptySet, LimiterAssumption DEF CountersExact, QueueBounded, LimiterInit
  <2> QED BY <2>1, <2>2, <2>5 DEF LInv, LimiterInv
<1> QED BY <1>1, LimiterStep, PTL DEF LimiterSpec

(***************************************************************************)
(* The limiter's RAII counters are exact at every step of every request,   *)
(* cancelled or not; no permit and no queue entry outlives its request;    *)
(* and at most max_queued network requests wait (QueueSlot, acquire_permit *)
(* of src/llm/rate_limiter.rs).                                            *)
(***************************************************************************)
THEOREM LimiterSafe == LimiterSpec => []LimiterInv
<1>1. LInv => LimiterInv
  BY DEF LInv
<1> QED BY <1>1, LimiterInvariance, PTL

-----------------------------------------------------------------------------
(***************************************************************************)
(* The gate never has more permits out than its largest limit.             *)
(***************************************************************************)
Within == limit <= MaxLimit /\ active <= MaxLimit

\* No limit is above the largest one.
LEMMA LargestLimit == MaxLimit \in Nat /\ \A n \in Limits \cup {InitialLimit} : n <= MaxLimit
  BY LimitsAssumption, GateAssumption DEF MaxLimit, AllLimits

\* Every step keeps the limit and the permits out within the largest limit.
LEMMA WithinStep ==
    ASSUME LInv, Within, [LimiterNext]_allVars
    PROVE  Within'
<1>0. [Next]_vars /\ active \in Nat /\ limit \in Nat
  BY LimiterStepsGate DEF LInv, IInv, TypeOK
<1>1. ASSUME NEW t \in Tasks, try_acquire_owned(t) \/ poll_new(t) \/ poll(t) PROVE Within'
  BY <1>0, <1>1, LargestLimit
  DEF try_acquire_owned, poll_new, poll, FastPathRoom, HasRoom, Admit, Within
<1>2. ASSUME NEW t \in Tasks, drop_wait(t) \/ drop_permit(t) \/ wake(t) PROVE Within'
  BY <1>0, <1>2, LargestLimit DEF drop_wait, drop_permit, wake, Within
<1>3. ASSUME NEW n \in Limits, resize(n) PROVE Within'
  BY <1>3, LargestLimit DEF resize, Within
<1>4. CASE UNCHANGED vars
  BY <1>4 DEF vars, Within
<1> QED BY <1>0, <1>1, <1>2, <1>3, <1>4 DEF Next

(***************************************************************************)
(* A call starts only while there is budget and with a permit in hand, so  *)
(* the calls under way are no more than the permits out.                   *)
(***************************************************************************)
LEMMA BudgetStep ==
    ASSUME LInv, Within, BudgetOvershootBounded, [LimiterNext]_allVars
    PROVE  BudgetOvershootBounded'
<1> DEFINE R == {x \in Tasks : at[x] = "running"}
<1>0. /\ token_usage \in Nat /\ R \in SUBSET Tasks /\ R' \in SUBSET Tasks
      /\ Cardinality(R) \in Nat /\ Cardinality(R') \in Nat
      /\ IsFiniteSet(R) /\ MaxLimit \in Nat /\ TokenLimit \in Nat
      /\ token_usage + Cardinality(R) <= TokenLimit - 1 + MaxLimit
  BY Finite, LargestLimit, LimiterAssumption
  DEF LInv, LimiterInv, LimiterTypeOK, BudgetOvershootBounded
<1> SUFFICES token_usage' + Cardinality(R') <= TokenLimit - 1 + MaxLimit
  BY DEF BudgetOvershootBounded
<1>1. ASSUME R' \subseteq R, token_usage' \in Nat, token_usage' <= token_usage
      PROVE  token_usage' + Cardinality(R') <= TokenLimit - 1 + MaxLimit
  <2>1. Cardinality(R') <= Cardinality(R)
    BY <1>0, <1>1, FS_Subset
  <2> HIDE DEF R
  <2> QED BY <1>0, <1>1, <2>1
<1>2. ASSUME NEW r \in Tasks,
             \/ acquire_permit(r) \/ step(r) \/ poll_queued(r) \/ queue_timeout(r)
             \/ record_usage(r) \/ cancel(r)
      PROVE  token_usage' + Cardinality(R') <= TokenLimit - 1 + MaxLimit
  <2>1. Moves(r) /\ Spends(r)
    BY <1>2, RequestMoves
  <2>2. CASE at'[r] # "running" /\ token_usage' = token_usage
    <3>1. R' \subseteq R
      BY <2>1, <2>2 DEF Moves
    <3> QED BY <1>0, <1>1, <2>2, <3>1
  <2>3. CASE at'[r] = "running" /\ HasTokens /\ token_usage' = token_usage
    <3>1. LInv' /\ Within'
      BY LimiterStep, WithinStep
    <3>2. R' \subseteq holders' /\ holders' \in SUBSET Tasks
      BY <3>1 DEF LInv, LimiterInv, GuardsMatch, IInv, TypeOK
    <3>3. Cardinality(R') <= Cardinality(holders')
      BY <3>2, Finite, FS_Subset
    <3>4. Cardinality(holders') <= MaxLimit
      BY <3>1 DEF LInv, IInv, ActiveCountsHolders, Within
    <3>5. Cardinality(holders') \in Nat
      BY <3>2, Finite
    <3>6. token_usage < TokenLimit
      BY <2>3 DEF HasTokens
    <3> HIDE DEF R
    <3> QED BY <1>0, <2>3, <3>3, <3>4, <3>5, <3>6
  <2>4. CASE at[r] = "running" /\ at'[r] = "recorded" /\ token_usage' = token_usage + 1
    <3>1. r \in R /\ R' = R \ {r}
      BY <2>1, <2>4 DEF Moves
    <3>2. Cardinality(R') = Cardinality(R) - 1
      BY <1>0, <3>1, FS_RemoveElement
    <3> HIDE DEF R
    <3> QED BY <1>0, <2>4, <3>2
  <2> QED BY <2>1, <2>2, <2>3, <2>4 DEF Spends
<1>3. CASE expire_usage
  BY <1>0, <1>1, <1>3 DEF expire_usage
<1>4. CASE gate_step
  BY <1>0, <1>1, <1>4 DEF gate_step, limiterVars
<1>5. CASE UNCHANGED allVars
  BY <1>0, <1>1, <1>5 DEF allVars, limiterVars
<1> QED BY <1>2, <1>3, <1>4, <1>5 DEF LimiterNext

(***************************************************************************)
(* The token budget is overspent by at most the calls that run at once,    *)
(* for any backlog and however often the limit is changed: the second      *)
(* wait_for_token_capacity of acquire_permit is enough.                    *)
(***************************************************************************)
THEOREM OvershootBounded == LimiterSpec => []BudgetOvershootBounded
<1>1. LimiterInit => Within /\ BudgetOvershootBounded
  <2> SUFFICES ASSUME LimiterInit PROVE Within /\ BudgetOvershootBounded
    OBVIOUS
  <2>1. {r \in Tasks : at[r] = "running"} = {}
    BY DEF LimiterInit
  <2>2. BudgetOvershootBounded
    BY <2>1, FS_EmptySet, LargestLimit, LimiterAssumption DEF BudgetOvershootBounded, LimiterInit
  <2> QED BY <2>2, LargestLimit, GateAssumption DEF LimiterInit, Init, Within
<1>2. LInv /\ Within /\ BudgetOvershootBounded /\ [LimiterNext]_allVars
          => Within' /\ BudgetOvershootBounded'
  BY WithinStep, BudgetStep
<1> QED BY <1>1, <1>2, LimiterInvariance, PTL DEF LimiterSpec
=============================================================================
