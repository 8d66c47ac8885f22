-------------------------- MODULE ConcurrencyGate --------------------------
(***************************************************************************)
(* The FIFO gate behind the LLM rate limiter (ConcurrencyGate,             *)
(* ConcurrencyWait and ConcurrencyPermit of src/llm/rate_limiter.rs).      *)
(*                                                                         *)
(* A hand-written future: a task that cannot be admitted leaves its waker  *)
(* in the queue and is polled again only after somebody calls that waker.  *)
(* Every critical section clones the front waker under the lock and calls  *)
(* it after the lock is released, so a wake is two steps: it is first in   *)
(* `waking` (cloned, not yet called), then the task is in `woken`          *)
(* (runnable).  In between the queue, the limit and the task itself may    *)
(* change.  A task whose waker nobody will call waits for ever.            *)
(*                                                                         *)
(* A queue entry is the task that waits; the u64 ids of the code only tell *)
(* entries apart, and a task has one wait at a time.                       *)
(***************************************************************************)
EXTENDS Naturals, Sequences, FiniteSets

CONSTANTS Tasks,        \* tasks that want a permit
          Limits,       \* the max_concurrent values update_config may set
          InitialLimit,
          MaxResizes    \* bound: configuration updates

ASSUME GateAssumption ==
    /\ IsFiniteSet(Tasks)
    /\ Limits \subseteq Nat
    /\ InitialLimit \in Nat
    /\ MaxResizes \in Nat

VARIABLES limit,
          active,     \* permits the gate believes are out
          queue,      \* tasks waiting, in arrival order
          holders,    \* tasks that really hold a ConcurrencyPermit
          waking,     \* wakers cloned under the lock and not yet called
          woken,      \* tasks the executor will poll
          resizes     \* how much of MaxResizes is used

vars == <<limit, active, queue, holders, waking, woken, resizes>>

Waiting == {queue[i] : i \in 1..Len(queue)}

TypeOK ==
    /\ limit \in Nat
    /\ active \in Nat
    /\ queue \in Seq(Tasks)
    /\ holders \subseteq Tasks
    /\ waking \subseteq Tasks
    /\ woken \subseteq Tasks
    /\ resizes \in 0..MaxResizes

Init ==
    /\ limit = InitialLimit
    /\ active = 0
    /\ queue = <<>>
    /\ holders = {}
    /\ waking = {}
    /\ woken = {}
    /\ resizes = 0

-----------------------------------------------------------------------------
\* queue.front().map(|(_, w)| w.clone()), for the queue the step leaves.
Front(q) == IF q = <<>> THEN {} ELSE {Head(q)}
WakeFront(q) == waking' = waking \cup Front(q)
WakeNobody(q) == waking' = waking

\* queue.retain(..): the entry at position i leaves.
Without(q, i) == [j \in 1..(Len(q) - 1) |-> IF j < i THEN q[j] ELSE q[j + 1]]

HasRoom == active < limit

Admit(t) == /\ active' = active + 1
            /\ holders' = holders \cup {t}

\* The fast path may not overtake the queue.
FastPathBarges == HasRoom
FastPathRoom == HasRoom /\ queue = <<>>

\* ConcurrencyGate::try_acquire_owned that succeeds; a refusal changes nothing.
try_acquire_owned(t) ==
    /\ t \notin holders \cup Waiting
    /\ FastPathRoom
    /\ Admit(t)
    /\ UNCHANGED <<limit, queue, waking, woken, resizes>>

\* First poll of a ConcurrencyWait: admitted at once, or queued.
poll_new(t) ==
    /\ t \notin holders \cup Waiting
    /\ IF queue = <<>> /\ HasRoom
       THEN Admit(t) /\ UNCHANGED queue
       ELSE queue' = Append(queue, t) /\ UNCHANGED <<active, holders>>
    /\ UNCHANGED <<limit, waking, woken, resizes>>

\* An admitted waiter passes the wake on while there is room.
PassOn(q) == IF active + 1 < limit THEN WakeFront(q) ELSE UNCHANGED waking
PassOnNever(q) == UNCHANGED waking
PassWake(q) == PassOn(q)

\* A later poll, of a queued wait.
poll(t) ==
    /\ t \in Waiting
    /\ woken' = woken \ {t}
    /\ IF Head(queue) = t /\ HasRoom
       THEN /\ queue' = Tail(queue)
            /\ Admit(t)
            /\ PassWake(Tail(queue))
       ELSE UNCHANGED <<queue, active, holders, waking>>
    /\ UNCHANGED <<limit, resizes>>

\* Drop for ConcurrencyWait: the waiter timed out or was cancelled.
WakeSuccessor(q) == WakeFront(q)
drop_wait(t) ==
    /\ \E i \in 1..Len(queue) :
          /\ queue[i] = t
          /\ queue' = Without(queue, i)
          /\ WakeSuccessor(queue')
    /\ woken' = woken \ {t}
    /\ UNCHANGED <<limit, active, holders, resizes>>

\* Drop for ConcurrencyPermit.
drop_permit(t) ==
    /\ t \in holders
    /\ holders' = holders \ {t}
    /\ active' = active - 1
    /\ WakeFront(queue)
    /\ UNCHANGED <<limit, queue, woken, resizes>>

\* ConcurrencyGate::resize, from update_config.
WakeAtResize(q) == WakeFront(q)
resize(n) ==
    /\ resizes < MaxResizes
    /\ resizes' = resizes + 1
    /\ limit' = n
    /\ WakeAtResize(queue)
    /\ UNCHANGED <<active, queue, holders, woken>>

\* Waker::wake, after the lock is released.  Waking a task that no longer
\* waits is harmless.
wake(t) ==
    /\ t \in waking
    /\ waking' = waking \ {t}
    /\ woken' = IF t \in Waiting THEN woken \cup {t} ELSE woken
    /\ UNCHANGED <<limit, active, queue, holders, resizes>>

Next == \/ \E t \in Tasks : \/ try_acquire_owned(t)
                            \/ poll_new(t)
                            \/ poll(t)
                            \/ drop_wait(t)
                            \/ drop_permit(t)
                            \/ wake(t)
        \/ \E n \in Limits : resize(n)

Spec == Init /\ [][Next]_vars

\* A cloned waker is called; the executor polls a woken task (poll is also
\* possible without a wake, but not owed); an LLM call ends and drops its
\* permit (the backend request has a timeout).
Fairness == \A t \in Tasks : /\ WF_vars(wake(t))
                             /\ WF_vars(t \in woken /\ poll(t))
                             /\ WF_vars(drop_permit(t))

FairSpec == Spec /\ Fairness

-----------------------------------------------------------------------------
(***************************************************************************)
(* No lost wakeup: whenever somebody waits and there is room, the front of *)
(* the queue has been woken, or a waker of it is on its way.  Every path   *)
(* that makes room (a permit dropped, a larger limit) or changes the front *)
(* (an admission, a cancelled wait) has to keep this, also when the wake   *)
(* it owes is still undelivered.                                           *)
(***************************************************************************)
NoLostWakeup ==
    (queue # <<>> /\ HasRoom) => Head(queue) \in woken \cup waking

(***************************************************************************)
(* The counter is the number of permits out, and a task is never both      *)
(* queued and admitted, nor queued twice: `active -= 1` cannot underflow   *)
(* and no slot leaks, however waits are cancelled.                         *)
(***************************************************************************)
ActiveCountsHolders ==
    /\ active = Cardinality(holders)
    /\ Waiting \cap holders = {}
    /\ \A i, j \in 1..Len(queue) : queue[i] = queue[j] => i = j

(***************************************************************************)
(* Shrinking the limit never revokes a running request, and new admission  *)
(* waits for the excess to finish (comment of update_config): a step that  *)
(* admits somebody leaves at most limit requests running.                  *)
(***************************************************************************)
AdmissionWithinLimit ==
    [][holders' \ holders # {} => Cardinality(holders') <= limit]_vars

(***************************************************************************)
(* First come, first served: whoever is admitted was at the front of the   *)
(* queue, or found it empty.  The fast path of network requests cannot     *)
(* starve a waiting user request.                                          *)
(***************************************************************************)
NoOvertaking ==
    [][\A t \in holders' \ holders : queue = <<>> \/ Head(queue) = t]_vars

(***************************************************************************)
(* Unless the limit is 0, every waiter is eventually admitted or gives up: *)
(* also one that queued while it was 0, when no permit is out whose return *)
(* could wake anybody.                                                     *)
(***************************************************************************)
Served == \A t \in Tasks : t \in Waiting ~> (t \notin Waiting \/ limit = 0)
=============================================================================
