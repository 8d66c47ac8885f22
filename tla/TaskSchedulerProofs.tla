------------------------ MODULE TaskSchedulerProofs ------------------------
(***************************************************************************)
(* Proofs about TaskScheduler, for any tickers, tasks, names and limits.   *)
(***************************************************************************)
EXTENDS TaskScheduler, FiniteSetTheorems, TLAPS

(***************************************************************************)
(* The inductive invariant.  Ids that run, wait in a batch or are aborted  *)
(* have been handed out, so a new task meets no trace of an old one; and   *)
(* an id that has not been is as the constructor leaves it.                *)
(***************************************************************************)
Known ==
    /\ \A e \in Executions : place[e] # "none" => e[2] < next_task_id
    /\ \A k \in Tickers : \A t \in batch[k] : t < next_task_id
    /\ \A e \in aborted : place[e] # "none"

Fresh ==
    \A t \in TaskIds : t >= next_task_id =>
        status[t] = "Scheduled" /\ failure_count[t] = 0 /\ executions_count[t] = 0

\* A run of a task in the table has its handle stored, and is not aborted.
HandleKept ==
    \A e \in Executions : e[2] \in tasks /\ place[e] # "none" =>
        e[1] \in scheduled_executions[e[2]] /\ e \notin aborted

\* OneExecution, without counting.
AtMostOne ==
    /\ \A e, f \in Executions :
          e[2] = f[2] /\ place[e] # "none" /\ place[f] # "none" => e = f
    /\ \A e \in Executions, k \in Tickers :
          e[2] \in tasks /\ e[2] \in batch[k] => place[e] = "none"
    /\ \A k, l \in Tickers : \A t \in tasks :
          t \in batch[k] /\ t \in batch[l] => k = l

\* What the row says while the task is in a batch or run.
BatchedStatus == \A k \in Tickers : \A t \in tasks : t \in batch[k] => status[t] = "Executing"

Busy == {"calling", "no_model", "record_success", "record_failure", "completed",
         "failed", "reschedule", "rearm"}

RunStatus ==
    \A e \in Executions : e[2] \in tasks =>
        /\ place[e] \in Busy => status[e[2]] = "Executing"
        /\ place[e] \in {"record_no_model", "remove"} => status[e[2]] \in {"Completed", "Failed"}
        /\ place[e] = "ending" => status[e[2]] # "Executing"

\* The two limits while a run is between its record and its last update.
RetriesLeft ==
    \A t \in tasks : status[t] \in {"Scheduled", "Executing"} =>
        \/ failure_count[t] < MaxFailures
        \/ \E e \in Executions : e[2] = t /\ place[e] \in {"failed", "orphaned"}

RunsLeft ==
    \A e \in Executions :
        (/\ e[2] \in tasks \ OneShot /\ MaxExecutions[e[2]] > 0
         /\ failure_count[e[2]] = 0 /\ place[e] \in {"reschedule", "rearm"})
            => executions_count[e[2]] < MaxExecutions[e[2]]

\* ExecutingIsBacked, by any execution of the task.
Backed ==
    \A t \in tasks : status[t] = "Executing" =>
        \/ \E k \in Tickers : t \in batch[k]
        \/ \E e \in Executions : e[2] = t /\ place[e] \notin {"none", "ending"}

IInv ==
    /\ TypeOK /\ Known /\ Fresh /\ HandleKept /\ AtMostOne /\ BatchedStatus /\ RunStatus
    /\ Backed /\ RemovedIsAborted /\ NameFindsLatest
    /\ SuccessRespectsMax /\ RetriesLeft /\ RunsLeft

(***************************************************************************)
(* An execution is a pair of a ticker and a task.                          *)
(***************************************************************************)
LEMMA Pairs ==
    /\ \A e \in Executions : e[1] \in Tickers /\ e[2] \in TaskIds /\ e = <<e[1], e[2]>>
    /\ \A k \in Tickers, t \in TaskIds :
          <<k, t>> \in Executions /\ <<k, t>>[1] = k /\ <<k, t>>[2] = t
  BY DEF Executions

(***************************************************************************)
(* What any step of an execution leaves alone: the other executions, the   *)
(* other tasks, the batches; and it needs its task to be in the table to   *)
(* write the row.                                                          *)
(***************************************************************************)
StepFrame(e) ==
    /\ place[e] # "none"
    /\ place' \in [Executions -> Places]
    /\ \A f \in Executions : f # e => place'[f] = place[f]
    /\ UNCHANGED <<next_task_id, batch, closed>>
    /\ tasks' \subseteq tasks /\ tasks \ {e[2]} \subseteq tasks'
    /\ status' \in [TaskIds -> {"Scheduled", "Executing", "Completed", "Failed"}]
    /\ failure_count' \in [TaskIds -> Nat] /\ executions_count' \in [TaskIds -> Nat]
    /\ scheduled_executions' \in [TaskIds -> SUBSET Tickers]
    /\ \A u \in TaskIds : u # e[2] \/ u \notin tasks =>
          /\ status'[u] = status[u] /\ failure_count'[u] = failure_count[u]
          /\ executions_count'[u] = executions_count[u]
    /\ \A u \in TaskIds : u # e[2] \/ u \in tasks' => scheduled_executions'[u] = scheduled_executions[u]

(***************************************************************************)
(* The five things a step of an execution can do: move on without writing  *)
(* the row, record its outcome, mark the row, remove the task, or end.     *)
(***************************************************************************)
Kept == UNCHANGED <<tasks, task_names, scheduled_executions>>

Moves(e) ==
    /\ Kept /\ UNCHANGED <<status, failure_count, executions_count, aborted>>
    /\ \/ place[e] = "calling" /\ place'[e] \in {"record_success", "record_failure", "no_model"}
       \/ place[e] = "reschedule" /\ place'[e] = "rearm"
       \/ place[e] # "ending" /\ place'[e] = "orphaned"

Records(e) ==
    /\ Kept /\ UNCHANGED <<status, aborted>>
    /\ \/ /\ place[e] = "record_success"
          /\ place'[e] \in {"completed", "reschedule"}
          /\ e[2] \in tasks =>
                /\ failure_count'[e[2]] = 0
                /\ (place'[e] = "reschedule" /\ MaxExecutions[e[2]] > 0)
                       => executions_count'[e[2]] < MaxExecutions[e[2]]
       \/ /\ place[e] = "record_failure"
          /\ place'[e] \in {"failed", "reschedule"}
          /\ e[2] \in tasks =>
                /\ failure_count'[e[2]] > 0
                /\ place'[e] = "reschedule" => failure_count'[e[2]] < MaxFailures
       \/ place[e] = "record_no_model" /\ place'[e] = "ending"

Marks(e) ==
    /\ Kept /\ UNCHANGED <<failure_count, executions_count, aborted>>
    /\ \/ /\ place[e] \in {"completed", "failed"} /\ place'[e] = "remove"
          /\ e[2] \in tasks => status'[e[2]] \in {"Completed", "Failed"}
       \/ /\ place[e] = "no_model" /\ place'[e] = "record_no_model"
          /\ e[2] \in tasks => status'[e[2]] = "Failed"
       \/ /\ place[e] = "rearm" /\ place'[e] = "ending"
          /\ e[2] \in tasks => status'[e[2]] = "Scheduled"
       \/ /\ place[e] \in {"orphaned", "reschedule"} /\ place'[e] = "ending"
          /\ e[2] \in tasks => status'[e[2]] = "Failed"

Removes(e) ==
    /\ UNCHANGED <<status, failure_count, executions_count>>
    /\ place'[e] = "ending"
    /\ tasks' = tasks \ {e[2]}
    /\ DropNames({e[2]})
    /\ aborted' \subseteq Executions /\ aborted \subseteq aborted'
    /\ \A f \in aborted' : f \in aborted \/ (f[2] = e[2] /\ place[f] # "none")

Ends(e) ==
    /\ Kept /\ UNCHANGED <<status, failure_count, executions_count>>
    /\ place[e] = "ending" \/ e \in aborted
    /\ place'[e] = "none"
    /\ aborted' = aborted \ {e}

Outcome(e) == Moves(e) \/ Records(e) \/ Marks(e) \/ Removes(e) \/ Ends(e)

\* What one step of an execution changes, and how it can end.
LEMMA Steps ==
    ASSUME TypeOK, NEW e \in Executions, step(e)
    PROVE  StepFrame(e) /\ Outcome(e) /\ due' \subseteq TaskIds
<1> USE Pairs, SchedulerAssumption DEF TypeOK, StepFrame, Outcome, Goto, table, Kept
<1>1. ASSUME NEW p \in Places, call_ends(e, p) PROVE StepFrame(e) /\ Moves(e) /\ UNCHANGED due
  BY <1>1 DEF call_ends, Moves
<1>2. CASE record_success(e)
  <2>1. StepFrame(e) /\ UNCHANGED due
    BY <1>2 DEF record_success, Record, Places
  <2>2. Records(e)
    BY <1>2 DEF record_success, Record, Records, ReachesMax, Places
  <2> QED BY <2>1, <2>2
<1>3. CASE record_failure(e)
  <2>1. StepFrame(e) /\ UNCHANGED due
    BY <1>3 DEF record_failure, Record, Places
  <2>2. Records(e)
    BY <1>3 DEF record_failure, Record, Records, GivesUp, Places
  <2> QED BY <2>1, <2>2
<1>4. CASE record_no_model(e)
  <2>1. StepFrame(e) /\ UNCHANGED due
    BY <1>4 DEF record_no_model, Record, Places
  <2>2. Records(e)
    BY <1>4 DEF record_no_model, Record, Records, Places
  <2> QED BY <2>1, <2>2
<1>5. ASSUME NEW s \in {"Scheduled", "Completed", "Failed"}, NEW q \in Places,
             SetStatus(e[2], s), Goto(e, q), place[e] # "none",
             UNCHANGED <<next_task_id, tasks, due, failure_count, executions_count,
                         task_names, scheduled_executions, batch, aborted, closed>>
      PROVE  /\ StepFrame(e) /\ Kept /\ UNCHANGED <<failure_count, executions_count, aborted>>
             /\ UNCHANGED due
             /\ place'[e] = q /\ (e[2] \in tasks => status'[e[2]] = s)
  <2>1. status' \in [TaskIds -> {"Scheduled", "Executing", "Completed", "Failed"}]
    BY <1>5 DEF SetStatus
  <2>2. /\ \A u \in TaskIds : u # e[2] \/ u \notin tasks => status'[u] = status[u]
        /\ e[2] \in tasks => status'[e[2]] = s
    BY <1>5 DEF SetStatus
  <2>3. /\ place' \in [Executions -> Places] /\ place'[e] = q
        /\ \A f \in Executions : f # e => place'[f] = place[f]
    BY <1>5
  <2> QED BY <1>5, <2>1, <2>2, <2>3
<1>6. CASE set_status(e)
  <2>1. PICK s \in {"Scheduled", "Completed", "Failed"}, q \in Places :
            /\ SetStatus(e[2], s) /\ Goto(e, q)
            /\ \/ place[e] \in {"completed", "failed"} /\ s \in {"Completed", "Failed"} /\ q = "remove"
               \/ place[e] = "no_model" /\ s = "Failed" /\ q = "record_no_model"
               \/ place[e] = "rearm" /\ s = "Scheduled" /\ q = "ending"
               \/ place[e] = "orphaned" /\ s = "Failed" /\ q = "ending"
    <3> HIDE DEF TypeOK, StepFrame, Outcome, Goto, table, Kept
    <3>1. /\ "remove" \in Places /\ "record_no_model" \in Places /\ "ending" \in Places
      BY DEF Places
    <3> QED BY <1>6, <3>1 DEF set_status
  <2>2. place[e] # "none"
    BY <2>1
  <2>3. UNCHANGED <<next_task_id, tasks, due, failure_count, executions_count,
                    task_names, scheduled_executions, batch, aborted, closed>>
    BY <1>6 DEF set_status
  <2> HIDE DEF StepFrame, Goto, Kept
  <2>4. /\ StepFrame(e) /\ Kept /\ UNCHANGED <<failure_count, executions_count, aborted>>
        /\ UNCHANGED due
        /\ place'[e] = q /\ (e[2] \in tasks => status'[e[2]] = s)
    BY <1>5, <2>1, <2>2, <2>3
  <2> QED BY <2>1, <2>4 DEF Marks
<1>7. CASE deadline_overflow(e)
  <2>1. "ending" \in Places
    BY DEF Places
  <2>2. /\ StepFrame(e) /\ Kept /\ UNCHANGED <<failure_count, executions_count, aborted>>
        /\ UNCHANGED due
        /\ place'[e] = "ending" /\ (e[2] \in tasks => status'[e[2]] = "Failed")
    <3> HIDE DEF StepFrame, Goto, Kept
    <3> QED BY <1>5, <1>7, <2>1 DEF deadline_overflow
  <2> QED BY <1>7, <2>2 DEF deadline_overflow, Marks
<1>8. CASE remove_self(e)
  <2>1. StepFrame(e) /\ UNCHANGED due
    BY <1>8 DEF remove_self, RemoveTasks, Places
  <2>2. Removes(e)
    BY <1>8 DEF remove_self, RemoveTasks, Removes, Places
  <2> QED BY <2>1, <2>2
<1>9. CASE reschedule(e)
  BY <1>9 DEF reschedule, Moves, Places
<1>10. CASE finish(e)
  BY <1>10 DEF finish, Ends, Places
<1>11. CASE abort(e)
  BY <1>11 DEF abort, Ends, Places
<1>12. CASE owner_closed(e)
  BY <1>12 DEF owner_closed, AfterClose, Moves, Places
<1> QED
  BY <1>1, <1>2, <1>3, <1>4, <1>6, <1>7, <1>8, <1>9, <1>10, <1>11, <1>12 DEF step
(***************************************************************************)
(* A step of an execution preserves the invariant: other tasks are framed, *)
(* and its own task has this execution alone.                              *)
(***************************************************************************)
LEMMA StepInv ==
    ASSUME IInv, NEW e \in Executions, StepFrame(e), Outcome(e), due' \subseteq TaskIds
    PROVE  IInv'
<1> USE Pairs, SchedulerAssumption
<1> DEFINE E2 == e[2]
<1>0. /\ E2 \in TaskIds /\ E2 < next_task_id /\ next_task_id' = next_task_id
      /\ batch' = batch /\ closed' = closed
      /\ \A f \in Executions : f # e => place'[f] = place[f]
      /\ \A f \in Executions : f[2] = e[2] /\ place[f] # "none" => f = e
      /\ \A u \in tasks : u \in TaskIds
  <2>1. \A u \in tasks : u \in TaskIds
    BY DEF IInv, TypeOK, TaskIds
  <2> QED BY <2>1 DEF IInv, Known, AtMostOne, StepFrame
<1>1. TypeOK'
  <2>1. aborted' \subseteq Executions
    BY DEF IInv, TypeOK, Outcome, Moves, Records, Marks, Removes, Ends
  <2>2. task_names' \in [Names -> SUBSET TaskIds]
    BY DEF IInv, TypeOK, Outcome, Moves, Records, Marks, Removes, Ends, Kept, DropNames
  <2> QED BY <2>1, <2>2, <1>0 DEF IInv, TypeOK, StepFrame
<1>2. Known'
  BY <1>0 DEF IInv, Known, StepFrame, TypeOK, Outcome, Moves, Records, Marks, Removes, Ends
<1>3. Fresh'
  BY <1>0 DEF IInv, Fresh, StepFrame, TypeOK
<1>4. HandleKept'
  BY <1>0 DEF IInv, HandleKept, StepFrame, TypeOK, Outcome, Moves, Records, Marks, Removes, Ends
<1>5. AtMostOne'
  BY <1>0 DEF IInv, AtMostOne, StepFrame
<1>6. BatchedStatus'
  BY <1>0 DEF IInv, BatchedStatus, AtMostOne, StepFrame
<1>7. RunStatus'
  BY <1>0 DEF IInv, RunStatus, Busy, StepFrame, Outcome, Moves, Records, Marks, Removes, Ends, HandleKept, Kept
<1>8. Backed'
  <2> SUFFICES ASSUME NEW u \in tasks', status'[u] = "Executing"
               PROVE  \/ \E k \in Tickers : u \in batch[k]
                      \/ \E f \in Executions : f[2] = u /\ place'[f] \notin {"none", "ending"}
    BY <1>0 DEF Backed
  <2>1. CASE u # e[2]
    BY <2>1, <1>0 DEF IInv, Backed, StepFrame
  <2>2. CASE u = e[2]
    <3>1. e[2] \in tasks /\ e[2] \in tasks'
      BY <2>2 DEF StepFrame
    <3>2. place'[e] \notin {"none", "ending"}
      BY <2>2, <3>1 DEF IInv, RunStatus, Busy, HandleKept, StepFrame, Outcome, Moves, Records, Marks, Removes, Ends
    <3> QED BY <2>2, <3>2
  <2> QED BY <2>1, <2>2
<1>9. RemovedIsAborted'
  BY <1>0 DEF IInv, RemovedIsAborted, StepFrame, Outcome, Moves, Records, Marks, Removes, Ends, Kept
<1>10. NameFindsLatest'
  BY <1>0 DEF IInv, NameFindsLatest, Named, StepFrame, Outcome, Moves, Records, Marks, Removes, Ends, Kept, DropNames, TypeOK
<1>11. SuccessRespectsMax'
  BY <1>0 DEF IInv, SuccessRespectsMax, RunsLeft, RunStatus, Busy, StepFrame, Outcome, Moves, Records, Marks, Removes, Ends, Kept
<1>12. RetriesLeft'
  BY <1>0 DEF IInv, RetriesLeft, HandleKept, RunStatus, Busy, StepFrame, Outcome, Moves, Records, Marks, Removes, Ends, Kept, TypeOK
<1>13. RunsLeft'
  BY <1>0 DEF IInv, RunsLeft, HandleKept, StepFrame, Outcome, Moves, Records, Marks, Removes, Ends, Kept, TypeOK
<1> QED BY <1>1, <1>2, <1>3, <1>4, <1>5, <1>6, <1>7, <1>8, <1>9, <1>10, <1>11, <1>12, <1>13 DEF IInv

(***************************************************************************)
(* A new id meets nothing that runs, waits or is aborted.                  *)
(***************************************************************************)
LEMMA AddInv ==
    ASSUME IInv, add_task
    PROVE  IInv'
<1> USE Pairs, SchedulerAssumption
<1> DEFINE n == next_task_id
<1>0. /\ n \in TaskIds /\ n \notin tasks /\ \A u \in tasks : u \in TaskIds /\ u < n
      /\ n' = n + 1 /\ n \in Nat
      /\ \A e \in Executions : e[2] = n => place[e] = "none"
      /\ \A k \in Tickers : n \notin batch[k]
  BY DEF IInv, TypeOK, Known, TaskIds, add_task
<1>1. TypeOK'
  <2>1. n' \in 1..(LastTask + 1)
    BY DEF IInv, TypeOK, TaskIds, add_task
  <2>2. tasks' \subseteq 1..(n' - 1)
    BY <1>0 DEF IInv, TypeOK, TaskIds, add_task
  <2>3. task_names' \in [Names -> SUBSET TaskIds]
    BY <1>0 DEF IInv, TypeOK, add_task
  <2> QED BY <2>1, <2>2, <2>3 DEF IInv, TypeOK, add_task
<1>2. Known' /\ Fresh' /\ HandleKept' /\ AtMostOne' /\ BatchedStatus' /\ RunStatus'
  BY <1>0 DEF IInv, Known, Fresh, HandleKept, AtMostOne, BatchedStatus, RunStatus, Busy, add_task, TypeOK, TaskIds
<1>3. Backed' /\ RemovedIsAborted'
  BY <1>0 DEF IInv, Backed, RemovedIsAborted, Fresh, add_task
<1>4. NameFindsLatest'
  <2>0. PICK name \in Names : name = NameOf[n]
    BY <1>0
  <2>1. Named(name)' = Named(name) \cup {n}
    BY <1>0, <2>0 DEF Named, TaskIds
  <2>2. ASSUME NEW m \in Names, m # name PROVE Named(m)' = Named(m)
    BY <1>0, <2>0, <2>2 DEF Named, TaskIds
  <2>3. \A m \in Names : \A u \in Named(m) : u < n /\ u \in Nat
    BY <1>0 DEF Named
  <2>4. ASSUME NEW m \in Names
        PROVE  task_names'[m] = {t \in Named(m)' \cap tasks' : \A u \in Named(m)' : u <= t}
    <3>1. CASE m = name
      BY <1>0, <2>0, <2>1, <2>3, <3>1 DEF add_task, IInv, TypeOK
    <3>2. CASE m # name
      BY <1>0, <2>0, <2>2, <2>3, <3>2 DEF add_task, IInv, TypeOK, NameFindsLatest
    <3> QED BY <3>1, <3>2
  <2> QED BY <2>4 DEF NameFindsLatest
<1>5. SuccessRespectsMax' /\ RetriesLeft' /\ RunsLeft'
  BY <1>0 DEF IInv, Fresh, SuccessRespectsMax, RetriesLeft, RunsLeft, add_task, TypeOK
<1> QED BY <1>1, <1>2, <1>3, <1>4, <1>5 DEF IInv

(***************************************************************************)
(* Removing tasks aborts what runs of them: its handle is stored.          *)
(***************************************************************************)
LEMMA RemoveInv ==
    ASSUME IInv, NEW S, remove_tasks(S)
    PROVE  IInv'
<1> USE Pairs, SchedulerAssumption DEF remove_tasks, RemoveTasks
<1>0. /\ \A u \in tasks : u \in TaskIds
      /\ tasks' = tasks \ S /\ S \subseteq tasks
  BY DEF IInv, TypeOK, TaskIds
<1>1. TypeOK' /\ Known' /\ Fresh'
  <2>1. scheduled_executions' \in [TaskIds -> SUBSET Tickers] /\ aborted' \subseteq Executions
    BY DEF IInv, TypeOK
  <2>2. task_names' \in [Names -> SUBSET TaskIds]
    BY DEF IInv, TypeOK, DropNames
  <2> QED BY <2>1, <2>2, <1>0 DEF IInv, TypeOK, Known, Fresh
<1>2. HandleKept' /\ AtMostOne' /\ BatchedStatus' /\ RunStatus' /\ Backed'
  BY <1>0 DEF IInv, HandleKept, AtMostOne, BatchedStatus, RunStatus, Busy, Backed
<1>3. RemovedIsAborted'
  BY <1>0 DEF IInv, RemovedIsAborted, HandleKept
<1>4. NameFindsLatest'
  BY <1>0 DEF IInv, NameFindsLatest, Named, DropNames, TypeOK
<1>5. SuccessRespectsMax' /\ RetriesLeft' /\ RunsLeft'
  BY <1>0 DEF IInv, SuccessRespectsMax, RetriesLeft, RunsLeft
<1> QED BY <1>1, <1>2, <1>3, <1>4, <1>5 DEF IInv

(***************************************************************************)
(* What does not write the row, the handles or the executions.             *)
(***************************************************************************)
LEMMA QuietInv ==
    ASSUME IInv,
           UNCHANGED <<next_task_id, tasks, status, failure_count, executions_count, task_names,
                       scheduled_executions, batch, place, aborted>>,
           due' \subseteq TaskIds, closed' \subseteq Owned
    PROVE  IInv'
<1>1. TypeOK' /\ Known' /\ Fresh' /\ HandleKept' /\ AtMostOne' /\ BatchedStatus'
  BY DEF IInv, TypeOK, Known, Fresh, HandleKept, AtMostOne, BatchedStatus
<1>2. RunStatus' /\ Backed' /\ RemovedIsAborted' /\ NameFindsLatest'
  BY DEF IInv, RunStatus, Backed, RemovedIsAborted, NameFindsLatest, Named
<1>3. SuccessRespectsMax' /\ RetriesLeft' /\ RunsLeft'
  BY DEF IInv, SuccessRespectsMax, RetriesLeft, RunsLeft
<1> QED BY <1>1, <1>2, <1>3 DEF IInv

(***************************************************************************)
(* A claimed task has no run: a run has its handle stored, and a stored    *)
(* handle that is not finished keeps the task out of the batch.  Nor is it *)
(* in another batch, for it reads Scheduled.                               *)
(***************************************************************************)
LEMMA ClaimInv ==
    ASSUME IInv, NEW k \in Tickers, claim_due_tasks(k)
    PROVE  IInv'
<1> USE Pairs, SchedulerAssumption DEF claim_due_tasks, Claimable, Due
<1>0. /\ \A u \in tasks : u \in TaskIds /\ u < next_task_id
      /\ Claimable \subseteq tasks
      /\ \A u \in Claimable : status[u] = "Scheduled" /\ status'[u] = "Executing"
      /\ \A u \in TaskIds : u \notin Claimable => status'[u] = status[u]
      /\ \A l \in Tickers : l # k => batch'[l] = batch[l]
      /\ batch'[k] = Claimable
  BY DEF IInv, TypeOK, TaskIds
<1>a. \A e \in Executions : e[2] \in Claimable => place[e] = "none"
  BY DEF IInv, HandleKept, Unfinished
<1>b. \A e \in Executions : e[2] \in tasks /\ place[e] # "none"
                                => scheduled_executions'[e[2]] = scheduled_executions[e[2]]
  <2> SUFFICES ASSUME NEW e \in Executions, e[2] \in tasks, place[e] # "none"
               PROVE  scheduled_executions'[e[2]] = scheduled_executions[e[2]]
    OBVIOUS
  <2>1. Unfinished(e[2])
    BY DEF IInv, HandleKept, Unfinished
  <2>2. scheduled_executions'[e[2]] = {x \in scheduled_executions[e[2]] : Unfinished(e[2])}
    BY <1>0
  <2> HIDE DEF claim_due_tasks
  <2> QED BY <2>1, <2>2
<1>1. TypeOK' /\ Known' /\ Fresh'
  <2>1. batch' \in [Tickers -> SUBSET TaskIds]
    BY <1>0 DEF IInv, TypeOK
  <2>2. status' \in [TaskIds -> {"Scheduled", "Executing", "Completed", "Failed"}]
    BY DEF IInv, TypeOK
  <2>3. scheduled_executions' \in [TaskIds -> SUBSET Tickers]
    BY DEF IInv, TypeOK
  <2> QED BY <1>0, <2>1, <2>2, <2>3 DEF IInv, TypeOK, Known, Fresh
<1> HIDE DEF Claimable, Due
<1>2. HandleKept' /\ AtMostOne' /\ BatchedStatus'
  <2>1. HandleKept'
    BY <1>b DEF IInv, HandleKept
  <2>2. AtMostOne'
    <3> HIDE DEF claim_due_tasks
    <3>1. place' = place /\ tasks' = tasks
      BY DEF claim_due_tasks
    <3>2. \A l \in Tickers : \A u \in Claimable : u \notin batch[l]
      BY <1>0 DEF IInv, BatchedStatus
    <3> QED BY <1>0, <1>a, <3>1, <3>2 DEF IInv, AtMostOne
  <2>3. BatchedStatus'
    BY <1>0 DEF IInv, BatchedStatus
  <2> QED BY <2>1, <2>2, <2>3
<1>3. RunStatus' /\ Backed' /\ RemovedIsAborted'
  BY <1>0, <1>a DEF IInv, RunStatus, Busy, Backed, RemovedIsAborted
<1>4. NameFindsLatest'
  BY DEF IInv, NameFindsLatest, Named
<1>5. SuccessRespectsMax' /\ RetriesLeft' /\ RunsLeft'
  BY <1>0, <1>a DEF IInv, SuccessRespectsMax, RetriesLeft, RunsLeft
<1> QED BY <1>1, <1>2, <1>3, <1>4, <1>5 DEF IInv

(***************************************************************************)
(* A task that is spawned had no run; one that is skipped is gone.         *)
(***************************************************************************)
LEMMA SpawnInv ==
    ASSUME IInv, NEW k \in Tickers, NEW t \in TaskIds, spawn_scheduled_task(k, t)
    PROVE  IInv'
<1> USE Pairs, SchedulerAssumption DEF spawn_scheduled_task, SpawnGuard, MaySpawn, table
<1>0. PICK e \in Executions : e = <<k, t>> /\ e[1] = k /\ e[2] = t
  OBVIOUS
<1>1. /\ \A u \in tasks : u \in TaskIds
      /\ t < next_task_id /\ t \in batch[k]
      /\ \A l \in Tickers : l # k => batch'[l] = batch[l]
      /\ batch'[k] = batch[k] \ {t}
      /\ batch' \in [Tickers -> SUBSET TaskIds]
      /\ UNCHANGED <<next_task_id, tasks, status, due, failure_count, executions_count,
                     task_names, aborted, closed>>
  <2>1. \A u \in tasks : u \in TaskIds
    BY DEF IInv, TypeOK, TaskIds
  <2>2. t \in batch[k] /\ t < next_task_id
    BY DEF IInv, Known
  <2> QED BY <2>1, <2>2 DEF IInv, TypeOK
<1>2. t \in tasks => /\ \A f \in Executions : f[2] = t => place[f] = "none"
                     /\ status[t] = "Executing"
                     /\ \A l \in Tickers : t \in batch[l] => l = k
  BY <1>1 DEF IInv, AtMostOne, BatchedStatus
<1>3. t \in tasks <=> SpawnGuard(t)
  BY <1>2 DEF IInv, TypeOK, Unfinished
<1>4. CASE t \notin tasks
  <2>1. UNCHANGED <<scheduled_executions, place>>
    BY <1>3, <1>4
  <2>2. TypeOK' /\ Known' /\ Fresh' /\ HandleKept' /\ AtMostOne' /\ BatchedStatus'
    BY <1>1, <1>4, <2>1 DEF IInv, TypeOK, Known, Fresh, HandleKept, AtMostOne, BatchedStatus
  <2>3. RunStatus' /\ Backed' /\ RemovedIsAborted' /\ NameFindsLatest'
    BY <1>1, <1>4, <2>1 DEF IInv, RunStatus, Backed, RemovedIsAborted, NameFindsLatest, Named
  <2>4. SuccessRespectsMax' /\ RetriesLeft' /\ RunsLeft'
    BY <1>1, <1>4, <2>1 DEF IInv, SuccessRespectsMax, RetriesLeft, RunsLeft
  <2> QED BY <2>2, <2>3, <2>4 DEF IInv
<1>5. CASE t \in tasks
  <2>1. /\ place' \in [Executions -> Places]
        /\ place'[e] \in {"calling", "orphaned"} /\ place[e] = "none"
        /\ \A f \in Executions : f # e => place'[f] = place[f]
    <3>1. PICK q \in {"calling", "orphaned"} : place' = [place EXCEPT ![e] = q]
      BY <1>0, <1>3, <1>5 DEF AfterClose
    <3>2. q \in Places /\ place \in [Executions -> Places]
      BY <3>1 DEF IInv, TypeOK, Places
    <3> HIDE DEF spawn_scheduled_task
    <3> QED BY <3>1, <3>2, <1>0, <1>2, <1>5
  <2>2. /\ scheduled_executions' \in [TaskIds -> SUBSET Tickers]
        /\ scheduled_executions'[t] = {k}
        /\ \A u \in TaskIds : u # t => scheduled_executions'[u] = scheduled_executions[u]
    <3>1. scheduled_executions' = [scheduled_executions EXCEPT ![t] = {k}]
      BY <1>3, <1>5
    <3> HIDE DEF spawn_scheduled_task
    <3> QED BY <3>1 DEF IInv, TypeOK
  <2> HIDE DEF spawn_scheduled_task
  <2>3. TypeOK' /\ Known' /\ Fresh'
    <3>1. TypeOK'
      BY <1>1, <2>1, <2>2 DEF IInv, TypeOK
    <3>2. Known'
      <4>1. \A f \in Executions : place'[f] # "none" => f[2] < next_task_id'
        BY <1>0, <1>1, <2>1 DEF IInv, Known
      <4>2. \A l \in Tickers : \A u \in batch'[l] : u < next_task_id'
        BY <1>1 DEF IInv, Known
      <4>3. \A f \in aborted' : place'[f] # "none"
        BY <1>1, <2>1 DEF IInv, Known, TypeOK
      <4> QED BY <4>1, <4>2, <4>3 DEF Known
    <3>3. Fresh'
      BY <1>1 DEF IInv, Fresh
    <3> QED BY <3>1, <3>2, <3>3
  <2>4. HandleKept' /\ AtMostOne' /\ BatchedStatus'
    <3>1. HandleKept'
      BY <1>0, <1>1, <1>2, <1>5, <2>1, <2>2 DEF IInv, HandleKept, Known
    <3>2. AtMostOne'
      BY <1>0, <1>1, <1>2, <1>5, <2>1 DEF IInv, AtMostOne
    <3>3. BatchedStatus'
      BY <1>1 DEF IInv, BatchedStatus
    <3> QED BY <3>1, <3>2, <3>3
  <2>5. RunStatus' /\ Backed' /\ RemovedIsAborted' /\ NameFindsLatest'
    <3>1. RunStatus' /\ RemovedIsAborted'
      BY <1>0, <1>1, <1>2, <1>5, <2>1 DEF IInv, RunStatus, Busy, RemovedIsAborted
    <3>2. Backed'
      BY <1>0, <1>1, <1>2, <1>5, <2>1 DEF IInv, Backed
    <3>3. NameFindsLatest'
      BY <1>1 DEF IInv, NameFindsLatest, Named
    <3> QED BY <3>1, <3>2, <3>3
  <2>6. SuccessRespectsMax' /\ RetriesLeft' /\ RunsLeft'
    BY <1>0, <1>1, <1>2, <1>5, <2>1 DEF IInv, SuccessRespectsMax, RetriesLeft, RunsLeft
  <2> QED BY <2>3, <2>4, <2>5, <2>6 DEF IInv
<1> QED BY <1>4, <1>5

\* The scheduler starts in its inductive invariant,
LEMMA InitIInv == Init => IInv
<1> SUFFICES ASSUME Init PROVE IInv
  OBVIOUS
<1> USE SchedulerAssumption, Pairs DEF Init
<1>1. TypeOK
  BY DEF TypeOK, TaskIds, Places
<1>2. Known /\ Fresh /\ HandleKept /\ AtMostOne /\ BatchedStatus /\ RunStatus /\ Backed
  BY DEF Known, Fresh, HandleKept, AtMostOne, BatchedStatus, RunStatus, Busy, Backed
<1>3. RemovedIsAborted /\ NameFindsLatest /\ SuccessRespectsMax /\ RetriesLeft /\ RunsLeft
  BY DEF RemovedIsAborted, NameFindsLatest, Named, SuccessRespectsMax, RetriesLeft, RunsLeft
<1> QED BY <1>1, <1>2, <1>3 DEF IInv

\* every step keeps it,
LEMMA NextIInv == IInv /\ [Next]_vars => IInv'
<1> SUFFICES ASSUME IInv, [Next]_vars PROVE IInv'
  OBVIOUS
<1>1. CASE add_task
  BY <1>1, AddInv
<1>2. ASSUME NEW S, remove_tasks(S) PROVE IInv'
  BY <1>2, RemoveInv
<1>3. ASSUME NEW t \in TaskIds, becomes_due(t) PROVE IInv'
  BY <1>3, QuietInv DEF becomes_due, IInv, TypeOK
<1>4. ASSUME NEW k \in Tickers, claim_due_tasks(k) PROVE IInv'
  BY <1>4, ClaimInv
<1>5. ASSUME NEW k \in Tickers, close(k) PROVE IInv'
  BY <1>5, QuietInv DEF close, table, IInv, TypeOK
<1>6. ASSUME NEW k \in Tickers, NEW t \in TaskIds, spawn_scheduled_task(k, t) PROVE IInv'
  BY <1>6, SpawnInv
<1>7. ASSUME NEW e \in Executions, step(e) PROVE IInv'
  BY <1>7, Steps, StepInv DEF IInv
<1>8. CASE UNCHANGED vars
  BY <1>8, QuietInv DEF vars, table, IInv, TypeOK
<1> QED
  BY <1>1, <1>2, <1>3, <1>4, <1>5, <1>6, <1>7, <1>8 DEF Next

\* and so it holds throughout.
LEMMA Invariance == Spec => []IInv
  BY InitIInv, NextIInv, PTL DEF Spec

(***************************************************************************)
(* What the invariant gives.  Backed becomes ExecutingIsBacked, for a run  *)
(* of a task in the table has its handle and is not aborted; RetriesLeft   *)
(* becomes RetriesBounded when nothing runs.                               *)
(***************************************************************************)
LEMMA IInvSchedule == IInv => ScheduleInv
<1> SUFFICES ASSUME IInv PROVE ScheduleInv
  OBVIOUS
<1>0. \A u \in tasks : u \in TaskIds
  BY SchedulerAssumption DEF IInv, TypeOK, TaskIds
<1>1. ExecutingIsBacked
  <2> SUFFICES ASSUME NEW t \in tasks, status[t] = "Executing",
                      ~ \E k \in Tickers : t \in batch[k]
               PROVE  \E k \in scheduled_executions[t] :
                         place[<<k, t>>] \notin {"none", "ending"} /\ <<k, t>> \notin aborted
    BY DEF ExecutingIsBacked
  <2>1. PICK e \in Executions : e[2] = t /\ place[e] \notin {"none", "ending"}
    BY DEF IInv, Backed
  <2>2. e[1] \in scheduled_executions[t] /\ e \notin aborted
    BY <2>1 DEF IInv, HandleKept
  <2>3. e = <<e[1], t>>
    BY <2>1, Pairs
  <2> QED BY <2>1, <2>2, <2>3
<1>2. RetriesBounded
  BY <1>0, Pairs DEF IInv, RetriesLeft, RetriesBounded, Running
<1> QED BY <1>1, <1>2 DEF IInv, ScheduleInv

\* A set without two different elements has at most one.
LEMMA AtMostOneCard ==
    ASSUME NEW A, \A x, y \in A : x = y
    PROVE  Cardinality(A) \in {0, 1} /\ (A # {} => Cardinality(A) = 1)
<1>1. CASE A = {}
  BY <1>1, FS_EmptySet
<1>2. CASE A # {}
  <2>1. PICK x \in A : A = {x}
    BY <1>2
  <2> QED BY <2>1, <1>2, FS_Singleton
<1> QED BY <1>1, <1>2

\* The inductive invariant leaves each task at most one execution.
LEMMA IInvOne == IInv => OneExecution
<1> SUFFICES ASSUME IInv, NEW t \in TaskIds
             PROVE  Cardinality(Running(t))
                        + Cardinality({k \in Tickers : t \in batch[k] /\ t \in tasks}) <= 1
  BY DEF OneExecution
<1> DEFINE R == Running(t)
           B == {k \in Tickers : t \in batch[k] /\ t \in tasks}
<1>1. \A x, y \in R : x = y
  BY Pairs DEF IInv, AtMostOne, Running
<1>2. \A x, y \in B : x = y
  BY DEF IInv, AtMostOne
<1>3. B # {} => R = {}
  BY Pairs DEF IInv, AtMostOne, Running
<1>4. Cardinality(R) \in {0, 1} /\ Cardinality(B) \in {0, 1}
  BY <1>1, <1>2, AtMostOneCard
<1>5. CASE B = {}
  BY <1>4, <1>5, FS_EmptySet
<1>6. CASE R = {}
  BY <1>4, <1>6, FS_EmptySet
<1> QED BY <1>3, <1>5, <1>6

(***************************************************************************)
(* The table of tasks (add_task, remove_task, claim_due_tasks and the      *)
(* updates of execute_single_task) keeps its invariant for any number of   *)
(* tickers, tasks, runs and names: a task that reads Executing has a batch *)
(* or a live execution behind it, names find the latest task, and the      *)
(* limits on successes and retries hold.                                   *)
(***************************************************************************)
THEOREM ScheduleSafe == Spec => []ScheduleInv
  BY Invariance, IInvSchedule, PTL

(***************************************************************************)
(* Any number of tickers claiming and spawning (claim_due_tasks,           *)
(* spawn_scheduled_task) never run one task twice at a time.               *)
(***************************************************************************)
THEOREM NeverTwice == Spec => []OneExecution
  BY Invariance, IInvOne, PTL

(***************************************************************************)
(* remove_scheduled_task reaches the execution at whatever moment it       *)
(* comes: nothing runs on for a removed task without having been aborted.  *)
(***************************************************************************)
THEOREM RemovalReaches == Spec => []RemovedIsAborted
<1>1. IInv => RemovedIsAborted
  BY DEF IInv
<1> QED BY <1>1, Invariance, PTL
=============================================================================
