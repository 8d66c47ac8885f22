--------------------------- MODULE TaskScheduler ---------------------------
(***************************************************************************)
(* Scheduled tasks: the task table of AppState (src/state/app_state.rs)    *)
(* and the tickers that execute what is due (src/cli/tasks.rs).            *)
(*                                                                         *)
(* Several tickers may share one AppState (dashboard, non-interactive      *)
(* runner, MCP service), each with its own 1 s timer.  A tick claims the   *)
(* due tasks under the state lock and then spawns them one by one; an      *)
(* execution calls the model, runs the actions, and writes its outcome     *)
(* back in several separately locked updates.  Meanwhile tasks are         *)
(* cancelled, and servers, connections and clients take their tasks with   *)
(* them.  A removal aborts the execution, which then stops at an await of  *)
(* its own choosing, so an aborted execution may still take some steps.    *)
(*                                                                         *)
(* An execution is the pair <<ticker, task id>>; the step it takes next is *)
(* in `place`.  Ids are never reused.  Time is the set of tasks whose      *)
(* next_execution has come.  The counts in the snapshot that an execution  *)
(* was claimed with are those of the table, since only its own execution   *)
(* changes them.  A panic inside an execution is left out.                 *)
(***************************************************************************)
EXTENDS Naturals, FiniteSets

CONSTANTS Tickers,        \* owners of a 1 s timer
          Owned,          \* those with a CancellationToken (not the dashboard)
          LastTask,       \* bound: ids 1..LastTask are handed out
          Names,          \* task names
          NameOf,         \* the name each id is created with
          OneShot,        \* ids of TaskType::OneShot; the others recur
          MaxExecutions,  \* max_executions of each recurring id; 0: None (Some(0)
                          \* behaves as Some(1))
          Scopes,         \* the sets of ids a server, connection or client owns
          MaxFailures,    \* MAX_FAILURES of handle_task_failure
          MaxRuns         \* bound: runs of one task

TaskIds == 1..LastTask

ASSUME SchedulerAssumption ==
    /\ Owned \subseteq Tickers
    /\ LastTask \in Nat
    /\ NameOf \in [TaskIds -> Names]
    /\ OneShot \subseteq TaskIds
    /\ MaxExecutions \in [TaskIds -> Nat]
    /\ Scopes \subseteq SUBSET TaskIds
    /\ MaxFailures \in Nat \ {0}
    /\ MaxRuns \in Nat

VARIABLES next_task_id,
          tasks,             \* ids in the table
          status,
          due,               \* ids with next_execution <= now
          failure_count,
          executions_count,
          task_names,        \* the id a name resolves to, as a set
          scheduled_executions, \* the ticker whose handle is stored, as a set
          batch,             \* claimed and not yet spawned, per ticker
          place,             \* the next step of each execution
          aborted,           \* executions whose handle was aborted
          closed             \* tickers whose token is cancelled

table == <<next_task_id, tasks, status, due, failure_count, executions_count, task_names>>
vars == <<table, scheduled_executions, batch, place, aborted, closed>>

Executions == Tickers \X TaskIds

Places == {"none", "calling", "no_model", "record_no_model", "record_success",
           "record_failure", "completed", "failed", "remove", "reschedule",
           "rearm", "orphaned", "ending"}

TypeOK ==
    /\ next_task_id \in 1..(LastTask + 1)
    /\ tasks \subseteq 1..(next_task_id - 1)
    /\ status \in [TaskIds -> {"Scheduled", "Executing", "Completed", "Failed"}]
    /\ due \subseteq TaskIds
    /\ failure_count \in [TaskIds -> Nat]
    /\ executions_count \in [TaskIds -> Nat]
    /\ task_names \in [Names -> SUBSET TaskIds]
    /\ scheduled_executions \in [TaskIds -> SUBSET Tickers]
    /\ batch \in [Tickers -> SUBSET TaskIds]
    /\ place \in [Executions -> Places]
    /\ aborted \subseteq Executions
    /\ closed \subseteq Owned

Init ==
    /\ next_task_id = 1
    /\ tasks = {}
    /\ status = [t \in TaskIds |-> "Scheduled"]
    /\ due = {}
    /\ failure_count = [t \in TaskIds |-> 0]
    /\ executions_count = [t \in TaskIds |-> 0]
    /\ task_names = [n \in Names |-> {}]
    /\ scheduled_executions = [t \in TaskIds |-> {}]
    /\ batch = [k \in Tickers |-> {}]
    /\ place = [e \in Executions |-> "none"]
    /\ aborted = {}
    /\ closed = {}

-----------------------------------------------------------------------------
\* A stored JoinHandle that is not finished.
Unfinished(t) == \E k \in scheduled_executions[t] : place[<<k, t>>] # "none"

\* add_task replaces the constructor's placeholder id; a later task takes
\* over the name of an earlier one.
add_task ==
    /\ next_task_id <= LastTask
    /\ next_task_id' = next_task_id + 1
    /\ tasks' = tasks \cup {next_task_id}
    /\ task_names' = [task_names EXCEPT ![NameOf[next_task_id]] = {next_task_id}]
    /\ UNCHANGED <<status, due, failure_count, executions_count,
                   scheduled_executions, batch, place, aborted, closed>>

\* remove_scheduled_task for every id of S that is in the table: abort the
\* execution, drop the entry, drop the name if it still means this task.
DropNames(S) == task_names' = [n \in Names |-> task_names[n] \ S]
RemoveTasks(S) ==
    /\ aborted' = aborted \cup {e \in Executions : /\ e[2] \in S
                                                   /\ e[1] \in scheduled_executions[e[2]]
                                                   /\ place[e] # "none"}
    /\ scheduled_executions' =
           [t \in TaskIds |-> IF t \in S THEN {} ELSE scheduled_executions[t]]
    /\ tasks' = tasks \ S
    /\ DropNames(S)
    /\ UNCHANGED <<next_task_id, status, due, failure_count, executions_count>>

\* remove_task (cancel_task), cleanup_server_tasks, cleanup_connection_tasks,
\* cleanup_client_tasks.
remove_tasks(S) ==
    /\ S \subseteq tasks
    /\ S # {}
    /\ RemoveTasks(S)
    /\ UNCHANGED <<batch, place, closed>>

\* The clock reaches next_execution.
becomes_due(t) ==
    /\ t \in tasks \ due
    /\ executions_count[t] < MaxRuns
    /\ due' = due \cup {t}
    /\ UNCHANGED <<next_task_id, tasks, status, failure_count, executions_count,
                   task_names, scheduled_executions, batch, place, aborted, closed>>

\* claim_due_tasks, by a ticker whose previous batch is spawned.
Due == {t \in tasks \cap due : status[t] = "Scheduled" /\ ~Unfinished(t)}
DueIgnoringActive == {t \in tasks \cap due : status[t] = "Scheduled"}
Claimable == Due
claim_due_tasks(k) ==
    /\ k \notin closed
    /\ batch[k] = {}
    /\ batch' = [batch EXCEPT ![k] = Claimable]
    /\ status' = [t \in TaskIds |-> IF t \in Claimable THEN "Executing" ELSE status[t]]
    /\ scheduled_executions' = [t \in TaskIds |-> {x \in scheduled_executions[t] : Unfinished(t)}]
    /\ UNCHANGED <<next_task_id, tasks, due, failure_count, executions_count,
                   task_names, place, aborted, closed>>

\* The cancelled branch of an execution's select: mark the task Failed.
JustReturn == "ending"
AfterClose == "orphaned"

\* spawn_scheduled_task: start the execution and store its handle, or skip a
\* claim that was removed meanwhile.  Its first poll looks at the token.
MaySpawn(t) == t \in tasks /\ status[t] = "Executing" /\ ~Unfinished(t)
SpawnUnchecked(t) == ~Unfinished(t)
SpawnGuard(t) == MaySpawn(t)
spawn_scheduled_task(k, t) ==
    /\ t \in batch[k]
    /\ batch' = [batch EXCEPT ![k] = @ \ {t}]
    /\ IF SpawnGuard(t)
       THEN /\ scheduled_executions' = [scheduled_executions EXCEPT ![t] = {k}]
            /\ place' = [place EXCEPT ![<<k, t>>] =
                             IF k \in closed THEN AfterClose ELSE "calling"]
       ELSE UNCHANGED <<scheduled_executions, place>>
    /\ UNCHANGED <<table, aborted, closed>>

-----------------------------------------------------------------------------
\* Execution steps.  The updates of the table do nothing once the task is gone.
Goto(e, p) == place' = [place EXCEPT ![e] = p]

SetStatus(t, s) == status' = IF t \in tasks THEN [status EXCEPT ![t] = s] ELSE status

\* execute_single_task: the LLM call and its actions end one way or another.
call_ends(e, p) ==
    /\ place[e] = "calling"
    /\ p \in {"record_success", "record_failure", "no_model"}
    /\ Goto(e, p)
    /\ UNCHANGED <<table, scheduled_executions, batch, aborted, closed>>

\* record_task_execution, and the branch handle_task_success or
\* handle_task_failure takes on the counts of the claimed snapshot, which are
\* those before this run.
Record(e, ok) ==
    LET t == e[2] IN
    /\ failure_count' = IF t \notin tasks THEN failure_count
                        ELSE [failure_count EXCEPT ![t] = IF ok THEN 0 ELSE @ + 1]
    /\ executions_count' = IF t \notin tasks \/ t \in OneShot THEN executions_count
                           ELSE [executions_count EXCEPT ![t] = @ + 1]
    /\ UNCHANGED <<next_task_id, tasks, status, due, task_names,
                   scheduled_executions, batch, aborted, closed>>

ReachesMax(t) == executions_count[t] + 1 >= MaxExecutions[t]
record_success(e) ==
    /\ place[e] = "record_success"
    /\ Record(e, TRUE)
    /\ Goto(e, IF e[2] \in OneShot \/ (MaxExecutions[e[2]] > 0 /\ ReachesMax(e[2]))
               THEN "completed" ELSE "reschedule")

GivesUp(n) == n >= MaxFailures
record_failure(e) ==
    /\ place[e] = "record_failure"
    /\ Record(e, FALSE)
    /\ Goto(e, IF GivesUp(failure_count[e[2]] + 1) THEN "failed" ELSE "reschedule")

\* No model can be selected: the task fails at once and for good.
record_no_model(e) ==
    /\ place[e] = "record_no_model"
    /\ Record(e, FALSE)
    /\ Goto(e, "ending")

\* update_task_status, on the five paths that use it.
set_status(e) ==
    /\ \/ place[e] = "completed" /\ SetStatus(e[2], "Completed") /\ Goto(e, "remove")
       \/ place[e] = "failed" /\ SetStatus(e[2], "Failed") /\ Goto(e, "remove")
       \/ place[e] = "no_model" /\ SetStatus(e[2], "Failed") /\ Goto(e, "record_no_model")
       \/ place[e] = "rearm" /\ SetStatus(e[2], "Scheduled") /\ Goto(e, "ending")
       \/ place[e] = "orphaned" /\ SetStatus(e[2], "Failed") /\ Goto(e, "ending")
    /\ UNCHANGED <<next_task_id, tasks, due, failure_count, executions_count,
                   task_names, scheduled_executions, batch, aborted, closed>>

\* remove_task, on the task's own behalf.
remove_self(e) ==
    /\ place[e] = "remove"
    /\ RemoveTasks({e[2]})
    /\ Goto(e, "ending")
    /\ UNCHANGED <<batch, closed>>

\* update_task_next_execution: the interval, or the backoff after a failure.
reschedule(e) ==
    /\ place[e] = "reschedule"
    /\ due' = IF e[2] \in tasks THEN due \ {e[2]} ELSE due
    /\ Goto(e, "rearm")
    /\ UNCHANGED <<next_task_id, tasks, status, failure_count, executions_count,
                   task_names, scheduled_executions, batch, aborted, closed>>

\* checked_task_deadline fails: the task stays in the table as Failed.
deadline_overflow(e) ==
    /\ place[e] = "reschedule"
    /\ SetStatus(e[2], "Failed")
    /\ Goto(e, "ending")
    /\ UNCHANGED <<next_task_id, tasks, due, failure_count, executions_count,
                   task_names, scheduled_executions, batch, aborted, closed>>

\* The future has returned; now its JoinHandle reads as finished.
finish(e) ==
    /\ place[e] = "ending"
    /\ Goto(e, "none")
    /\ aborted' = aborted \ {e}
    /\ UNCHANGED <<table, scheduled_executions, batch, closed>>

\* An abort takes effect at an await: the future is dropped.
abort(e) ==
    /\ e \in aborted
    /\ place[e] # "none"
    /\ Goto(e, "none")
    /\ aborted' = aborted \ {e}
    /\ UNCHANGED <<table, scheduled_executions, batch, closed>>

\* The owner's service closes: its ticker stops after the current batch.
close(k) ==
    /\ k \in Owned \ closed
    /\ closed' = closed \cup {k}
    /\ UNCHANGED <<table, scheduled_executions, batch, place, aborted>>

\* The biased select in the execution sees the cancelled token at an await,
\* drops the rest of the execution and goes on to mark the task Failed.
owner_closed(e) ==
    /\ e[1] \in closed
    /\ place[e] \notin {"none", "orphaned", "ending"}
    /\ Goto(e, AfterClose)
    /\ UNCHANGED <<table, scheduled_executions, batch, aborted, closed>>

step(e) == \/ \E p \in Places : call_ends(e, p)
           \/ record_success(e) \/ record_failure(e) \/ record_no_model(e)
           \/ set_status(e) \/ remove_self(e)
           \/ reschedule(e) \/ deadline_overflow(e) \/ finish(e)
           \/ abort(e) \/ owner_closed(e)

Next == \/ add_task
        \/ \E S \in Scopes : remove_tasks(S \cap tasks)
        \/ \E t \in TaskIds : remove_tasks({t}) \/ becomes_due(t)
        \/ \E k \in Tickers : claim_due_tasks(k) \/ close(k)
        \/ \E k \in Tickers, t \in TaskIds : spawn_scheduled_task(k, t)
        \/ \E e \in Executions : step(e)

Spec == Init /\ [][Next]_vars

\* Timers keep ticking, batches are spawned, and executions run to their end
\* (the LLM call has a timeout).
Fairness == /\ \A k \in Tickers : WF_vars(claim_due_tasks(k))
            /\ \A e \in Executions : WF_vars(spawn_scheduled_task(e[1], e[2]))
            /\ \A e \in Executions : WF_vars(step(e))

FairSpec == Spec /\ Fairness

-----------------------------------------------------------------------------
Running(t) == {k \in Tickers : place[<<k, t>>] # "none"}

(***************************************************************************)
(* A task that reads Executing has somebody to finish it: it is in a batch *)
(* that will be spawned, or an execution of it is under way, not aborted.  *)
(* Otherwise it is never claimed again ("could leave claimed tasks without *)
(* an executor", src/mcp_stdio/tools.rs), and a non-interactive run, which *)
(* waits for it, never exits.                                              *)
(***************************************************************************)
ExecutingIsBacked ==
    \A t \in tasks : status[t] = "Executing" =>
        \/ \E k \in Tickers : t \in batch[k]
        \/ \E k \in scheduled_executions[t] :
              /\ place[<<k, t>>] \notin {"none", "ending"}
              /\ <<k, t>> \notin aborted

(***************************************************************************)
(* Concurrent tickers never run one task twice at a time, not even while   *)
(* an earlier run is just returning ("finishing execution cannot be        *)
(* reclaimed"), and never hold it in two batches.                          *)
(***************************************************************************)
OneExecution ==
    \A t \in TaskIds :
        Cardinality(Running(t)) + Cardinality({k \in Tickers : t \in batch[k] /\ t \in tasks}) <= 1

(***************************************************************************)
(* Nothing runs on for a task that was removed: whatever moment between    *)
(* claim, spawn and completion the removal hits, the execution of a        *)
(* removed task has been aborted or is returning.                          *)
(***************************************************************************)
RemovedIsAborted ==
    \A e \in Executions : (place[e] \notin {"none", "ending"} /\ e[2] \notin tasks) => e \in aborted

(***************************************************************************)
(* A name resolves to the task that took it last, while that task is in    *)
(* the table, and to nothing otherwise: removing an older task of the same *)
(* name does not hide the newer one from cancel_task.                      *)
(***************************************************************************)
Named(n) == {t \in 1..(next_task_id - 1) : NameOf[t] = n}
NameFindsLatest ==
    \A n \in Names :
        task_names[n] = {t \in Named(n) \cap tasks : \A u \in Named(n) : u <= t}

(***************************************************************************)
(* max_executions counts the run that just succeeded: a recurring task     *)
(* that waits for its next run after a success has runs left.              *)
(***************************************************************************)
SuccessRespectsMax ==
    \A t \in tasks \ OneShot :
        (MaxExecutions[t] > 0 /\ status[t] = "Scheduled" /\ failure_count[t] = 0)
            => executions_count[t] < MaxExecutions[t]

(***************************************************************************)
(* A task is retried at most MAX_FAILURES - 1 times in a row: one that     *)
(* still waits for a run has failed less often than that.                  *)
(***************************************************************************)
RetriesBounded ==
    \A t \in tasks : status[t] \in {"Scheduled", "Executing"} /\ Running(t) = {}
                         => failure_count[t] < MaxFailures

(***************************************************************************)
(* "maximum number of times to execute" (schedule_task's documentation of  *)
(* max_executions in src/llm/actions/common.rs).                           *)
(***************************************************************************)
ExecutionsWithinMax ==
    \A t \in TaskIds \ OneShot :
        MaxExecutions[t] > 0 => executions_count[t] <= MaxExecutions[t]

(***************************************************************************)
(* A task that is due is run to an end: it gets a new date, is removed, or *)
(* reads Failed.  No handle of an earlier run, no race between tickers and *)
(* no ticker that closes under its execution leaves it waiting or          *)
(* Executing for ever, as long as one ticker stays open.                   *)
(***************************************************************************)
DueTaskRuns ==
    \A t \in TaskIds : t \in tasks \cap due
                           ~> (t \notin tasks \cap due \/ status[t] = "Failed")

(***************************************************************************)
(* The invariant of the table of tasks: its types, an owner for every task *)
(* that reads Executing, the latest task behind every name, and the two    *)
(* limits on runs.                                                         *)
(***************************************************************************)
ScheduleInv ==
    /\ TypeOK /\ ExecutingIsBacked /\ NameFindsLatest
    /\ SuccessRespectsMax /\ RetriesBounded
=============================================================================
