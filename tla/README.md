# Formal model of netget

netget runs servers and clients for a few hundred network protocols and lets an
LLM, a script, a static rule, a human or an MCP agent decide what they answer.
The wire protocols are many, independent and mostly parsing. What is hard in this
program is shared by all of them: the path an LLM call takes (admission, budget,
backend health, the agent queue), the state that timers, background tasks and
operators change at once (tasks, servers, clients, pipes, intercepts), and the
connection machinery the protocol servers are built on (accept, idle bound,
queueing of reads, injected commands). This directory models that shared core in
TLA+, checks it with TLC and proves its safety with TLAPS.

Paths in this file are relative to the repository root (`src/llm/...`); in
`PROJECT.json` they carry the prefix `src/`.

To run: `tlc -config Streams.cfg Streams`, and likewise for every pair under `runs` in
`PROJECT.json`; `tlapm StreamsProofs.tla`, and likewise for every `...Proofs` module.

## 1. Inventory

### How the parts interact

    protocol server / client            user input, dashboard        MCP agent
      | accept, idle watch,                     |                       |
      | queue of reads          injected commands                       |
      |  event                                  |                       |
      v                                         v                       |
      event handler executor  ----------> conversation loop             |
       | script  | static | manual              |                       |
       v         v        v                     v                       |
    resident   (none)  intercepts        rate limiter --> gate          |
    script                                      |                       |
                                                v                       |
                                         circuit breaker --> backend    |
                                                 or agent queue <-------+
    ticker(s) --> scheduled tasks --> conversation loop
    AppState: servers, clients, tasks, pipes, intercepts, histories (one RwLock)

Everything runs on one tokio runtime. Shared state is behind short mutexes or the
`AppState` lock, which are never held over an await; each stretch between two
awaits or lock operations is therefore one step of a model, and the questions are
about what happens between the stretches. A future may be dropped at any await: a
server that stops aborts its tasks, a client that disconnects drops the request.
Cancellation is the most common "failure" of this program, and nearly every guard
object in it (`BreakerPermit`, `QueueSlot`, `ConcurrencyWait`,
`ConcurrencyPermit`, `StartupGuard`, `BusyGuard`, `RestoreOwnership`) exists for
it. Nothing that the core keeps in memory is persisted while it changes, so there
is no crash recovery to model; a saved session is read back by `SessionRestore`.

### Components

| component | state | operations | what is hard | what makes it correct |
|---|---|---|---|---|
| circuit breaker, `llm/circuit_breaker.rs` | failure count, `opened_at`, generation, probe flag | acquire, report through a lease, drop of a lease, direct record and reset | outcomes of requests admitted before a trip; cancelled probes | flag always backed by a live probe; one probe; no traffic in the cooldown; it recovers |
| concurrency gate, `llm/rate_limiter.rs` | limit, active count, queue of wakers | fast path, poll, drop of a wait or a permit, resize, wake | a hand-written future: wakes are cloned under the lock and called after it | no lost wakeup, exact count, FIFO, limit |
| rate limiter, `llm/rate_limiter.rs` | queue depth, waiting users, token records | acquire_permit, record_usage, update_config | cancellation at each await; budget stale after the wait; timeout racing with admission | exact counters, bounded queue, bounded overspend, network requests always return |
| agent queue, `llm/agent_queue.rs` | entries in order, claimed flags, oneshot senders, Notify | submit, claim_next, wait_and_claim, answer, expire | sleep against submit; answer against timeout; two agents; a caller that is torn down | no lost wakeup; it is a rendezvous |
| manual intercepts, `state/app_state.rs`, `llm/event_handler_executor.rs` | parked events with oneshots | park, resolve, dismiss, time out | answer against timeout and dismissal | one way to wake each dispatcher; it is a rendezvous |
| resident scripts, `scripting/resident.rs` | registry, process, pipes, lock | dispatch, round trip, evict, shut down | the unread answer of an earlier event; prints on the reply pipe; a shutdown during a round trip | a reply belongs to its event; nothing hangs on a wedged script |
| scheduled tasks, `state/app_state.rs`, `cli/tasks.rs` | task table, names, handles of executions | add, remove (by id or owner), claim, spawn, outcome handlers | several tickers, removal or shutdown between claim, spawn and the three writes of an outcome | one execution at a time, an Executing task has an executor, nothing runs on for a removed task |
| server and client lifecycle, `state/app_state.rs`, `cli/*_startup.rs` | rows, status, workers, peer and command handles, LLM budget | add, start, register, close, hang up, remove, reap | registering against removing, a start that fails or is cancelled | nothing outlives its row; workers die; no zombie row |
| pipes, `pipe/mod.rs` | directed edges between servers, deliveries in flight | add, remove, forward, teardown | edges and servers that change under a delivery | no cycle, cascades die out |
| save and load, `utils/save_load.rs` | the ownership record of a restore | start, add, roll back, drop | failure or cancellation half way, also of the rollback | all or nothing |
| command channels, `state/client_handles.rs`, `server/peer_support.rs` | bounded channel, replies | send, execute, reply, drop | the other side ends; a worker that aborts itself | nobody waits for ever; "not taken" means not executed |
| MCP drain, `mcp_stdio/drain.rs` | outstanding requests | receive, respond, end of input | input ends while answers are due; the receive future is dropped and made again | no response lost, the end is reported |
| bounded accept and idle watch, `server/accept_bounded.rs` | permits, work in flight, last activity | accept, refuse, begin and end work, watchdog | two atomics read one by one; a watchdog in a task of its own; peers that never read or leave; a listener that fails | slots conserved, live peers probed in time, working ones not taken for idle, dead ones closed |
| TCP connection, `server/tcp/mod.rs` | state, queue of bytes with chunk lengths | read, queue, merge, ask, write, hold, hang up | one task per read, the state looked at and changed under separate locks; a write half that a blocked write keeps | no read lost or shown twice; never wedged; bounded; every task ends |
| WebSocket connection, `server/websocket/mod.rs` | state, queue, held message | enqueue, take, hold, clear | a frame that arrives as the handler ends | one handler, arrival order |
| conversation loop, event handlers, feedback, histories, MCP tools, LLM bridge, SQLite store, prompts, UI, protocols | | | | not modelled, see section 8 |

The full list with sources is `components` in `PROJECT.json`; what can go wrong and
is hard to test is listed line by line under `hazards`. Three further hazards have
no property: a user request that waits for tokens polls and reserves nothing, so
network requests may starve it (`llm/rate_limiter.rs:416`); one failed model
selection ends a recurring task (`cli/tasks.rs:191`); and a panic inside an
execution leaves its task Executing (`state/app_state.rs:2864`).

## 2. Modules

| module | models |
|---|---|
| `BreakerSpec` | what the breaker promises: three modes, set of probers, cooldown |
| `CircuitBreaker` | the breaker with leases and generations; refines `BreakerSpec` |
| `ConcurrencyGate` | the FIFO gate, with delivery of wakers as a step |
| `RateLimiter` | `acquire_permit` and the call after it; EXTENDS `ConcurrencyGate`, whose actions it conjoins |
| `Rendezvous` | what a question with one answer and a deadline promises |
| `AgentQueue` | queue, submitting servers and agent tool calls; refines `Rendezvous` |
| `Intercepts` | pending list, dispatchers and operators; refines `Rendezvous` |
| `ResidentScripts` | one scope: registry, processes, dispatches, shutdown of the owner |
| `TaskScheduler` | task table, tickers, executions |
| `PipeGraph` | the reference definitions: reachability, acyclicity |
| `PipeSearch` | the loop of `would_create_cycle`, checked against `PipeGraph` |
| `Pipes` | table of pipes, dispatch and delivery |
| `ServerLifecycle`, `ClientLifecycle` | rows, starts, workers, handles |
| `SessionRestore` | `restore_session` with its ownership record |
| `CommandChannel`, `PeerCommands` | actions injected into a client, into one connection of a server |
| `Drain` | the end of the MCP input |
| `BoundedAccept`, `IdleWatch` | the cap, the watchdog |
| `Connections` | composes the two: a watched connection occupies a slot and gives it back when the watchdog fires |
| `TcpConnection`, `WebSocketInbound` | what a peer sends, from the read to the model |
| `Questions` | the three places an event waits for an answer from outside, side by side: `AgentQueue`, `Intercepts`, `ResidentScripts` |
| `AppState` | the tables of `AppState` side by side: `Pipes`, `PipeSearch`, `ServerLifecycle`, `ClientLifecycle`, `SessionRestore` |
| `Calls` | the calls that wait for another task, side by side: `CommandChannel`, `PeerCommands`, `Drain` |
| `Streams` | `TcpConnection` and `WebSocketInbound` side by side |
| `CircuitBreakerProofs`, `RateLimiterProofs`, `QuestionsProofs`, `TaskSchedulerProofs`, `AppStateProofs`, `CallsProofs`, `ConnectionsProofs`, `StreamsProofs` | theorems about the module whose name they begin with, and about the modules it composes |
| `MC...` | the instances for TLC |

Each component has an invariant that is a conjunction of named parts (`TcpInv` is
`TypeOK`, `ProcessingIsBacked`, `EachReadOnce`, `ChunksCoverQueue` and
`QueueBounded`); the run checks the conjunction, and the parts are stated and
explained in the component's module. Every one of these conjunctions is also proved
(section 5).

Some definitions exist only to name a plausible mistake (`PassOnNever`,
`TimerWins`, `PopFirst`): each stands beside the definition it would
replace, and `mutants` in `PROJECT.json` says which property notices the
replacement. They are used nowhere else.

### CircuitBreaker

One variable per field of `Inner`; `opened_at` is `open` plus `elapsed`, which
saturates at the cooldown because the code only compares it with the cooldown.
`permits`, `probes` and `permit_generation` are the `BreakerPermit` values that
requests hold across their await. Actions: `acquire`, `permit_record_success`,
`permit_record_failure`, `permit_drop` (`Drop`), the lease-less `record_success`
(also `reset`) and `record_failure`, and the clock. A refused `acquire` changes nothing and is a
stuttering step. A backend that answers with an HTTP error counts as success
(`record_backend_outcome`).
`generation` is a natural number: it would take 2^64 trips inside one request to
make the wrap matter.

### ConcurrencyGate

`waking` holds the wakers that were cloned under the lock and not yet called,
`woken` the tasks the executor owes a poll. `poll` is also possible without a wake
(a future may be polled spuriously, and `select` does so). The u64 ids of queue
entries are not kept: a task has one wait at a time, so it is its own id.

### RateLimiter

`at[r]` is the program counter of a request, one place per await: budget check,
fast path, slot taken, waiting, error being returned with the slot still held, budget
check with the permit held, running, recorded. The gate's actions are conjoined
(`try_acquire_owned`, `poll_new`, `poll`, `drop_wait`, `drop_permit`). `cancel`
is possible at every place inside `acquire_permit` and drops what is held there. Tokens are counted in calls, one each, and
a record ages out by an action of the clock. `take_slot` merges the failed
fast path with the `fetch_add` that follows: no await lies between them, and
what other threads may do in between (take or give back a permit) commutes with
the increment. Of `update_config` only the new `max_concurrent` is modelled, so
this component is listed as partly modelled.

### Rendezvous, AgentQueue, Intercepts

`Rendezvous` is the promise both lists make to the server that asks and to the
person or agent that answers: an answer is acknowledged at most once and only
while the asker listens, and an asker whose answer was acknowledged before its
deadline fired receives it. It allows one loss, between the moment the deadline
fires and the drop of the receiver: that window is in the code of both.

`AgentQueue`, server side: `submit` under the lock, `notify_waiters` after it, then receive,
time out (receiver dropped), `expire`, or cancellation by the runtime. Agent side:
look, register (a step of its own), look again, sleep, give up; or take a sender under the lock and
send after it. `tokio::time::timeout` polls the inner future before the timer,
so `time_out` needs an empty channel; `Notify::notify_waiters` completes every
`Notified` that has been created, polled or not.

`Intercepts` has the same two sides with a human: `resolve_intercept` takes the
entry under the state lock and sends after it; `dismiss_intercept` drops the
sender, which the dispatcher sees at once; the entry of a cancelled dispatcher is
pruned by the next `park` or `list`.

### ResidentScripts

One scope of one server or client with its processes. `io` says whether a process
is in its slot, in the hands of the dispatch that talks to it, or dead; `asked`
and `said` are the lines in its two pipes, so an unread reply can be seen by the
next reader. The harness that the code wraps around a script answers each event
with one line (`child_answers`), on the standard output that it shares with the
script: a process in `Noisy` may also print lines of its own at any moment
(`child_prints`). A process may stop answering at any moment (`wedged`) or die.
`cancel` drops a dispatch at any await.

### TaskScheduler

A ticker claims all due tasks in one locked step and spawns them one by one; each
spawned execution is a pair (ticker, id) whose next step is in `place`: the call,
then `record_task_execution`, then `update_task_status`, removal or
`update_task_next_execution`, each a locked update of its own. `remove_tasks`
stands for `remove_task` and the three `cleanup_*_tasks`. A removal aborts; the
aborted execution takes further steps until the runtime drops it at an await
(`abort`). `close` cancels a ticker's token and `owner_closed` is the biased
`select` that then marks the task Failed.

### PipeGraph, PipeSearch, Pipes

`Pipes` decides `add_pipe` by the reference definition of reachability;
`PipeSearch` shows, on every graph of three nodes and every pair, that the loop in
the code gives that answer. A dispatch takes a snapshot of the matching pipes under
the lock and works it off afterwards; a delivery runs detached with a permit. A
target may be gone by then, or another server may listen on its address: deliveries
go to whoever is there, and the event that causes feeds that server's own pipes.

### ServerLifecycle, ClientLifecycle

`start` (and `dial` for a client) is the program counter of the starting future,
`worker` the life of each spawned task: spawned, registration pending, registered,
aborted, over. An aborted worker runs on until the runtime polls it, and may spawn
others meanwhile. `SpawnCleanup` is the drop of a `StartupGuard` that is still
armed. `close_server` only marks the row; `cleanup_old_servers` removes rows that
are Stopped. The client's LLM budget (`try_consume_client_llm_call`) is part of
`ClientLifecycle` because the counter must go with the row.

### SessionRestore

`table` is what exists, `owned` the ownership record, `cleanup` what a dropped
restore handed to a spawned task. The record is filled right after each creation,
and `rollback` takes an id off only after its removal has returned, so that a drop
in the middle finds it. Others may remove an instance meanwhile. `NothingLeftOver` is
the purpose of the record: a restore that failed, or was dropped and cleaned up, leaves
no instance, pipe or routing entry.

### CommandChannel, PeerCommands

A caller clones the handle, sends into a bounded channel, awaits a oneshot. The
client loop of `CommandChannel` executes, records, replies; it may end at each
await. In `PeerCommands` the worker that carries out an injected disconnect closes
the connection it belongs to, and so aborts itself: from then on it ends at the
next wait for the state lock. `execute` waits for the write half and writes to the
peer without a timeout, so it is an action that may never happen.

### Drain

`receiver` is rmcp's receive future, dropped and made again whenever another event
wins the `select`; `deadline` is shared by all of them. A response is written,
forgotten under the mutex and notified in three steps.

### BoundedAccept, IdleWatch, Connections

The accept loop takes one peer at a time and refuses under a timeout; an error of
the listener ends it (`listener_fails`: the callers leave their loop). The watchdog
reads `in_flight` and `last` one by one; work begins and ends with two accesses
each, and may begin when the watchdog has already fired, since nothing in
`begin_work` looks. `Connections` follows one peer through both: its connection is
watched from admission on, a watchdog that fires ends the reader some time later
(`idle_close`; in PostgreSQL it is another task that aborts), and the slot comes back
when the last holder of the permit drops it (`last_drop`; in WebSocket that may be the
writer task). A peer that stops talking is "dead", its host gone without a FIN, or
"silent", its host there but nothing read or written.

### TcpConnection, WebSocketInbound

Both are the state machine Idle / Processing / Accumulating. In the TCP server each
read runs in a task of its own and takes the connection's mutex anew for every
access, so each locked section is a step and tasks overlap; `data[t]` is what a task
holds, `queued` and `chunks` are `queued_data` and `queued_chunks`. The bytes of an
answer are written under the write half's mutex (`lock_write`, `write`), which a close
needs too (`shutdown`); several writes of one answer are one here, and whether the
write succeeds makes no difference to what follows. The operator's commands write
through the same mutex; for the tasks here that is one more holder that may block. In the WebSocket
server the read loop queues, and a handler goes back to Idle under the lock under
which it found the queue empty. `overtaken` remembers that a message was held back
while others were queued, the one case in which the order changes.

## 3. Runs

`Questions`, `AppState`, `Calls` and `Streams` put several components side by side:
exactly one of them is explored in each behaviour (the variable `used`, `table` or
`kind`), the others stay in an initial state in which none of their fair actions is
enabled. They share no state, so nothing is lost, and the states add up instead of
multiplying.

| run | instance | states | properties | what it shows |
|---|---|---|---|---|
| `breaker` | 3 requests, threshold 2, cooldown 2, saturation at 3, 5 faults, 2 direct calls | 36,387 | `ProbeIsBacked`, `ImplementsBreakerSpec`, `Recovers` | however reports, cancellations and direct calls overlap, a set probe flag has its one live probe, the whole refines the abstract breaker, and it closes for good once faults stop |
| `limiter` | 1 user, 2 network requests, limit 1 resized twice to 0 or 2, queue bound 1, budget 1 | 52,520 | `NoLostWakeup`, `NoOvertaking`, `Served`, `LimiterInv`, `BudgetOvershootBounded`, `NetworkReturns` | no schedule of undelivered wakes, cancellations and resizes loses a wakeup, leaks a slot or a counter or lets anybody overtake; the budget is overspent by less than the calls that may run at once; a network request always gets its permit or an error |
| `questions` | agent queue: 2 requests, 2 agent calls; intercepts: 3 events, 2 operators; scripts: 2 events, 2 processes (one noisy), 1 unread line | 144,786 | `QueueInv`, `ImplementsRendezvous`, `PendingInv`, `PendingImplementsRendezvous`, `ScriptInv`, `EventsGoOn` | no long-poll sleeps through a request, every waiting asker has exactly one sender, both lists implement the rendezvous, the reply of a script that does not print belongs to its event, a shutdown leaves no process, and neither a dismissal nor a wedged script holds anybody up |
| `agent_queue_abandoned` | 1 of each | | `AbandonedLeavesQueue` (violated) | finding 1 |
| `scheduler` | 2 tickers, 2 tasks of one name, max_executions 2, MAX_FAILURES 2 | 118,554 | `ScheduleInv`, `OneExecution`, `RemovedIsAborted`, `DueTaskRuns` | removal, shutdown and rival tickers at any point leave no orphan in either direction, and a due task is run to an end |
| `scheduler_max` | 2 tickers, 1 recurring task, max_executions 2 | | `ExecutionsWithinMax` (violated) | finding 2 |
| `app_state` | pipes: 3 servers, 3 pipe ids, 1 event, 1 permit; search: all graphs of 3 nodes; 1 server, 1 connection, 2 workers; 1 client, 2 workers; session of 2 servers, pipe, wrapper, task | 90,001 | `PipesInv`, `SearchInv`, `PipesSettle`, `NothingOutlivesOwner`, `WorkersStop`, `NoZombieRow`, `SessionInv`, `AllOrNothing` | no delivery cycle and no dangling pipe, a search that ends with the right answer, nothing left of a server, connection or client that is gone, workers that die, no row left by a failed or cancelled start, a session restored whole or not at all |
| `server_orphaned_schedule` | as `app_state` | | `NoOrphanedSchedule` (violated) | finding 3 |
| `calls` | client: 3 callers, capacity 2; peer: 2 callers, capacity 1; drain: 3 requests, 2 drops | 40,958 | `CommandInv`, `PeerInv`, `CallsSettle`, `DrainInv`, `DrainEnds` | a command reported as not taken is never executed, "disconnected" is true, no call is left waiting by a side that ends, even one that was blocked in a write, and the end of input is reported neither too early nor never |
| `connections` | 3 peers, requested cap 0 (that is, 1), idle bound 4 ticks, 1 handler | 42,061 | `AcceptInv`, `KeepsAccepting`, `WatchInv`, `FiresOnlyWhenIdle`, `VanishedPeerFreesSlot` | slots are conserved, every peer is answered and the server keeps admitting while the listener works, a live peer is probed in every silent stretch, the watchdog fires neither on work nor (but for the window in `end_work`) on a live peer, and a peer that vanished gives its slot back |
| `streams` | TCP: 3 reads, or the connect event and 2 reads, queue bound 1; WebSocket: 4 frames, batches of 2 | 222,380 | `TcpInv`, `WsInv`, `EveryTaskEnds` | no read is lost, shown twice or cut, the connection never wedges, a queue above its bound is being closed; one WebSocket handler, frames in order; every task ends however often the model asks for more, unless a write does not |
| `tcp_overlapping_calls` | as `streams` | | `OneCallAtATime` (violated) | finding 4 |

### Bounds, and why they are enough

* Three requests in the breaker: one that trips it, one stale lease from before
  the trip, one probe. Threshold 2 separates "count" from "trip"; saturation at 3
  lies above the threshold so that a probe failing at the top happens.
  `MaxFaults` and `MaxOverrides` only make the state space finite (generations
  grow).
* Three tasks in the limiter: a holder, the front and its successor or a newcomer
  on the fast path. A limit of 0 stalls the queue and 2 admits several at once;
  queue bound 1 and budget 1 make full queue and empty budget ordinary states.
* Two agent calls and two requests, two operators and three events: two answers
  contend for one request while another is queued. Two processes: the one that
  failed and its successor.
* Two tickers and two tasks: rival claims, a closing owner beside an open one, a
  shared name. MAX_FAILURES is 2 instead of 5 (a constant of the module), so that
  it is reached within `MaxRuns` = 3.
* Three servers and three pipes are the smallest cycle longer than a pair. Two
  workers: one that is registered and one whose registration is late; in
  `ServerLifecycle` one belongs to the server and one to its connection.
* Capacity 1 and 2 with one caller more: the queue is full while a command is in
  hand.
* Three peers for one slot: one admitted, one being refused, one in the backlog.
  Four ticks are two half-idle stretches, so that a probe can be sent, answered and
  sent again.
* Three tasks of a TCP connection (three reads, or the connect event and two): one
  asking or writing, one queueing, one between its look at the state and its use of it.
  Queue bound 1 is exceeded by two reads.
  Four frames are two batches of two.
* The safety half of every run is proved for all instances (section 5), so these
  bounds matter for the liveness properties, for the findings and for the mutants.
* Where a cfg switches off the check for deadlock, the bounded system may really
  stop: every id, event or read has been used up, or the listener has failed.

## 4. Fairness

Weak fairness, with one exception, each item from the code:

* a runnable tokio task is polled; a cloned waker is called (`wake`); a task that
  waits for the `AppState` lock gets it (tokio's `RwLock` is fair); an aborted task
  is dropped at its next poll;
* an LLM call ends: the HTTP client and the queue backend both have a timeout, so
  a lease, a permit, an execution or a read's task does not stay out for ever;
* timers fire: cooldown clock, queue timeout of network requests, caller's deadline
  in the agent queue, one-second tick, ageing of token records, the deadline of a
  script's round trip, the watchdog's tick, the timeout of a refusal;
* a write to a host that is gone ends with an error, when the kernel stops
  retransmitting (`WritesFail`, external; only `VanishedPeerFreesSlot` needs it);
* while the listener works its backlog is first come, first served: strong fairness of
  `accept`;
* `Recovers` also needs traffic (`acquire` keeps being tried): an idle breaker
  has nobody to probe for it, and stays open, as intended.

Not assumed: that an agent or an operator ever answers, that a user gives up, that
a peer reads, closes or answers, that a script answers, that a spurious poll
happens, that MCP handlers finish (`DrainIsPrompt` states it as a hypothesis, and
`EndIsReported` does without). The intercept's deadline is not needed for
`OffTheListIsOver`, nor any timeout for `CallsSettle`.

That a peer reads matters wherever the code writes without a timeout, and there it is
nowhere a fairness condition. `write` of `TcpConnection` has none, and `TasksEnd` holds
under the stated hypothesis that the write half is free again and again
(`WritesEnd`). `execute` of `PeerCommands` has none either: `NobodyIsLeftWaiting` says
that a call is released once its connection's handle is gone, blocked worker or not,
and without that if the worker is not in a write for ever; a call to a connection that
stays open and does not read ends by its own timeout only. `end_work` and `last_drop` of
`Connections` are fair only for a host that is gone. Time is idealised in one place: a
live peer answers a probe within one tick of the watchdog (`IdleWatch`, `tick`).

Limits of what is promised: with
`--llm-max-concurrent 0`, which the command line accepts, the gate admits nobody and
a user request waits for ever, so `Served` excepts a limit that stays 0.
A user request that waits for tokens polls and reserves nothing, so network
requests may take each token as it frees; `NetworkReturns` says nothing of users.
It assumes that a queue timeout is
configured (`queue_timeout_secs` of 0 means none).

## 5. Proofs

Every invariant that a passing run checks, both refinements and the action properties
`NoOvertaking` and `FiresOnlyWhenIdle` are theorems, for every value of the constants that the named
assumptions allow. `ActiveCountsHolders` is proved and not given to a run. TLC evaluates
the assumptions in every run.

| assumption | says | because |
|---|---|---|
| `BreakerAssumption` | naturals for threshold, cooldown and saturation, the last not below the threshold | `u32` counter, `new` clamps the threshold |
| `GateAssumption` | finitely many tasks, natural limits | `usize` |
| `LimiterAssumption`, `LimitsAssumption` | users are tasks; bounds are natural and the budget positive; the limits an operator may set have a greatest one | `usize`; no budget is `None`, which is a limit never reached; `Some(0)` lets no request through and is not modelled |
| `QuestionsAssumption` | the mark for "no process" or "no event" is neither | `Option` |
| `SchedulerAssumption` | closable tickers are tickers; one natural limit and one name per task | the fields of `ScheduledTask` |
| `PipesAssumption`, `TablesAssumption` | natural bounds; every connection and worker has an owner among the modelled ones; the call limit is natural; a session's pipe joins instances of the session, which differ from its wrapper and its task | ids come from one table each; `restore_session` first refuses a saved pipe that "references a missing server" |
| `CapacityAssumption`, `PeerAssumption` | channels have room for one command at least | `mpsc::channel` panics on 0 |
| `AcceptAssumption`, `WatchAssumption` | finitely many peers, any requested cap; the watched peer is one of them and the idle bound is at least four ticks of the watchdog | the tick is a twentieth of the bound, within 100 ms and 15 s |
| `TcpAssumption`, `StreamsAssumption` | natural numbers of reads and frames, a positive batch | `usize` constants |

| module | theorem | states |
|---|---|---|
| `CircuitBreakerProofs` | `BreakerTypes`, `OpenAtThreshold`, `ProbeNeverOrphaned` | `Spec => []TypeOK`, `[]OpenIffThreshold`, `[]ProbeIsBacked` |
| | `BreakerRefines` | `Spec => ImplementsBreakerSpec` |
| `RateLimiterProofs` | `GateTypes`, `WakeupNeverLost`, `CounterExact` | `Spec => []TypeOK`, `[]NoLostWakeup`, `[]ActiveCountsHolders` |
| | `FirstComeFirstServed`, `LimitRespected` | `Spec => NoOvertaking`, `AdmissionWithinLimit` |
| | `LimiterUsesGate` | `LimiterSpec => Spec` |
| | `LimiterSafe`, `OvershootBounded` | `LimiterSpec => []LimiterInv`, `[]BudgetOvershootBounded` |
| `QuestionsProofs` | `NoRequestIsMissed`, `QueueIsARendezvous` | `Spec => []QueueInv`, `ImplementsRendezvous` |
| | `OneWakerEach`, `PendingListIsARendezvous` | `Manual!Spec => []PendingInv`, `PendingImplementsRendezvous` |
| | `RepliesBelong` | `Script!Spec => []ScriptInv` |
| | `QuestionsSafe` | all three invariants on `QuestionsSpec` |
| `TaskSchedulerProofs` | `ScheduleSafe`, `NeverTwice`, `RemovalReaches` | `Spec => []ScheduleInv`, `[]OneExecution`, `[]RemovedIsAborted` |
| `AppStateProofs` | `PipesStayAcyclic`, `SearchFindsCycles` | `Spec => []PipesInv`, `Search!Spec => []SearchInv` |
| | `NothingOutlivesItsOwner` | `TablesSpec => []NothingOutlivesOwner` |
| | `RestoreLeavesNothing` | `Session!Spec => []SessionInv` |
| | `TablesSafe` | all four invariants on `TablesSpec` |
| `CallsProofs` | `RefusedMayRetry`, `DisconnectedIsReliable`, `DrainIsSafe` | `Spec => []CommandInv`, `Peer!Spec => []PeerInv`, `Mcp!Spec => []DrainInv` |
| | `CallsSafe` | all three invariants on `CallsSpec` |
| `ConnectionsProofs` | `CapIsExact`, `ConnectionsKeepCap` | `Spec => []AcceptInv`, `ConnectionsSpec => Spec /\ []AcceptInv` |
| | `WatchSafe` | `ConnectionsSpec => []WatchInv /\ FiresOnlyWhenIdle` |
| `StreamsProofs` | `EveryReadOnce`, `FramesInOrder` | `Spec => []TcpInv`, `Ws!Spec => []WsInv` |
| | `StreamsSafe` | both invariants on `StreamsSpec` |

The arguments. Each proof is one lemma per action or group of actions that moves the
state alike, and one step per conjunct the action can disturb.

*Breaker.* `ProbeIsBacked` alone is not inductive. A failing probe clears the
flag only if the count reaches the threshold, which needs `OpenIffThreshold`; and
a fresh trip must make every lease stale, which needs that no lease carries a
generation that is still to come (`LeasesNotNewer`). The refinement further needs that
a probe runs only after the whole cooldown (`Timing`). With these added, each action
preserves the conjunction: the actions that bump the generation empty the set of live leases,
the others add or remove one lease. The refinement maps `open` and
`probe_in_flight` to a mode and the live probe leases to the abstract probers; each
concrete action is then an abstract action or a stutter under the invariant, which
excludes for instance a stale lease that closes an open breaker.

*Gate.* The inductive invariant is `TypeOK`, `NoLostWakeup` and
`ActiveCountsHolders` together. `NoLostWakeup` relies on the queue having no
duplicates: when the front is admitted or cancelled, its own pending wake must not
be mistaken for the successor's, and a poll that consumes a wake of a task that is not
the front must leave the front's alone. The count relies on a task never being queued
and admitted at once. The two action properties follow from the guards of the
three admitting actions (`Admissions`); the bound on `holders'` needs the exact
count.

*Limiter.* Each step of a request conjoins at most one gate action, so the limiter's
behaviours are behaviours of the gate (`LimiterUsesGate`) and keep the gate's invariant.
`LimiterInv` is inductive together with that and with `UsersWait`: a user never stands
where only network requests are refused. The exact counters are cardinalities;
`Follows` says how a cardinality and its counter move when one request moves
(`Moves`), and every action is one such move. The budget: `Within` bounds the permits
out by the greatest limit, and a call starts only under the budget (`Spends`), so usage
and running calls together exceed it by less than the permits.

*Rendezvous.* `Intercepts`: a waiting dispatcher has its sender in the list, in one
operator's hand, or its answer in the channel (`OneHand`), in step with where it stands
(`InStep`), and what was acknowledged was received or fell into the window after the
deadline (`Acknowledged`). `AgentQueue` needs the same of its tool calls (`OneSender`,
`CallerInStep`, `Confirmed`), that an id is in `order` once (`NoRepetition`), and
`NoLostWakeup`, which is inductive beside them. `OneAnswerPerRequest` counts senders; the
count is proved 1 from the set form `OneSender`. Both refinements then go action by
action: taking the sender is a stutter, sending is the acknowledgement.

*Resident script.* That a reply belongs to its event is a fact about the lines in the
pipes: a process that does not print and whose pipes are in the slot has none unread, and
one in hand has at most its holder's question or the answer to it (`InHand`, `Turn`).
About a noisy one nothing is claimed but its types and its end. A process is used by an
event only after it was spawned (`Spawned`), and a victim of the shutdown is out of
the registry (`Shutdown`).

*Scheduler.* A task in the table that was claimed has exactly one of: a place in one
ticker's batch, or one execution that has not reached its last write (`AtMostOne`,
`HandleKept`). `Known` and `Fresh` say that ids are never reused, `BatchedStatus` and
`RunStatus` what the status reads at each of the places between the three writes of an
outcome, `RetriesLeft` and `RunsLeft` what the counters are there. `ExecutingIsBacked` is
then `Backed`. Executions move in five ways (`Outcome`: `Moves`, `Records`, `Marks`,
`Removes`, `Ends`), and each action is one of them.

*Pipes.* `PipesInv` is inductive as it stands. Reachability is defined by closed sets
of nodes, not by paths, so no induction over a path is needed: an edge added where
the target does not reach the source leaves the graph acyclic, and a graph with fewer
edges reaches less. For the search, `SearchInv` says that the seen nodes are reachable,
and that what leads out of them leads to the seen or the stack; with the stack empty,
the seen nodes are closed.

*Servers and clients.* `ServerInv` and `ClientInv` are inductive as they stand, which
is what the code's discipline amounts to: a worker or handle enters its registry under
the lock under which the row was looked up, and every removal takes the row together
with all that is registered for it. The type of `handles` carries that a
handle exists only while its connection's task is open or closing. That the removed
workers then die is liveness, and model-checked (`WorkersStop`).

*Restore.* `SessionInv` needs two additions. `Handover`: the spawned cleanup has work only
after a drop, and the record is empty once a restore is over; without it a second drop
could overwrite what the first handed over. `Routed`: a routing entry has its wrapper,
so that the removal of the wrapper is also the end of the entry. The Boolean
variables are proved apart from the sets (`Flags`, `Places`) and joined by `SessionHalves`.

*Calls.* `CInv`: a command of a caller that was, or may still be, told "not taken" is neither
in the channel nor in hand nor executed, and one in the channel has not been executed. `PInv`: a reply
that says "hung up" is written only after the hang-up and the removal of the handle, which
is never put back, and a reply is dropped only with the worker. `DInv`: whatever is not
written is outstanding, and a receiver that has counted is notified, has something outstanding,
or has somebody on the way to notify it.

*Cap and watchdog.* `AcceptInv` is inductive as it stands: the admitted peers are a finite
set, and each action adds one to it, removes one or leaves it alone, as it does with the
slots. `WInv` says what the watchdog may still believe after it has read the first atomic
(`LookingSees`, `BegunIsFresh`, `Counted`), and that a quiet live connection is probed
before half the bound is over and answers before the rest is (`ProbedIsStale`,
`QuietIsProbed`).

*TCP.* `EachReadOnce` counts; the inductive form says it with positions. `Once`: until the
connection is gone, no read is twice in a task's hands, in the queue and among the answered
ones, nor in two of them, and each of the reads so far is in one. `AtRest`: what a task carries at each of its
places, so that one which is born, greeting, checking or leaving holds nothing, while one that
waits for the write half or writes still holds what it answers. The queue and its chunk
lengths are cut together (`Covers`); that a cut leaves the rest covered is proved with the
least counterexample of a set of naturals (`Least`, from the well-foundedness of `<`).

*WebSocket.* Frames are one line: shown, in the handler's batch, held back, queued, each
stretch sorted and before the next (`OneLine`), as long as nothing was overtaken. `Carried` and
`FrameBound` say which stretches may be non-empty at which place of the handler and that no
frame is one still to come. The batch is some prefix of the queue, whatever its length.

## 6. Model-checked only

* Liveness, which needs fairness and `ENABLED` and is out of the prover's reach: `Recovers`,
  `Served`, `NetworkReturns`, `EventsGoOn`, `DueTaskRuns`, `PipesSettle`, `WorkersStop`,
  `NoZombieRow`, `AllOrNothing`, `CallsSettle`, `DrainEnds`, `KeepsAccepting`,
  `VanishedPeerFreesSlot`, `EveryTaskEnds`. The safety they rest on is proved: that a restore
  which ends has left nothing (`SessionInv`) while that it ends is checked, for instance.
* The four findings, which are counterexamples.

## 7. Findings

Each of the four has a run that shows it.

1. `AbandonedLeavesQueue` (`src/llm/agent_queue.rs:206`). The comment of `expire`
   speaks of a "timed-out / abandoned request", but only the timeout path calls it. When
   the awaiting task is aborted with its server or connection, the entry stays in the
   queue for the life of the process, is listed as outstanding and is handed to the
   agent.
2. `ExecutionsWithinMax` (`src/cli/tasks.rs:429`). `max_executions` is documented
   as the "maximum number of times to execute"; failed runs are counted, but only a
   success compares the count, so a task whose run fails can execute more often.
3. `NoOrphanedSchedule` (`src/cli/server_startup.rs:710`). A start adds its
   scheduled tasks after the row, and `add_task` does not look whether the owner is
   still there; a stop in between cancels nothing, and the tasks fire for a server
   that is gone.
4. `OneCallAtATime` (`src/server/tcp/mod.rs:830`). The README says the connection
   state "prevents concurrent LLM calls"; the tasks of two reads can both find the
   connection Idle before either marks it Processing.

Further disagreements met while modelling. The models contain the behaviour; the
properties are stated so that they hold beside it, and no run is spent on it.

* A statement "can never be closed from under itself however long it takes"
  (`src/server/postgresql/mod.rs:208`); the watchdog decides in one task and aborts the
  connection's task later (217 to 229), without looking again, and `begin_work` does not
  ask whether it has fired: a statement may begin in between and be closed. What holds,
  and is proved, is that the watchdog does not fire on a statement that has begun
  (`FiresOnlyWhenIdle`).
* The harness of a resident script "writes exactly one JSON line back", "one round-trip
  per event" (`src/scripting/resident.rs:33`, 25), but shares its standard output with the
  script. One print is read as the reply; when it does not parse, the process lives on
  (543 to 549), and the reply that follows is read by the next dispatch.
  `RepliesMatch` speaks of scripts that do not print.
* `IDLE_TIMEOUT` is said to bound "how long an upgraded one can hold it [the slot] without
  showing it is alive" (`src/server/websocket/mod.rs:112`); the writer task holds the permit
  too (1098), may be blocked in a send to a peer that does not read (1115), and is not
  aborted. A peer whose host is gone gives the slot back (`VanishedPeerFreesSlot`).
* A TCP connection whose queue reaches its bound "is closed" (`src/server/tcp/mod.rs:32`);
  the close waits for the write half (869, 1091), which a task that writes to a peer that
  does not read holds, while the reader goes on reading. What holds is that a task is
  closing it (`QueueBounded`).
* `resolve_intercept` (`src/state/app_state.rs:1025`) and `answer` of the agent
  queue may report Ok for an answer that is sent after the deadline fired and before
  the receiver is dropped. `Rendezvous` allows exactly this window.
* `close_server` during a start is overwritten by the unconditional Running at the
  end of it (`src/cli/server_startup.rs:804`); the reaper, which looks for Stopped,
  never comes.
* `close_client` (`src/events/handler.rs:1532`) writes Disconnected and drops the
  scheduled tasks, but aborts nothing: the connection stays up.
* `disconnect_client` (`src/state/app_state.rs:2309`) aborts the workers registered at
  that moment; one whose registration is late is registered after it, because the
  row is kept.
* "dropped the command without executing it" (`src/state/app_state.rs:1242`) is also
  said of a command that was executed, when the loop is aborted between the action
  and the reply.
* The peer worker's hang-up (`src/server/peer_support.rs:148`) removes its own handle
  first, and so aborts itself before the row is marked; the row goes on reading as live.
* `end_work` (`src/server/accept_bounded.rs:398`) lowers the counter before it touches
  the clock, the opposite of `begin_work`; a watchdog that looks in between closes a
  connection whose answer is ready. `FiresOnlyWhenIdle` excepts this window.
* `is_dead` of a resident script takes an occupied lock for life
  (`src/scripting/resident.rs:362`, 499): events that arrive while a killed process is
  reaped are handed that process and fail.
* `remove_server` does not shut the server's scripts down (only `close_server` does),
  and a dispatch after `close_server` spawns a new one
  (`src/scripting/resident.rs:565`).
* A TCP read that is queued after the last look of the working task
  (`src/server/tcp/mod.rs:1152`) and before the state goes back to Idle (1183) stays in
  the queue until the next read. Reads whose tasks overlap may be shown to the model
  out of order, although the comment at 155 speaks of arrival order. A close asked for
  by the model on the data path removes the entry only (1131 to 1139) and sends no FIN.
* A WebSocket message held back by `wait_for_websocket_data` while others are queued
  strands those until the next frame, which is joined to the held one and overtakes
  them (`src/server/websocket/mod.rs:1443`, 1331; the comment at 1216 promises
  arrival order). `InArrivalOrder` excepts it (`overtaken`).

## 8. Not modelled, and why

The repository has some 870,000 lines. Nearly all of them are wire protocols: several
hundred servers and clients that parse and format independently of each other, with
generated prompt text beside them. Each would be a model of its own, of data more
than of control; what they have in common is in the modules above, and the connection
state machine that the stream servers copy is in `TcpConnection` and
`WebSocketInbound`. The map therefore covers a small share of all lines and most of
the concurrent core.

* Conversation and action retry loop, event-handler dispatch: sequential code inside
  one request over the limiter, the breaker, the queue, the scripts and the
  intercepts.
* Feedback batches, exchange history, access log: lists appended, trimmed and taken
  under one lock.
* MCP tools, user input and management actions: calls into the components above
  (`update_server` is a removal and a start).
* SQLite store and LLM bridge: their state is behind an external engine or a host
  callback.
* Prompts, model selection, dashboard, command line: text and presentation.
* In the modelled parts: statistics, logs and events for the dashboard; run-time
  changes of `max_queued` and `token_limit`, a `token_limit` of `Some(0)`; a panic inside a task
  execution; the WebSocket handshake, outbound queue and compression; the file format
  of a saved session; `server_handles` and `command_batch`; `cleanup_old_clients`
  (`src/state/app_state.rs:2564`), which nothing calls.

## 9. Plan

Modelling: the outbound side of `WebSocketInbound` with its close handshake;
`server_handles` beside `PeerCommands`; run-time changes of the whole limiter
configuration.

Theorems: the safety that the liveness properties stand on, as action properties (a
rollback never makes the table larger; a removed worker is never registered again; the drain's
outstanding set only shrinks after the end of input); that a command's executed set grows by
the command in hand only. In `StreamsProofs`, the facts about concatenation and sorted
stretches could be shared by both halves.
