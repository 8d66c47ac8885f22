---------------------------- MODULE RateLimiter ----------------------------
(***************************************************************************)
(* Admission of LLM requests (RateLimiter::acquire_permit, record_usage    *)
(* and update_config of src/llm/rate_limiter.rs, called from the retry     *)
(* loop of src/llm/conversation.rs), composed with the ConcurrencyGate it  *)
(* waits on.  A request is a task of the gate; `at` says where in          *)
(* acquire_permit, or in the LLM call that follows, it stands:             *)
(*                                                                         *)
(*   idle -> budget -> gate -> [slot ->] waiting -> recheck -> running     *)
(*                                                -> recorded -> idle      *)
(*                                                                         *)
(* The steps are the stretches between two awaits.  A request may be       *)
(* cancelled at each of them; then the guards it holds (queue slot, user   *)
(* count, queued wait, permit) are dropped.                                *)
(*                                                                         *)
(* The token budget is counted in calls: every recorded call costs one     *)
(* token, token_usage is the number of records inside the window, and one  *)
(* ages out with the clock.  The statistics are left out.                  *)
(***************************************************************************)
EXTENDS ConcurrencyGate

CONSTANTS Users,       \* requests with RequestSource::User; others: Network
          MaxQueued,   \* config.max_queued (0: unbounded)
          TokenLimit   \* config.token_limit

ASSUME LimiterAssumption ==
    /\ Users \subseteq Tasks
    /\ MaxQueued \in Nat
    /\ TokenLimit \in Nat \ {0}

\* max_concurrent is a usize: one of the limits is the largest.
AllLimits == Limits \cup {InitialLimit}
ASSUME LimitsAssumption == \E n \in AllLimits : \A m \in AllLimits : m <= n

VARIABLES at,              \* where each request stands
          queued_network,  \* the queue-depth counter
          waiting_users,   \* user requests inside acquire_permit
          token_usage      \* calls recorded in the current window

limiterVars == <<at, queued_network, waiting_users, token_usage>>
allVars == <<vars, limiterVars>>

Network == Tasks \ Users

Places == {"idle", "budget", "gate", "slot", "waiting", "refusing",
           "recheck", "discarding", "running", "recorded"}

LimiterTypeOK ==
    /\ TypeOK
    /\ at \in [Tasks -> Places]
    /\ queued_network \in Nat
    /\ waiting_users \in Nat
    /\ token_usage \in Nat

LimiterInit ==
    /\ Init
    /\ at = [r \in Tasks |-> "idle"]
    /\ queued_network = 0
    /\ waiting_users = 0
    /\ token_usage = 0

-----------------------------------------------------------------------------
HasTokens == token_usage < TokenLimit

Goto(r, place) == at' = [at EXCEPT ![r] = place]

\* QueueSlot(queued_network): taken on the slow path, dropped with the slot.
HoldsSlot(r) == r \in Network /\ at[r] \in {"slot", "waiting", "refusing"}
DropSlot(r) == IF HoldsSlot(r) THEN queued_network' = queued_network - 1
                               ELSE UNCHANGED queued_network

\* QueueSlot(waiting_users): held by a user request all through acquire_permit.
Acquiring == {"budget", "gate", "slot", "waiting", "refusing", "recheck", "discarding"}
DropUserWait(r) == IF r \in Users /\ at[r] \in Acquiring
                   THEN waiting_users' = waiting_users - 1
                   ELSE UNCHANGED waiting_users

\* acquire_permit is called.
acquire_permit(r) ==
    /\ at[r] = "idle"
    /\ Goto(r, "budget")
    /\ waiting_users' = IF r \in Users THEN waiting_users + 1 ELSE waiting_users
    /\ UNCHANGED <<vars, queued_network, token_usage>>

\* wait_for_token_capacity before queueing: a user polls until there is
\* budget, a network request is discarded (RateLimitError::TokenLimit).
MayProceed(r) == HasTokens \/ r \in Network
AlwaysWaitsForTokens(r) == HasTokens
BudgetGuard(r) == MayProceed(r)
check_budget(r) ==
    /\ at[r] = "budget"
    /\ BudgetGuard(r)
    /\ Goto(r, IF HasTokens THEN "gate" ELSE "idle")
    /\ UNCHANGED <<vars, queued_network, waiting_users, token_usage>>

\* Network fast path.
try_fast(r) ==
    /\ at[r] = "gate" /\ r \in Network
    /\ try_acquire_owned(r)
    /\ Goto(r, "recheck")
    /\ UNCHANGED <<queued_network, waiting_users, token_usage>>

\* Network slow path: count the request in, and refuse it (QueueFull) if that
\* exceeds the bound.  The slot is given back only when the refusal returns.
QueueFull(depth) == MaxQueued > 0 /\ depth > MaxQueued
take_slot(r) ==
    /\ at[r] = "gate" /\ r \in Network
    /\ ~FastPathRoom
    /\ queued_network' = queued_network + 1
    /\ Goto(r, IF QueueFull(queued_network + 1) THEN "refusing" ELSE "slot")
    /\ UNCHANGED <<vars, waiting_users, token_usage>>

\* First poll of the gate: from the slow path, or by a user request.
enter_queue(r) ==
    /\ at[r] = "slot" \/ (at[r] = "gate" /\ r \in Users)
    /\ poll_new(r)
    /\ IF r \in holders'
       THEN Goto(r, "recheck") /\ DropSlot(r)
       ELSE Goto(r, "waiting") /\ UNCHANGED queued_network
    /\ UNCHANGED <<waiting_users, token_usage>>

\* The gate is polled again.
poll_queued(r) ==
    /\ at[r] = "waiting"
    /\ poll(r)
    /\ IF r \in holders'
       THEN Goto(r, "recheck") /\ DropSlot(r)
       ELSE UNCHANGED <<at, queued_network>>
    /\ UNCHANGED <<waiting_users, token_usage>>

\* tokio::time::timeout around a network request's wait expires.
queue_timeout(r) ==
    /\ at[r] = "waiting" /\ r \in Network
    /\ drop_wait(r)
    /\ Goto(r, "refusing")
    /\ UNCHANGED <<queued_network, waiting_users, token_usage>>

\* A QueueFull or QueueTimeout error is returned; the slot goes with it.
refuse(r) ==
    /\ at[r] = "refusing"
    /\ Goto(r, "idle")
    /\ DropSlot(r)
    /\ UNCHANGED <<vars, waiting_users, token_usage>>

\* wait_for_token_capacity again, now holding the permit: an earlier request
\* may have spent the budget while this one queued.
BudgetIgnored == TRUE
BudgetAtRecheck == HasTokens
recheck_budget(r) ==
    /\ at[r] = "recheck"
    /\ BudgetAtRecheck \/ r \in Network
    /\ IF BudgetAtRecheck
       THEN Goto(r, "running") /\ DropUserWait(r)
       ELSE Goto(r, "discarding") /\ UNCHANGED waiting_users
    /\ UNCHANGED <<vars, queued_network, token_usage>>

\* The LLM call succeeded: record_usage.
record_usage(r) ==
    /\ at[r] = "running"
    /\ token_usage' = token_usage + 1
    /\ Goto(r, "recorded")
    /\ UNCHANGED <<vars, queued_network, waiting_users>>

\* The permit is dropped: a failed call, one that is recorded, a discard.
finish(r) ==
    /\ at[r] \in {"running", "recorded", "discarding"}
    /\ drop_permit(r)
    /\ Goto(r, "idle")
    /\ UNCHANGED <<queued_network, waiting_users, token_usage>>

\* The request's future is dropped inside acquire_permit.
ReleaseGuards(r) == DropSlot(r) /\ DropUserWait(r)
LeakSlot(r) == UNCHANGED queued_network /\ DropUserWait(r)
CancelGuards(r) == ReleaseGuards(r)
cancel(r) ==
    /\ at[r] \in Acquiring
    /\ \/ at[r] = "waiting" /\ drop_wait(r)
       \/ at[r] \in {"recheck", "discarding"} /\ drop_permit(r)
       \/ at[r] \in {"budget", "gate", "slot", "refusing"} /\ UNCHANGED vars
    /\ Goto(r, "idle")
    /\ CancelGuards(r)
    /\ UNCHANGED token_usage

\* The oldest usage record leaves the window.
expire_usage ==
    /\ token_usage > 0
    /\ token_usage' = token_usage - 1
    /\ UNCHANGED <<vars, at, queued_network, waiting_users>>

gate_step == /\ \/ \E t \in Tasks : wake(t)
                \/ \E n \in Limits : resize(n)
             /\ UNCHANGED limiterVars

step(r) == \/ check_budget(r) \/ try_fast(r) \/ take_slot(r) \/ enter_queue(r)
           \/ refuse(r) \/ recheck_budget(r) \/ finish(r)

LimiterNext == \/ \E r \in Tasks : \/ acquire_permit(r) \/ step(r)
                                   \/ poll_queued(r) \/ queue_timeout(r)
                                   \/ record_usage(r) \/ cancel(r)
               \/ expire_usage
               \/ gate_step

LimiterSpec == LimiterInit /\ [][LimiterNext]_allVars

\* Every runnable task runs, wakes are delivered, a call ends (the backend
\* has a timeout), a queue timeout fires, and usage ages out.  The user's
\* wait has no timeout.
LimiterFairness ==
    /\ \A r \in Tasks : /\ WF_allVars(step(r))
                        /\ WF_allVars(r \in woken /\ poll_queued(r))
                        /\ WF_allVars(queue_timeout(r))
                        /\ WF_allVars(wake(r) /\ UNCHANGED limiterVars)
    /\ WF_allVars(expire_usage)

LimiterFairSpec == LimiterSpec /\ LimiterFairness

-----------------------------------------------------------------------------
(***************************************************************************)
(* The RAII counters are exact: queued_network counts the network requests *)
(* between taking and dropping a slot, waiting_users the user requests in  *)
(* acquire_permit.  "A leaked slot is permanent" (comment of QueueSlot):   *)
(* the limiter would refuse ever more requests with nothing queued.        *)
(***************************************************************************)
CountersExact ==
    /\ queued_network = Cardinality({r \in Tasks : HoldsSlot(r)})
    /\ waiting_users = Cardinality({r \in Users : at[r] \in Acquiring})

(***************************************************************************)
(* Where a request stands and what the gate knows of it agree: no permit   *)
(* outlives its request, no queue entry outlives its wait.                 *)
(***************************************************************************)
GuardsMatch ==
    \A r \in Tasks :
        /\ r \in Waiting <=> at[r] = "waiting"
        /\ r \in holders <=> at[r] \in {"recheck", "discarding", "running", "recorded"}

(***************************************************************************)
(* At most max_queued network requests wait for a permit at once, whatever *)
(* arrives between one request's fetch_add and its first poll.             *)
(***************************************************************************)
QueueBounded ==
    MaxQueued > 0 =>
        Cardinality({r \in Network : at[r] \in {"slot", "waiting"}}) <= MaxQueued

(***************************************************************************)
(* The budget is overspent by at most the calls that can run at once: the  *)
(* check is repeated after the wait for a permit, so a backlog that queued *)
(* before the budget ran out cannot drain past it.                         *)
(***************************************************************************)
MaxLimit == CHOOSE n \in AllLimits : \A m \in AllLimits : m <= n

BudgetOvershootBounded ==
    token_usage + Cardinality({r \in Tasks : at[r] = "running"})
        <= TokenLimit - 1 + MaxLimit

(***************************************************************************)
(* A network request always gets an answer, an error if nothing else: its  *)
(* peer never hangs on a saturated limiter or an exhausted budget.  (A     *)
(* user request may be starved of tokens by network requests that spend    *)
(* each one that frees: its polling loop reserves nothing.)                *)
(***************************************************************************)
NetworkReturns == \A r \in Network : at[r] # "idle" ~> at[r] = "idle"

(***************************************************************************)
(* The invariant of the limiter, with all its parts: the types, the two    *)
(* counters of the RAII guards, the agreement with the gate and the bound  *)
(* of the queue.                                                           *)
(***************************************************************************)
LimiterInv == LimiterTypeOK /\ CountersExact /\ GuardsMatch /\ QueueBounded
=============================================================================
