--------------------------- MODULE CircuitBreaker ---------------------------
(***************************************************************************)
(* The circuit breaker of src/llm/circuit_breaker.rs, as OllamaClient      *)
(* drives it (src/llm/ollama_client.rs, breaker_guard and                  *)
(* record_backend_outcome).                                                *)
(*                                                                         *)
(* A request takes a lease (BreakerPermit) with acquire, awaits the        *)
(* backend, and then reports success or transport failure through the      *)
(* lease; when its future is cancelled the lease is dropped unreported.    *)
(* Every method body runs under one mutex and is one step; the await in    *)
(* between is where requests overlap, trip the breaker under each other,   *)
(* and report outcomes of a generation that has passed.                    *)
(*                                                                         *)
(* opened_at is the pair <<open, elapsed>>: elapsed saturates at Cooldown, *)
(* which is all that the code compares it with.  generation is a u64 that  *)
(* wraps; it counts trips and cannot wrap while a request is in flight,    *)
(* so here it is a natural number.  trips and last_error are only shown    *)
(* to the operator and are left out.                                       *)
(***************************************************************************)
EXTENDS Naturals

CONSTANTS Requests,            \* concurrent requests to the backend
          ConfiguredThreshold, \* the failure_threshold given to new()
          Cooldown,            \* the cooldown, in clock ticks
          CounterMax,          \* where consecutive_failures saturates
          MaxFaults,           \* bound: failed or abandoned requests
          MaxOverrides         \* bound: direct calls of the public methods

\* CircuitBreaker::new: a threshold of 0 is treated as 1.
failure_threshold == IF ConfiguredThreshold = 0 THEN 1 ELSE ConfiguredThreshold

ASSUME BreakerAssumption ==
    /\ ConfiguredThreshold \in Nat
    /\ Cooldown \in Nat
    /\ CounterMax \in Nat
    /\ failure_threshold <= CounterMax
    /\ MaxFaults \in Nat
    /\ MaxOverrides \in Nat

VARIABLES consecutive_failures,
          open,              \* opened_at.is_some()
          elapsed,           \* opened_at.elapsed(), up to Cooldown
          generation,
          probe_in_flight,
          permits,           \* the requests that hold a BreakerPermit
          probes,            \* those whose permit has probe = true
          permit_generation, \* the generation each permit was issued in
          faults,            \* how much of MaxFaults is used
          overrides          \* how much of MaxOverrides is used

inner == <<consecutive_failures, open, elapsed, generation, probe_in_flight>>
lease == <<permits, probes, permit_generation>>
vars == <<inner, lease, faults, overrides>>

TypeOK ==
    /\ consecutive_failures \in 0..CounterMax
    /\ open \in BOOLEAN
    /\ elapsed \in 0..Cooldown
    /\ generation \in Nat
    /\ probe_in_flight \in BOOLEAN
    /\ permits \subseteq Requests
    /\ probes \subseteq permits
    /\ permit_generation \in [Requests -> Nat]
    /\ faults \in 0..MaxFaults
    /\ overrides \in 0..MaxOverrides

Init ==
    /\ consecutive_failures = 0
    /\ open = FALSE
    /\ elapsed = 0
    /\ generation = 0
    /\ probe_in_flight = FALSE
    /\ permits = {}
    /\ probes = {}
    /\ permit_generation = [r \in Requests |-> 0]
    /\ faults = 0
    /\ overrides = 0

-----------------------------------------------------------------------------
\* The generation is bumped by every trip, and by every end of a probe.
Bump == generation' = generation + 1
BumpForgotten == generation' = generation

\* u32::saturating_add(1).
CountFailure(n) == IF n < CounterMax THEN n + 1 ELSE n

\* The breaker opens: a fresh cooldown, no probe, a new generation.
BumpAtTrip == Bump
Trip == /\ open' = TRUE
        /\ elapsed' = 0
        /\ probe_in_flight' = FALSE
        /\ BumpAtTrip

\* The breaker closes.
Close == /\ consecutive_failures' = 0
         /\ open' = FALSE
         /\ elapsed' = 0
         /\ probe_in_flight' = FALSE

\* The permit is consumed.
Release(r) == /\ permits' = permits \ {r}
              /\ probes' = probes \ {r}
              /\ permit_generation' = [permit_generation EXCEPT ![r] = 0]

\* A lease reports into the generation that issued it, and no other.
CurrentLease(r) == permit_generation[r] = generation

\* A request may go ahead, as a probe when the breaker is open.
Admits == open => (~probe_in_flight /\ elapsed = Cooldown)

\* CircuitBreaker::acquire that returns a permit.  The refusal changes nothing.
acquire(r) ==
    /\ r \notin permits
    /\ Admits
    /\ permits' = permits \cup {r}
    /\ permit_generation' = [permit_generation EXCEPT ![r] = generation]
    /\ IF open
       THEN probe_in_flight' = TRUE /\ probes' = probes \cup {r}
       ELSE UNCHANGED <<probe_in_flight, probes>>
    /\ UNCHANGED <<consecutive_failures, open, elapsed, generation,
                   faults, overrides>>

\* BreakerPermit::record_success: the backend answered (also with an error).
permit_record_success(r) ==
    /\ r \in permits
    /\ IF CurrentLease(r)
       THEN /\ Close
            /\ IF r \in probes THEN Bump ELSE UNCHANGED generation
       ELSE UNCHANGED inner
    /\ Release(r)
    /\ UNCHANGED <<faults, overrides>>

\* BreakerPermit::record_failure: a transport failure.
permit_record_failure(r) ==
    /\ r \in permits
    /\ faults < MaxFaults
    /\ faults' = faults + 1
    /\ IF CurrentLease(r)
       THEN /\ consecutive_failures' = CountFailure(consecutive_failures)
            /\ IF consecutive_failures' >= failure_threshold
               THEN Trip
               ELSE UNCHANGED <<open, elapsed, generation, probe_in_flight>>
       ELSE UNCHANGED inner
    /\ Release(r)
    /\ UNCHANGED overrides

\* An abandoned probe: the breaker must neither stay wedged behind it nor
\* admit the next probe at once.
RestartCooldown == /\ probe_in_flight' = FALSE
                   /\ elapsed' = 0
                   /\ Bump
                   /\ UNCHANGED <<consecutive_failures, open>>
ResumeCooldown == /\ probe_in_flight' = FALSE
                  /\ Bump
                  /\ UNCHANGED <<consecutive_failures, open, elapsed>>
LeaveProbe == UNCHANGED inner
AbandonProbe == RestartCooldown

\* Drop for BreakerPermit: the request's future was cancelled.
permit_drop(r) ==
    /\ r \in permits
    /\ IF r \in probes
       THEN /\ faults < MaxFaults
            /\ faults' = faults + 1
            /\ IF CurrentLease(r) /\ probe_in_flight
               THEN AbandonProbe
               ELSE UNCHANGED inner
       ELSE UNCHANGED <<inner, faults>>
    /\ Release(r)
    /\ UNCHANGED overrides

\* CircuitBreaker::record_success and reset, called without a lease.
record_success ==
    /\ overrides < MaxOverrides
    /\ overrides' = overrides + 1
    /\ Close
    /\ Bump
    /\ UNCHANGED <<lease, faults>>

\* CircuitBreaker::record_failure, called without a lease.
record_failure ==
    /\ overrides < MaxOverrides
    /\ overrides' = overrides + 1
    /\ consecutive_failures' = CountFailure(consecutive_failures)
    /\ IF consecutive_failures' >= failure_threshold /\ (~open \/ probe_in_flight)
       THEN Trip
       ELSE UNCHANGED <<open, elapsed, generation, probe_in_flight>>
    /\ UNCHANGED <<lease, faults>>

\* The clock behind Instant::elapsed.
Tick ==
    /\ open
    /\ elapsed < Cooldown
    /\ elapsed' = elapsed + 1
    /\ UNCHANGED <<consecutive_failures, open, generation, probe_in_flight,
                   lease, faults, overrides>>

finish(r) == permit_record_success(r) \/ permit_record_failure(r) \/ permit_drop(r)

Next == \/ \E r \in Requests : acquire(r) \/ finish(r)
        \/ record_success
        \/ record_failure
        \/ Tick

Spec == Init /\ [][Next]_vars

\* Time passes; a request in flight ends (the backend call has a timeout,
\* and a cancelled one is dropped); traffic keeps arriving.
Fairness == /\ WF_vars(Tick)
            /\ \A r \in Requests : WF_vars(finish(r))
            /\ WF_vars(\E r \in Requests : acquire(r))

FairSpec == Spec /\ Fairness

-----------------------------------------------------------------------------
\* The leases that may still change the breaker.
LiveLeases == {r \in permits : CurrentLease(r)}

Probers == {r \in probes : CurrentLease(r)}

(***************************************************************************)
(* The breaker is open exactly while the count is at the threshold.  So a  *)
(* failing probe, which adds one to the count, always takes the branch     *)
(* that reopens the breaker and clears probe_in_flight (record_failure     *)
(* has no other way to clear it), and the first arm of status() (closed    *)
(* but HalfOpen) is unreachable.                                           *)
(***************************************************************************)
OpenIffThreshold == open <=> consecutive_failures >= failure_threshold

(***************************************************************************)
(* probe_in_flight is backed by a request that will clear it: it is set    *)
(* exactly while one, and only one, lease of the current generation is a   *)
(* probe; and while the breaker is open no lease from before the trip can  *)
(* report into it.  A flag without its lease would refuse every request    *)
(* for ever ("leaving the breaker wedged", comment of acquire).            *)
(***************************************************************************)
ProbeIsBacked ==
    /\ probe_in_flight => open
    /\ probe_in_flight <=> Probers # {}
    /\ \A r, s \in Probers : r = s
    /\ LiveLeases \subseteq (IF open THEN Probers ELSE Requests \ Probers)

(***************************************************************************)
(* However requests, cancellations and overrides interleave, the breaker   *)
(* implements BreakerSpec: no traffic during a cooldown, one probe, only   *)
(* the probe closes it, an abandoned probe restarts the cooldown.          *)
(***************************************************************************)
Mode == IF ~open THEN "closed" ELSE IF probe_in_flight THEN "probing" ELSE "open"

Abstract == INSTANCE BreakerSpec WITH mode <- Mode,
                                      probers <- Probers,
                                      wait <- elapsed

ImplementsBreakerSpec == Abstract!Spec

(***************************************************************************)
(* Once the backend stops failing and requests keep coming, the breaker    *)
(* closes and stays closed: no schedule of trips and cancelled probes      *)
(* leaves it shut for ever.                                                *)
(***************************************************************************)
Recovers == <>[](~open)
=============================================================================
