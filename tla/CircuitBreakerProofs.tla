------------------------ MODULE CircuitBreakerProofs ------------------------
(***************************************************************************)
(* Proofs about CircuitBreaker, for any set of requests and any threshold, *)
(* cooldown and bounds: its safety invariants, and that it implements      *)
(* BreakerSpec.                                                            *)
(***************************************************************************)
EXTENDS CircuitBreaker, TLAPS

\* No lease is newer than the breaker: a bump makes every lease stale.
LeasesNotNewer == \A r \in Requests : permit_generation[r] <= generation

\* elapsed runs only while nobody probes, and is 0 while closed.
Timing == /\ ~open => elapsed = 0
          /\ probe_in_flight => elapsed = Cooldown

\* The inductive invariant.
IInv == TypeOK /\ OpenIffThreshold /\ ProbeIsBacked /\ LeasesNotNewer /\ Timing

\* The threshold new() stores is at least 1 and fits the counter.
LEMMA ThresholdPositive == failure_threshold \in Nat /\ failure_threshold >= 1
BY BreakerAssumption DEF failure_threshold

\* The saturating counter stays in range, and reaches the threshold when the
\* plain sum would.
LEMMA CountFailureFacts ==
    ASSUME NEW n \in 0..CounterMax
    PROVE  /\ CountFailure(n) \in 0..CounterMax
           /\ n >= failure_threshold => CountFailure(n) >= failure_threshold
BY BreakerAssumption, ThresholdPositive DEF CountFailure

\* The two halves of TypeOK: flags for Zenon, everything else for SMT.
FlagTypes == open \in BOOLEAN /\ probe_in_flight \in BOOLEAN
DataTypes ==
    /\ consecutive_failures \in 0..CounterMax
    /\ elapsed \in 0..Cooldown
    /\ generation \in Nat
    /\ permits \subseteq Requests
    /\ probes \subseteq permits
    /\ permit_generation \in [Requests -> Nat]
    /\ faults \in 0..MaxFaults
    /\ overrides \in 0..MaxOverrides

\* The type invariant is its Boolean half and its data half,
LEMMA TypeHalves == TypeOK <=> FlagTypes /\ DataTypes
BY DEF TypeOK, FlagTypes, DataTypes

\* and so it is after a step.
LEMMA TypeHalvesNext == TypeOK' <=> FlagTypes' /\ DataTypes'
BY DEF TypeOK, FlagTypes, DataTypes

\* A new breaker is closed, with no lease out.
LEMMA InitInv == Init => IInv
<1> SUFFICES ASSUME Init PROVE IInv
  OBVIOUS
<1> USE DEF Init
<1>1. FlagTypes
  BY Zenon DEF FlagTypes
<1>2. DataTypes
  BY BreakerAssumption DEF DataTypes
<1>3. OpenIffThreshold
  BY ThresholdPositive DEF OpenIffThreshold
<1>4. LiveLeases = {} /\ Probers = {}
  BY DEF LiveLeases, Probers
<1>5. ProbeIsBacked
  BY <1>4, Zenon DEF ProbeIsBacked
<1>6. LeasesNotNewer
  <2> SUFFICES ASSUME NEW r \in Requests PROVE permit_generation[r] <= generation
    BY DEF LeasesNotNewer
  <2>1. permit_generation[r] = 0 /\ generation = 0
    OBVIOUS
  <2> QED
    BY <2>1
<1>7. Timing
  BY DEF Timing
<1> QED
  BY <1>1, <1>2, <1>3, <1>5, <1>6, <1>7, TypeHalves DEF IInv

\* Every operation leaves the two flags Boolean.
LEMMA FlagStep == FlagTypes /\ [Next]_vars => FlagTypes'
<1> SUFFICES ASSUME FlagTypes, [Next]_vars PROVE FlagTypes'
  OBVIOUS
<1> USE DEF FlagTypes
<1>1. ASSUME NEW r \in Requests, acquire(r) PROVE FlagTypes'
  BY <1>1, Zenon DEF acquire
<1>2. ASSUME NEW r \in Requests, permit_record_success(r) PROVE FlagTypes'
  BY <1>2, Zenon DEF permit_record_success, Close, inner
<1>3. ASSUME NEW r \in Requests, permit_record_failure(r) PROVE FlagTypes'
  BY <1>3, Zenon DEF permit_record_failure, Trip, inner
<1>4. ASSUME NEW r \in Requests, permit_drop(r) PROVE FlagTypes'
  BY <1>4, Zenon DEF permit_drop, AbandonProbe, RestartCooldown, inner
<1>5. CASE record_success
  BY <1>5, Zenon DEF record_success, Close
<1>6. CASE record_failure
  BY <1>6, Zenon DEF record_failure, Trip
<1>7. CASE Tick
  BY <1>7, Zenon DEF Tick
<1>8. CASE UNCHANGED vars
  BY <1>8, Zenon DEF vars, inner
<1> QED
  BY <1>1, <1>2, <1>3, <1>4, <1>5, <1>6, <1>7, <1>8 DEF Next, finish

\* Every operation keeps the counters, clocks and leases in their types.
LEMMA DataStep == DataTypes /\ [Next]_vars => DataTypes'
<1> SUFFICES ASSUME DataTypes, [Next]_vars PROVE DataTypes'
  OBVIOUS
<1> USE BreakerAssumption, CountFailureFacts DEF DataTypes
<1>1. ASSUME NEW r \in Requests, acquire(r) PROVE DataTypes'
  BY <1>1 DEF acquire
<1>2. ASSUME NEW r \in Requests, permit_record_success(r) PROVE DataTypes'
  BY <1>2 DEF permit_record_success, Close, Bump, Release, inner
<1>3. ASSUME NEW r \in Requests, permit_record_failure(r) PROVE DataTypes'
  BY <1>3 DEF permit_record_failure, Trip, BumpAtTrip, Bump, Release, inner
<1>4. ASSUME NEW r \in Requests, permit_drop(r) PROVE DataTypes'
  BY <1>4 DEF permit_drop, AbandonProbe, RestartCooldown, Bump, Release, inner
<1>5. CASE record_success
  BY <1>5 DEF record_success, Close, Bump, lease
<1>6. CASE record_failure
  BY <1>6 DEF record_failure, Trip, BumpAtTrip, Bump, lease
<1>7. CASE Tick
  BY <1>7 DEF Tick, lease
<1>8. CASE UNCHANGED vars
  BY <1>8 DEF vars, inner, lease
<1> QED
  BY <1>1, <1>2, <1>3, <1>4, <1>5, <1>6, <1>7, <1>8 DEF Next, finish

-----------------------------------------------------------------------------
\* A bump leaves no lease that can still report into the breaker.
LEMMA NoneAfterBump ==
    ASSUME generation \in Nat, DataTypes', Bump,
           \A s \in Requests : permit_generation'[s] <= generation
    PROVE  LiveLeases' = {} /\ Probers' = {} /\ LeasesNotNewer'
<1>1. \A s \in Requests : permit_generation'[s] < generation'
  BY DEF DataTypes, Bump
<1>2. LiveLeases' = {} /\ Probers' = {}
  BY <1>1 DEF LiveLeases, Probers, CurrentLease, DataTypes
<1>3. LeasesNotNewer'
  BY <1>1 DEF LeasesNotNewer, DataTypes
<1> QED
  BY <1>2, <1>3

\* What ending request r does to the leases that matter.
LEMMA ReleaseFacts ==
    ASSUME NEW r \in Requests, DataTypes, LeasesNotNewer, Release(r)
    PROVE  /\ \A s \in Requests : permit_generation'[s] <= generation
           /\ generation' = generation =>
                /\ LiveLeases' = LiveLeases \ {r}
                /\ Probers' = Probers \ {r}
                /\ LeasesNotNewer'
<1>1. \A s \in Requests \ {r} : permit_generation'[s] = permit_generation[s]
  BY DEF Release, DataTypes
<1>2. permit_generation'[r] = 0
  BY DEF Release, DataTypes
<1>3. \A s \in Requests : permit_generation'[s] <= generation
  BY <1>1, <1>2 DEF LeasesNotNewer, DataTypes
<1>4. ASSUME generation' = generation
      PROVE LiveLeases' = LiveLeases \ {r} /\ Probers' = Probers \ {r}
  BY <1>1, <1>4 DEF Release, LiveLeases, Probers, CurrentLease, DataTypes
<1> QED
  BY <1>3, <1>4 DEF LeasesNotNewer

\* The part of the invariant that relates the breaker to its leases.
Coupled == OpenIffThreshold /\ ProbeIsBacked /\ LeasesNotNewer /\ Timing

\* A step that trips the breaker at the threshold re-establishes it.
LEMMA TripCouples ==
    ASSUME generation \in Nat, DataTypes', Trip,
           consecutive_failures' >= failure_threshold,
           \A s \in Requests : permit_generation'[s] <= generation
    PROVE  Coupled'
<1>1. LiveLeases' = {} /\ Probers' = {} /\ LeasesNotNewer'
  BY NoneAfterBump DEF Trip, BumpAtTrip
<1>2. OpenIffThreshold'
  BY DEF OpenIffThreshold, Trip
<1>3. ProbeIsBacked'
  BY <1>1, Zenon DEF ProbeIsBacked, Trip
<1>4. Timing'
  BY DEF Timing, Trip
<1> QED
  BY <1>1, <1>2, <1>3, <1>4 DEF Coupled

\* So does a step that closes it, provided no lease is left a prober.
LEMMA CloseCouples ==
    ASSUME DataTypes', Close, LeasesNotNewer', Probers' = {}
    PROVE  Coupled'
<1>1. OpenIffThreshold'
  BY ThresholdPositive DEF OpenIffThreshold, Close
<1>2. LiveLeases' \subseteq Requests
  BY DEF LiveLeases, DataTypes
<1>3. ProbeIsBacked'
  BY <1>2, Zenon DEF ProbeIsBacked, Close
<1>4. Timing'
  BY DEF Timing, Close
<1> QED
  BY <1>1, <1>3, <1>4 DEF Coupled

\* A step that leaves the breaker and the leases that matter as they were.
LEMMA StutterCouples ==
    ASSUME Coupled, UNCHANGED inner, LiveLeases' = LiveLeases,
           Probers' = Probers, LeasesNotNewer'
    PROVE  Coupled'
<1>1. OpenIffThreshold'
  BY Zenon DEF Coupled, OpenIffThreshold, inner
<1>2. ProbeIsBacked'
  BY Zenon DEF Coupled, ProbeIsBacked, inner
<1>3. Timing'
  BY Zenon DEF Coupled, Timing, inner
<1> QED
  BY <1>1, <1>2, <1>3 DEF Coupled

\* acquire: the new lease is the only prober if the breaker is open.
LEMMA AcquireCouples ==
    ASSUME DataTypes, Coupled, DataTypes', NEW r \in Requests, acquire(r)
    PROVE  Coupled'
<1> USE DEF Coupled
<1>1. permit_generation'[r] = generation' /\ generation' = generation
  BY DEF acquire, DataTypes
<1>2. \A s \in permits : s # r /\ permit_generation'[s] = permit_generation[s]
  BY DEF acquire, DataTypes
<1>3. LiveLeases' = LiveLeases \cup {r}
  BY <1>1, <1>2 DEF acquire, LiveLeases, CurrentLease, DataTypes
<1>4. LeasesNotNewer'
  BY <1>1 DEF acquire, LeasesNotNewer, DataTypes
<1>5. OpenIffThreshold'
  BY DEF acquire, OpenIffThreshold
<1>6. CASE open
  <2>1. ~probe_in_flight /\ elapsed = Cooldown
    BY <1>6 DEF acquire, Admits
  <2>2. Probers = {} /\ LiveLeases = {}
    BY <1>6, <2>1, Zenon DEF ProbeIsBacked
  <2>3. Probers' = {r}
    BY <1>1, <1>2, <1>6, <2>2 DEF acquire, Probers, CurrentLease, DataTypes
  <2>4. LiveLeases' = {r}
    BY <1>3, <2>2
  <2>5. open' /\ probe_in_flight'
    BY <1>6, Zenon DEF acquire
  <2>6. ProbeIsBacked'
    BY <2>3, <2>4, <2>5, Zenon DEF ProbeIsBacked
  <2>7. Timing'
    BY <2>1, <2>5 DEF Timing, acquire
  <2> QED
    BY <1>4, <1>5, <2>6, <2>7
<1>7. CASE ~open
  <2>1. Probers = {} /\ ~probe_in_flight
    BY <1>7, Zenon DEF ProbeIsBacked
  <2>2. Probers' = {}
    BY <1>1, <1>2, <1>7, <2>1 DEF acquire, Probers, CurrentLease, DataTypes
  <2>3. ~open' /\ ~probe_in_flight'
    BY <1>7, <2>1, Zenon DEF acquire
  <2>4. LiveLeases' \subseteq Requests
    BY DEF LiveLeases, DataTypes
  <2>5. ProbeIsBacked'
    BY <2>2, <2>3, <2>4, Zenon DEF ProbeIsBacked
  <2>6. Timing'
    BY <1>7, <2>3 DEF Timing, acquire
  <2> QED
    BY <1>4, <1>5, <2>5, <2>6
<1> QED
  BY <1>6, <1>7

\* record_success through a lease: a stale one changes nothing.
LEMMA SuccessCouples ==
    ASSUME DataTypes, Coupled, DataTypes', NEW r \in Requests,
           permit_record_success(r)
    PROVE  Coupled'
<1>1. Release(r) /\ r \in permits
  BY DEF permit_record_success
<1>2. LeasesNotNewer
  BY DEF Coupled
<1>3. CASE CurrentLease(r) /\ r \in probes
  <2>1. Close /\ Bump
    BY <1>3 DEF permit_record_success
  <2>2. Probers' = {} /\ LeasesNotNewer'
    BY <1>1, <1>2, <2>1, ReleaseFacts, NoneAfterBump DEF DataTypes
  <2> QED
    BY <2>1, <2>2, CloseCouples
<1>4. CASE CurrentLease(r) /\ r \notin probes
  <2>1. Close /\ generation' = generation
    BY <1>4 DEF permit_record_success
  <2>2. r \in LiveLeases /\ r \notin Probers
    BY <1>1, <1>4 DEF LiveLeases, Probers
  <2>3. Probers = {}
    BY <2>2, Zenon DEF Coupled, ProbeIsBacked
  <2>4. Probers' = {} /\ LeasesNotNewer'
    BY <1>1, <1>2, <2>1, <2>3, ReleaseFacts
  <2> QED
    BY <2>1, <2>4, CloseCouples
<1>5. CASE ~CurrentLease(r)
  <2>1. UNCHANGED inner
    BY <1>5 DEF permit_record_success
  <2>2. r \notin LiveLeases /\ r \notin Probers
    BY <1>5 DEF LiveLeases, Probers
  <2>3. LiveLeases' = LiveLeases /\ Probers' = Probers /\ LeasesNotNewer'
    BY <1>1, <1>2, <2>1, <2>2, ReleaseFacts DEF inner
  <2> QED
    BY <2>1, <2>3, StutterCouples
<1> QED
  BY <1>3, <1>4, <1>5

\* record_failure through a lease: a failing probe always trips again,
\* because the count is already at the threshold.
LEMMA FailureCouples ==
    ASSUME DataTypes, Coupled, DataTypes', NEW r \in Requests,
           permit_record_failure(r)
    PROVE  Coupled'
<1>1. Release(r) /\ r \in permits
  BY DEF permit_record_failure
<1>2. LeasesNotNewer /\ OpenIffThreshold
  BY DEF Coupled
<1>3. CASE CurrentLease(r) /\ consecutive_failures' >= failure_threshold
  <2>1. Trip
    BY <1>3 DEF permit_record_failure
  <2> QED
    BY <1>1, <1>2, <1>3, <2>1, ReleaseFacts, TripCouples DEF DataTypes
<1>4. CASE CurrentLease(r) /\ ~(consecutive_failures' >= failure_threshold)
  <2>1. /\ UNCHANGED <<open, elapsed, generation, probe_in_flight>>
        /\ consecutive_failures' = CountFailure(consecutive_failures)
    BY <1>4 DEF permit_record_failure
  <2>2. ~open
    BY <1>2, <1>4, <2>1, CountFailureFacts DEF OpenIffThreshold, DataTypes
  <2>3. OpenIffThreshold'
    BY <1>4, <2>1, <2>2 DEF OpenIffThreshold
  <2>4. Probers = {} /\ ~probe_in_flight
    BY <2>2, Zenon DEF Coupled, ProbeIsBacked
  <2>5. Probers' = {} /\ LeasesNotNewer'
    BY <1>1, <1>2, <2>1, <2>4, ReleaseFacts
  <2>6. LiveLeases' \subseteq Requests
    BY DEF LiveLeases, DataTypes
  <2>7. ProbeIsBacked'
    BY <2>1, <2>2, <2>4, <2>5, <2>6, Zenon DEF ProbeIsBacked
  <2>8. Timing'
    BY <2>1, Zenon DEF Coupled, Timing
  <2> QED
    BY <2>3, <2>5, <2>7, <2>8 DEF Coupled
<1>5. CASE ~CurrentLease(r)
  <2>1. UNCHANGED inner
    BY <1>5 DEF permit_record_failure
  <2>2. r \notin LiveLeases /\ r \notin Probers
    BY <1>5 DEF LiveLeases, Probers
  <2>3. LiveLeases' = LiveLeases /\ Probers' = Probers /\ LeasesNotNewer'
    BY <1>1, <1>2, <2>1, <2>2, ReleaseFacts DEF inner
  <2> QED
    BY <2>1, <2>3, StutterCouples
<1> QED
  BY <1>3, <1>4, <1>5

\* Dropping a lease: only a live probe changes the breaker, and it reopens it.
LEMMA DropCouples ==
    ASSUME DataTypes, Coupled, DataTypes', NEW r \in Requests, permit_drop(r)
    PROVE  Coupled'
<1>1. Release(r) /\ r \in permits
  BY DEF permit_drop
<1>2. LeasesNotNewer
  BY DEF Coupled
<1>3. CASE r \in probes /\ CurrentLease(r) /\ probe_in_flight
  <2>1. /\ probe_in_flight' = FALSE
        /\ elapsed' = 0
        /\ Bump
        /\ UNCHANGED <<consecutive_failures, open>>
    BY <1>3, Zenon DEF permit_drop, AbandonProbe, RestartCooldown
  <2>2. open
    BY <1>3 DEF Coupled, ProbeIsBacked
  <2>3. LiveLeases' = {} /\ Probers' = {} /\ LeasesNotNewer'
    BY <1>1, <1>2, <2>1, ReleaseFacts, NoneAfterBump DEF DataTypes
  <2>4. OpenIffThreshold'
    BY <2>1, Zenon DEF Coupled, OpenIffThreshold
  <2>5. ProbeIsBacked'
    BY <2>1, <2>3, Zenon DEF ProbeIsBacked
  <2>6. Timing'
    BY <2>1 DEF Timing
  <2> QED
    BY <2>3, <2>4, <2>5, <2>6 DEF Coupled
<1>4. CASE ~(r \in probes /\ CurrentLease(r) /\ probe_in_flight)
  <2>1. UNCHANGED inner
    BY <1>4 DEF permit_drop
  <2>2. r \notin Probers
    BY <1>4, Zenon DEF Coupled, ProbeIsBacked, Probers
  <2>3. LiveLeases' = LiveLeases \ {r} /\ Probers' = Probers /\ LeasesNotNewer'
    BY <1>1, <1>2, <2>1, <2>2, ReleaseFacts DEF inner
  <2>4. OpenIffThreshold' /\ Timing'
    BY <2>1, Zenon DEF Coupled, OpenIffThreshold, Timing, inner
  <2>5. ProbeIsBacked'
    BY <2>1, <2>3, Zenon DEF Coupled, ProbeIsBacked, inner
  <2> QED
    BY <2>3, <2>4, <2>5 DEF Coupled
<1> QED
  BY <1>3, <1>4

\* The direct calls and the clock.
LEMMA DirectCouples ==
    ASSUME DataTypes, Coupled, DataTypes',
           record_success \/ record_failure \/ Tick
    PROVE  Coupled'
<1>1. LeasesNotNewer /\ OpenIffThreshold
  BY DEF Coupled
<1>2. UNCHANGED lease
  BY DEF record_success, record_failure, Tick, lease
<1>3. \A s \in Requests : permit_generation'[s] <= generation
  BY <1>1, <1>2 DEF LeasesNotNewer, lease
<1>4. ASSUME generation' = generation
      PROVE LiveLeases' = LiveLeases /\ Probers' = Probers /\ LeasesNotNewer'
  BY <1>1, <1>2, <1>4 DEF LiveLeases, Probers, CurrentLease, LeasesNotNewer, lease
<1>5. CASE record_success
  <2>1. Close /\ Bump
    BY <1>5 DEF record_success
  <2>2. Probers' = {} /\ LeasesNotNewer'
    BY <1>3, <2>1, NoneAfterBump DEF DataTypes
  <2> QED
    BY <2>1, <2>2, CloseCouples
<1>6. CASE record_failure
  <2>1. consecutive_failures' = CountFailure(consecutive_failures)
    BY <1>6 DEF record_failure
  <2>2. CASE consecutive_failures' >= failure_threshold /\ (~open \/ probe_in_flight)
    <3>1. Trip
      BY <1>6, <2>2, Zenon DEF record_failure
    <3> QED
      BY <1>3, <2>2, <3>1, TripCouples DEF DataTypes
  <2>3. CASE ~(consecutive_failures' >= failure_threshold /\ (~open \/ probe_in_flight))
    <3>1. UNCHANGED <<open, elapsed, generation, probe_in_flight>>
      BY <1>6, <2>3, Zenon DEF record_failure
    <3>2. OpenIffThreshold'
      <4>1. CASE consecutive_failures' >= failure_threshold
        <5>1. open
          BY <4>1, <2>3
        <5> QED
          BY <5>1, <4>1, <3>1, Zenon DEF OpenIffThreshold
      <4>2. CASE ~(consecutive_failures' >= failure_threshold)
        <5>1. ~(consecutive_failures >= failure_threshold)
          BY <4>2, <2>1, CountFailureFacts DEF DataTypes
        <5> QED
          BY <5>1, <4>2, <3>1, <1>1, Zenon DEF OpenIffThreshold
      <4> QED
        BY <4>1, <4>2
    <3>3. LiveLeases' = LiveLeases /\ Probers' = Probers /\ LeasesNotNewer'
      BY <1>4, <3>1
    <3>4. ProbeIsBacked' /\ Timing'
      BY <3>1, <3>3, Zenon DEF Coupled, ProbeIsBacked, Timing
    <3> QED
      BY <3>2, <3>3, <3>4 DEF Coupled
  <2> QED
    BY <2>2, <2>3
<1>7. CASE Tick
  <2>1. /\ open
        /\ elapsed < Cooldown
        /\ UNCHANGED <<consecutive_failures, open, generation, probe_in_flight>>
    BY <1>7 DEF Tick
  <2>2. LiveLeases' = LiveLeases /\ Probers' = Probers /\ LeasesNotNewer'
    BY <1>4, <2>1
  <2>3. OpenIffThreshold' /\ ProbeIsBacked'
    BY <2>1, <2>2, Zenon DEF Coupled, OpenIffThreshold, ProbeIsBacked
  <2>4. ~probe_in_flight
    <3>1. elapsed # Cooldown
      BY <2>1, BreakerAssumption DEF DataTypes
    <3> QED
      BY <3>1 DEF Coupled, Timing
  <2>5. Timing'
    BY <2>1, <2>4, Zenon DEF Timing
  <2> QED
    BY <2>2, <2>3, <2>5 DEF Coupled
<1> QED
  BY <1>5, <1>6, <1>7

\* Every step preserves the inductive invariant.
LEMMA StepInv == IInv /\ [Next]_vars => IInv'
<1> SUFFICES ASSUME IInv, [Next]_vars PROVE IInv'
  OBVIOUS
<1>1. DataTypes /\ FlagTypes /\ Coupled
  BY TypeHalves DEF IInv, Coupled
<1>2. DataTypes' /\ FlagTypes'
  BY <1>1, DataStep, FlagStep
<1>3. ASSUME NEW r \in Requests, acquire(r) PROVE Coupled'
  BY <1>1, <1>2, <1>3, AcquireCouples
<1>4. ASSUME NEW r \in Requests, permit_record_success(r) PROVE Coupled'
  BY <1>1, <1>2, <1>4, SuccessCouples
<1>5. ASSUME NEW r \in Requests, permit_record_failure(r) PROVE Coupled'
  BY <1>1, <1>2, <1>5, FailureCouples
<1>6. ASSUME NEW r \in Requests, permit_drop(r) PROVE Coupled'
  BY <1>1, <1>2, <1>6, DropCouples
<1>7. ASSUME record_success \/ record_failure \/ Tick PROVE Coupled'
  BY <1>1, <1>2, <1>7, DirectCouples
<1>8. ASSUME UNCHANGED vars PROVE Coupled'
  <2>1. UNCHANGED inner /\ UNCHANGED lease
    BY <1>8 DEF vars
  <2>2. LiveLeases' = LiveLeases /\ Probers' = Probers /\ LeasesNotNewer'
    BY <1>1, <2>1, Zenon
    DEF LiveLeases, Probers, CurrentLease, Coupled, LeasesNotNewer, lease, inner
  <2> QED
    BY <1>1, <2>1, <2>2, StutterCouples
<1>9. Coupled'
  BY <1>3, <1>4, <1>5, <1>6, <1>7, <1>8 DEF Next, finish
<1>10. TypeOK'
  BY <1>2, TypeHalvesNext
<1> QED
  BY <1>9, <1>10 DEF IInv, Coupled

-----------------------------------------------------------------------------
(***************************************************************************)
(* The invariant holds in every reachable state, whatever the number of    *)
(* requests in flight.                                                     *)
(***************************************************************************)
THEOREM BreakerInv == Spec => []IInv
<1>1. Init => IInv
  BY InitInv
<1>2. IInv /\ [Next]_vars => IInv'
  BY StepInv
<1> QED
  BY <1>1, <1>2, PTL DEF Spec

(***************************************************************************)
(* Type correctness of the breaker's counters, flags and leases.           *)
(***************************************************************************)
THEOREM BreakerTypes == Spec => []TypeOK
<1>1. IInv => TypeOK
  BY DEF IInv
<1> QED
  BY <1>1, BreakerInv, PTL

(***************************************************************************)
(* The breaker is open exactly when the failure count is at the threshold: *)
(* a failing probe always reopens it, and status() never reports HalfOpen  *)
(* for a breaker that is not open.                                         *)
(***************************************************************************)
THEOREM OpenAtThreshold == Spec => []OpenIffThreshold
<1>1. IInv => OpenIffThreshold
  BY DEF IInv
<1> QED
  BY <1>1, BreakerInv, PTL

(***************************************************************************)
(* The breaker is never wedged: probe_in_flight is set exactly while one   *)
(* current lease is out that will clear it, and no lease from before the   *)
(* trip can report into an open breaker.                                   *)
(***************************************************************************)
THEOREM ProbeNeverOrphaned == Spec => []ProbeIsBacked
<1>1. IInv => ProbeIsBacked
  BY DEF IInv
<1> QED
  BY <1>1, BreakerInv, PTL

-----------------------------------------------------------------------------
\* Refinement.  What the mapped mode is, before and after a step.
LEMMA ModeFacts ==
    /\ ~open => Mode = "closed"
    /\ open /\ probe_in_flight => Mode = "probing"
    /\ open /\ ~probe_in_flight => Mode = "open"
    /\ ~open' => Mode' = "closed"
    /\ open' /\ probe_in_flight' => Mode' = "probing"
    /\ open' /\ ~probe_in_flight' => Mode' = "open"
BY DEF Mode

\* A new breaker is a new abstract breaker.
LEMMA AbstractInit == Init => Abstract!Init
<1> SUFFICES ASSUME Init PROVE Abstract!Init
  OBVIOUS
<1>1. Mode = "closed"
  BY Zenon DEF Init, Mode
<1>2. Probers = {}
  BY DEF Init, Probers
<1> QED
  BY <1>1, <1>2 DEF Init, Abstract!Init

\* A step that changes none of the mapped variables.
LEMMA AbstractStutter ==
    ASSUME UNCHANGED <<open, elapsed, probe_in_flight, overrides>>, Probers' = Probers
    PROVE  UNCHANGED Abstract!vars
BY Zenon DEF Abstract!vars, Mode

\* acquire is a probe when the breaker is open, and invisible otherwise.
LEMMA AbstractAcquire ==
    ASSUME IInv, IInv', NEW r \in Requests, acquire(r)
    PROVE  Abstract!Probe(r) \/ UNCHANGED Abstract!vars
<1>1. DataTypes
  BY TypeHalves DEF IInv
<1>2. permit_generation'[r] = generation' /\ generation' = generation
  BY <1>1 DEF acquire, DataTypes
<1>3. \A s \in permits : s # r /\ permit_generation'[s] = permit_generation[s]
  BY <1>1 DEF acquire, DataTypes
<1>4. CASE open
  <2>1. ~probe_in_flight /\ elapsed = Cooldown
    BY <1>4 DEF acquire, Admits
  <2>2. Probers = {}
    BY <2>1, Zenon DEF IInv, ProbeIsBacked
  <2>3. Probers' = {r}
    BY <1>1, <1>2, <1>3, <1>4, <2>2 DEF acquire, Probers, CurrentLease, DataTypes
  <2>4. open' /\ probe_in_flight' /\ UNCHANGED <<elapsed, overrides>>
    BY <1>4, Zenon DEF acquire
  <2>5. Mode = "open" /\ Mode' = "probing"
    BY <1>4, <2>1, <2>4, ModeFacts
  <2>6. Abstract!Probe(r)
    BY <2>1, <2>3, <2>4, <2>5 DEF Abstract!Probe
  <2> QED
    BY <2>6
<1>5. CASE ~open
  <2>1. UNCHANGED <<open, elapsed, probe_in_flight, overrides>>
    BY <1>5, Zenon DEF acquire
  <2>2. Probers = {} /\ Probers' = {}
    BY <1>5, <2>1, Zenon DEF IInv, ProbeIsBacked
  <2> QED
    BY <2>1, <2>2, AbstractStutter
<1> QED
  BY <1>4, <1>5

\* In the current generation, a request that ends is the prober if the
\* breaker is open, and no prober if it is closed.
LEMMA WhoEnds ==
    ASSUME IInv, NEW r \in permits, CurrentLease(r)
    PROVE  /\ open => r \in probes /\ Probers = {r} /\ probe_in_flight
           /\ ~open => r \notin probes /\ Probers = {} /\ ~probe_in_flight
<1>1. r \in LiveLeases
  BY DEF LiveLeases
<1>2. CASE open
  <2>1. r \in Probers
    BY <1>1, <1>2, Zenon DEF IInv, ProbeIsBacked
  <2>2. r \in probes /\ Probers = {r}
    BY <2>1, Zenon DEF IInv, ProbeIsBacked, Probers
  <2> QED
    BY <1>2, <2>2, Zenon DEF IInv, ProbeIsBacked
<1>3. CASE ~open
  <2>1. Probers = {} /\ ~probe_in_flight
    BY <1>3, Zenon DEF IInv, ProbeIsBacked
  <2>2. r \notin probes
    BY <2>1 DEF Probers
  <2> QED
    BY <1>3, <2>1, <2>2
<1> QED
  BY <1>2, <1>3

\* A request that ends is the abstract probe ending, a trip, or invisible.
LEMMA AbstractFinish ==
    ASSUME IInv, IInv', NEW r \in Requests, finish(r)
    PROVE  \/ Abstract!Trip
           \/ Abstract!ProbeSucceeds(r)
           \/ Abstract!ProbeFails(r)
           \/ UNCHANGED Abstract!vars
<1>1. r \in permits /\ Release(r) /\ UNCHANGED overrides
  BY DEF finish, permit_record_success, permit_record_failure, permit_drop
<1>2. DataTypes /\ DataTypes' /\ LeasesNotNewer
  BY TypeHalves, TypeHalvesNext DEF IInv
<1>3. CASE UNCHANGED inner /\ r \notin Probers
  <2>1. Probers' = Probers
    BY <1>1, <1>2, <1>3, ReleaseFacts DEF inner
  <2> QED
    BY <1>1, <1>3, <2>1, AbstractStutter DEF inner
<1>4. CASE ~CurrentLease(r)
  <2>1. UNCHANGED inner
    BY <1>4 DEF finish, permit_record_success, permit_record_failure, permit_drop
  <2>2. r \notin Probers
    BY <1>4 DEF Probers
  <2> QED
    BY <1>3, <2>1, <2>2
<1>5. CASE CurrentLease(r) /\ permit_record_success(r)
  <2>1. Close
    BY <1>5 DEF permit_record_success
  <2>2. ~open' /\ ~probe_in_flight' /\ elapsed' = 0
    BY <2>1, Zenon DEF Close
  <2>3. Mode' = "closed" /\ Probers' = {}
    BY <2>2, ModeFacts, Zenon DEF IInv, ProbeIsBacked
  <2>4. CASE open
    <3>1. Probers = {r}
      BY <1>1, <1>5, <2>4, WhoEnds
    <3>2. Abstract!ProbeSucceeds(r)
      BY <1>1, <2>2, <2>3, <3>1 DEF Abstract!ProbeSucceeds, Abstract!ToClosed
    <3> QED
      BY <3>2
  <2>5. CASE ~open
    <3>1. Probers = {} /\ Mode = "closed" /\ elapsed = 0
      BY <1>1, <1>5, <2>5, WhoEnds, ModeFacts DEF IInv, Timing
    <3>2. UNCHANGED Abstract!vars
      BY <1>1, <2>2, <2>3, <3>1 DEF Abstract!vars
    <3> QED
      BY <3>2
  <2> QED
    BY <2>4, <2>5
<1>6. CASE CurrentLease(r) /\ permit_record_failure(r)
  <2>1. CASE consecutive_failures' >= failure_threshold
    <3>1. Trip
      BY <1>6, <2>1 DEF permit_record_failure
    <3>2. open' /\ ~probe_in_flight' /\ elapsed' = 0
      BY <3>1, Zenon DEF Trip
    <3>3. Mode' = "open" /\ Probers' = {}
      BY <3>2, ModeFacts, Zenon DEF IInv, ProbeIsBacked
    <3>4. CASE open
      <4>1. Probers = {r}
        BY <1>1, <1>6, <3>4, WhoEnds
      <4>2. Abstract!ProbeFails(r)
        BY <1>1, <3>2, <3>3, <4>1 DEF Abstract!ProbeFails, Abstract!ToOpen
      <4> QED
        BY <4>2
    <3>5. CASE ~open
      <4>1. Mode = "closed"
        BY <3>5, ModeFacts
      <4>2. Abstract!Trip
        BY <1>1, <3>2, <3>3, <4>1 DEF Abstract!Trip, Abstract!ToOpen
      <4> QED
        BY <4>2
    <3> QED
      BY <3>4, <3>5
  <2>2. CASE ~(consecutive_failures' >= failure_threshold)
    <3>1. UNCHANGED <<open, elapsed, generation, probe_in_flight>>
      BY <1>6, <2>2 DEF permit_record_failure
    <3>2. ~open'
      BY <2>2 DEF IInv, OpenIffThreshold
    <3>3. ~open
      BY <3>1, <3>2
    <3>4. Probers = {} /\ Probers' = {}
      BY <3>1, <3>2, <3>3, Zenon DEF IInv, ProbeIsBacked
    <3> QED
      BY <1>1, <3>1, <3>4, AbstractStutter
  <2> QED
    BY <2>1, <2>2
<1>7. CASE CurrentLease(r) /\ permit_drop(r)
  <2>1. CASE open
    <3>1. r \in probes /\ Probers = {r} /\ probe_in_flight
      BY <1>1, <1>7, <2>1, WhoEnds
    <3>2. probe_in_flight' = FALSE /\ elapsed' = 0 /\ open' = open
      BY <1>7, <3>1, Zenon DEF permit_drop, AbandonProbe, RestartCooldown
    <3>3. open' /\ ~probe_in_flight'
      BY <2>1, <3>2
    <3>4. Mode' = "open" /\ Probers' = {}
      BY <3>3, ModeFacts, Zenon DEF IInv, ProbeIsBacked
    <3>5. Abstract!ProbeFails(r)
      BY <1>1, <3>1, <3>2, <3>4 DEF Abstract!ProbeFails, Abstract!ToOpen
    <3> QED
      BY <3>5
  <2>2. CASE ~open
    <3>1. r \notin probes /\ Probers = {}
      BY <1>1, <1>7, <2>2, WhoEnds
    <3>2. UNCHANGED inner /\ r \notin Probers
      BY <1>7, <3>1 DEF permit_drop
    <3> QED
      BY <1>3, <3>2
  <2> QED
    BY <2>1, <2>2
<1> QED
  BY <1>4, <1>5, <1>6, <1>7 DEF finish

\* The direct calls are abstract overrides; the clock is the abstract clock.
LEMMA AbstractDirect ==
    ASSUME IInv, IInv', record_success \/ record_failure \/ Tick
    PROVE  Abstract!Override \/ Abstract!Cool
<1>1. CASE record_success
  <2>1. Close /\ overrides' = overrides + 1
    BY <1>1 DEF record_success
  <2>2. ~open' /\ elapsed' = 0
    BY <2>1, Zenon DEF Close
  <2>3. Mode' = "closed" /\ Probers' = {}
    BY <2>2, ModeFacts, Zenon DEF IInv, ProbeIsBacked
  <2>4. Abstract!Override
    BY <2>1, <2>2, <2>3 DEF Abstract!Override, Abstract!ToClosed
  <2> QED
    BY <2>4
<1>2. CASE record_failure
  <2>1. overrides' = overrides + 1
    BY <1>2 DEF record_failure
  <2>2. CASE consecutive_failures' >= failure_threshold /\ (~open \/ probe_in_flight)
    <3>1. Trip
      BY <1>2, <2>2, Zenon DEF record_failure
    <3>2. open' /\ ~probe_in_flight' /\ elapsed' = 0
      BY <3>1, Zenon DEF Trip
    <3>3. Mode' = "open" /\ Probers' = {}
      BY <3>2, ModeFacts, Zenon DEF IInv, ProbeIsBacked
    <3>4. Mode # "open"
      <4>1. CASE ~open
        BY <4>1, ModeFacts
      <4>2. CASE open /\ probe_in_flight
        BY <4>2, ModeFacts
      <4> QED
        BY <4>1, <4>2, <2>2
    <3>5. Abstract!Override
      BY <2>1, <3>2, <3>3, <3>4 DEF Abstract!Override, Abstract!ToOpen
    <3> QED
      BY <3>5
  <2>3. CASE ~(consecutive_failures' >= failure_threshold /\ (~open \/ probe_in_flight))
    <3>1. UNCHANGED <<open, elapsed, generation, probe_in_flight>> /\ UNCHANGED lease
      BY <1>2, <2>3, Zenon DEF record_failure
    <3>2. Mode' = Mode /\ elapsed' = elapsed
      BY <3>1, Zenon DEF Mode
    <3>3. Probers' = Probers
      BY <3>1, Zenon DEF Probers, CurrentLease, lease
    <3>4. Abstract!Override
      BY <2>1, <3>2, <3>3 DEF Abstract!Override
    <3> QED
      BY <3>4
  <2> QED
    BY <2>2, <2>3
<1>3. CASE Tick
  <2>1. /\ open /\ elapsed < Cooldown /\ elapsed' = elapsed + 1
        /\ UNCHANGED <<open, generation, probe_in_flight, overrides>>
        /\ UNCHANGED lease
    BY <1>3 DEF Tick, lease
  <2>2. ~probe_in_flight
    <3>1. elapsed # Cooldown
      BY <2>1, BreakerAssumption DEF IInv, TypeOK
    <3> QED
      BY <3>1 DEF IInv, Timing
  <2>3. Mode = "open" /\ Mode' = Mode
    BY <2>1, <2>2, ModeFacts, Zenon DEF Mode
  <2>4. Probers' = Probers
    BY <2>1, Zenon DEF Probers, CurrentLease, lease
  <2>5. Abstract!Cool
    BY <2>1, <2>3, <2>4 DEF Abstract!Cool
  <2> QED
    BY <2>5
<1> QED
  BY <1>1, <1>2, <1>3

\* Every step is an abstract step or a stutter.
LEMMA AbstractStep == IInv /\ IInv' /\ [Next]_vars => [Abstract!Next]_(Abstract!vars)
<1> SUFFICES ASSUME IInv, IInv', [Next]_vars
             PROVE  Abstract!Next \/ UNCHANGED Abstract!vars
  OBVIOUS
<1>1. ASSUME NEW r \in Requests, acquire(r)
      PROVE  Abstract!Next \/ UNCHANGED Abstract!vars
  BY <1>1, AbstractAcquire DEF Abstract!Next
<1>2. ASSUME NEW r \in Requests, finish(r)
      PROVE  Abstract!Next \/ UNCHANGED Abstract!vars
  BY <1>2, AbstractFinish DEF Abstract!Next
<1>3. CASE record_success \/ record_failure \/ Tick
  BY <1>3, AbstractDirect DEF Abstract!Next
<1>4. CASE UNCHANGED vars
  <2>1. UNCHANGED <<open, elapsed, probe_in_flight, overrides>>
    BY <1>4 DEF vars, inner
  <2>2. Probers' = Probers
    BY <1>4, Zenon DEF vars, inner, lease, Probers, CurrentLease
  <2> QED
    BY <2>1, <2>2, AbstractStutter
<1> QED
  BY <1>1, <1>2, <1>3, <1>4 DEF Next

(***************************************************************************)
(* CircuitBreaker implements BreakerSpec for every number of requests,     *)
(* threshold and cooldown: a cooldown admits nobody, at most one request   *)
(* probes, only the probe or an override closes the breaker, and a failed  *)
(* or abandoned probe restarts the full cooldown.                          *)
(***************************************************************************)
THEOREM BreakerRefines == Spec => ImplementsBreakerSpec
<1>1. Init => Abstract!Init
  BY AbstractInit
<1>2. IInv /\ IInv' /\ [Next]_vars => [Abstract!Next]_(Abstract!vars)
  BY AbstractStep
<1>3. Spec => []IInv
  BY BreakerInv
<1> QED
  BY <1>1, <1>2, <1>3, PTL DEF Spec, ImplementsBreakerSpec, Abstract!Spec
=============================================================================
