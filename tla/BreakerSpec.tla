---------------------------- MODULE BreakerSpec ----------------------------
(***************************************************************************)
(* What the LLM circuit breaker promises the code that calls the backend   *)
(* (module comment of src/llm/circuit_breaker.rs): after a trip nobody     *)
(* reaches the backend until a full cooldown has passed; then exactly one  *)
(* request probes it; only that probe, or an explicit override, decides    *)
(* whether the breaker closes; a probe that fails or is abandoned makes    *)
(* the next one wait for another full cooldown.                            *)
(*                                                                         *)
(* Nothing is said here of generations, failure counters or leases that    *)
(* outlive a trip: CircuitBreaker implements this with them.               *)
(***************************************************************************)
EXTENDS Naturals

CONSTANTS Requests,   \* the requests that may be in flight
          Cooldown    \* clock ticks a trip keeps the breaker shut

VARIABLES mode,       \* "closed", "open" or "probing"
          probers,    \* the requests probing the backend
          wait,       \* ticks since the last trip or abandoned probe
          overrides   \* direct reset / record_failure calls so far

vars == <<mode, probers, wait, overrides>>

Init == /\ mode = "closed"
        /\ probers = {}
        /\ wait = 0
        /\ overrides = 0

ToClosed == mode' = "closed" /\ probers' = {} /\ wait' = 0

ToOpen == mode' = "open" /\ probers' = {} /\ wait' = 0

Trip == mode = "closed" /\ ToOpen /\ UNCHANGED overrides

Cool == /\ mode = "open"
        /\ wait < Cooldown
        /\ wait' = wait + 1
        /\ UNCHANGED <<mode, probers, overrides>>

Probe(r) == /\ mode = "open"
            /\ wait = Cooldown
            /\ mode' = "probing"
            /\ probers' = {r}
            /\ UNCHANGED <<wait, overrides>>

ProbeSucceeds(r) == probers = {r} /\ ToClosed /\ UNCHANGED overrides

ProbeFails(r) == probers = {r} /\ ToOpen /\ UNCHANGED overrides

Override == /\ overrides' = overrides + 1
            /\ \/ ToClosed
               \/ mode # "open" /\ ToOpen
               \/ UNCHANGED <<mode, probers, wait>>

Next == \/ Trip
        \/ Cool
        \/ Override
        \/ \E r \in Requests : Probe(r) \/ ProbeSucceeds(r) \/ ProbeFails(r)

Spec == Init /\ [][Next]_vars
=============================================================================
