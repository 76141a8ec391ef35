---------------------------- MODULE BreakerMachine ----------------------------
(***************************************************************************)
(* What the circuit breaker promises, as the state machine in the header   *)
(* of src/resilience/circuit-breaker.ts: CLOSED -> OPEN at the threshold,  *)
(* OPEN -> HALF-OPEN after the cooldown, HALF-OPEN -> CLOSED or OPEN by    *)
(* the outcome of the probe.  A lost or corrupted file means CLOSED.       *)
(***************************************************************************)
EXTENDS Naturals

CONSTANT Threshold      \* failureThreshold

VARIABLES circuit, failures

machineVars == <<circuit, failures>>

Init == circuit = "closed" /\ failures = 0

FailureWhileClosed ==
    /\ circuit = "closed"
    /\ failures' = failures + 1
    /\ circuit' = IF failures' >= Threshold THEN "open" ELSE "closed"

Success ==
    /\ circuit \in {"closed", "half-open"}
    /\ circuit' = "closed"
    /\ failures' = 0

CooldownOver ==
    /\ circuit = "open"
    /\ circuit' = "half-open"
    /\ UNCHANGED failures

ProbeFails ==
    /\ circuit = "half-open"
    /\ circuit' = "open"
    /\ UNCHANGED failures

Reset == circuit' = "closed" /\ failures' = 0

Next == FailureWhileClosed \/ Success \/ CooldownOver \/ ProbeFails \/ Reset

Spec == Init /\ [][Next]_machineVars

=============================================================================
