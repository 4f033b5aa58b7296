--------------------------- MODULE CircuitBreaker ---------------------------
(***************************************************************************)
(* The per-account circuit breaker (common/circuit_breaker/mod.rs,         *)
(* recording.rs, state.rs). Every operation runs under the write lock of   *)
(* the table, so each is one step. Calls are the requests of its callers:  *)
(* admitted by should_allow, ended by a result or by never reporting one.  *)
(* The server constructs the breaker; its callers are the ones its tests   *)
(* and its documentation describe.                                         *)
(***************************************************************************)
EXTENDS Naturals, FiniteSets

CONSTANTS FailureThreshold, SuccessThreshold,
          BreakerCalls        \* requests under way at once

VARIABLES cbState, cbFailures, cbSuccesses,
          cbDue,              \* opened_at lies at least open_duration back
          cbProbe,            \* half_open_probe_active
          cbCalls,            \* per call: idle, in (admitted) or probe (admitted half-open)
          cbAbandoned         \* history: a probe ended without a report since the last reset

CircuitBreakerAssumption == FailureThreshold \in Nat /\ SuccessThreshold \in Nat

cbCircuit == <<cbState, cbFailures, cbSuccesses, cbDue, cbProbe>>
cbVars == <<cbState, cbFailures, cbSuccesses, cbDue, cbProbe, cbCalls, cbAbandoned>>

Init == /\ cbState = "Closed" /\ cbFailures = 0 /\ cbSuccesses = 0
        /\ cbDue = FALSE /\ cbProbe = FALSE
        /\ cbCalls = [c \in BreakerCalls |-> "idle"]
        /\ cbAbandoned = FALSE

-----------------------------------------------------------------------------
AllowClosed(c) ==
    /\ cbCalls[c] = "idle" /\ cbState = "Closed"
    /\ cbCalls' = [cbCalls EXCEPT ![c] = "in"]
    /\ UNCHANGED <<cbCircuit, cbAbandoned>>

(* The call that finds the time elapsed moves to half-open and is admitted *)
(* without setting the probe flag.                                         *)
AllowHalfOpening(c) ==
    /\ cbCalls[c] = "idle" /\ cbState = "Open" /\ cbDue
    /\ cbState' = "HalfOpen" /\ cbSuccesses' = 0
    /\ cbCalls' = [cbCalls EXCEPT ![c] = "probe"]
    /\ UNCHANGED <<cbFailures, cbDue, cbProbe, cbAbandoned>>

AllowProbe(c) ==
    /\ cbCalls[c] = "idle" /\ cbState = "HalfOpen" /\ ~cbProbe
    /\ cbProbe' = TRUE
    /\ cbCalls' = [cbCalls EXCEPT ![c] = "probe"]
    /\ UNCHANGED <<cbState, cbFailures, cbSuccesses, cbDue, cbAbandoned>>

OpenDurationElapses ==
    /\ cbState = "Open" /\ ~cbDue
    /\ cbDue' = TRUE
    /\ UNCHANGED <<cbState, cbFailures, cbSuccesses, cbProbe, cbCalls, cbAbandoned>>

(* record_success: the state decides what a result means, whenever the     *)
(* call it belongs to was admitted.                                        *)
Recovered == cbSuccesses + 1 >= SuccessThreshold

\* Mutant of ProbeFlagAfterSuccess: a half-open success keeps the flag.
ProbeFlagKept == cbProbe
ProbeFlagAfterSuccess == FALSE

RecordSuccess(c) ==
    /\ cbCalls[c] # "idle"
    /\ cbCalls' = [cbCalls EXCEPT ![c] = "idle"]
    /\ UNCHANGED cbAbandoned
    /\ \/ cbState = "Closed" /\ cbFailures' = 0 /\ UNCHANGED <<cbState, cbSuccesses, cbDue, cbProbe>>
       \/ cbState = "Open" /\ UNCHANGED cbCircuit
       \/ /\ cbState = "HalfOpen" /\ cbProbe' = ProbeFlagAfterSuccess
          /\ IF Recovered
             THEN cbState' = "Closed" /\ cbFailures' = 0 /\ cbSuccesses' = 0 /\ cbDue' = FALSE
             ELSE cbSuccesses' = cbSuccesses + 1 /\ UNCHANGED <<cbState, cbFailures, cbDue>>

Trips == \/ cbState = "HalfOpen"
         \/ cbState = "Closed" /\ cbFailures + 1 >= FailureThreshold

RecordFailure(c) ==
    /\ cbCalls[c] # "idle"
    /\ cbCalls' = [cbCalls EXCEPT ![c] = "idle"]
    /\ cbFailures' = IF cbFailures < FailureThreshold THEN cbFailures + 1 ELSE cbFailures
    /\ cbSuccesses' = 0
    /\ cbProbe' = IF cbState = "HalfOpen" THEN FALSE ELSE cbProbe
    /\ IF Trips THEN cbState' = "Open" /\ cbDue' = FALSE ELSE UNCHANGED <<cbState, cbDue>>
    /\ UNCHANGED cbAbandoned

(* A call whose future is dropped reports nothing.                         *)
Abandon(c) ==
    /\ cbCalls[c] # "idle"
    /\ cbAbandoned' = (cbAbandoned \/ cbCalls[c] = "probe")
    /\ cbCalls' = [cbCalls EXCEPT ![c] = "idle"]
    /\ UNCHANGED cbCircuit

Reset ==
    /\ cbState' = "Closed" /\ cbFailures' = 0 /\ cbSuccesses' = 0
    /\ cbDue' = FALSE /\ cbProbe' = FALSE
    /\ cbAbandoned' = FALSE
    /\ UNCHANGED cbCalls

Next == \/ \E c \in BreakerCalls : \/ AllowClosed(c) \/ AllowHalfOpening(c) \/ AllowProbe(c)
                                   \/ RecordSuccess(c) \/ RecordFailure(c) \/ Abandon(c)
        \/ OpenDurationElapses \/ Reset

Spec == Init /\ [][Next]_cbVars

-----------------------------------------------------------------------------
TypeOK ==
    /\ cbState \in {"Closed", "Open", "HalfOpen"}
    /\ cbFailures \in 0 .. FailureThreshold
    /\ cbSuccesses \in 0 .. SuccessThreshold
    /\ cbDue \in BOOLEAN /\ cbProbe \in BOOLEAN /\ cbAbandoned \in BOOLEAN
    /\ cbCalls \in [BreakerCalls -> {"idle", "in", "probe"}]

(* The breaker cannot lock its account out for ever: while its one probe    *)
(* slot is taken, the breaker is half-open and a probe that holds it is    *)
(* still to report, unless a probe was abandoned; no order of early, late  *)
(* or concurrent results strands the slot (mod.rs:131, recording.rs:18).   *)
ProbeIsHeld ==
    cbProbe => /\ cbState = "HalfOpen"
               /\ (\E c \in BreakerCalls : cbCalls[c] = "probe") \/ cbAbandoned
=============================================================================
