---------------------------- MODULE HealthMonitor ----------------------------
(***************************************************************************)
(* The health record of one account (health/monitor.rs, health/types.rs).  *)
(* Its fields are separate atomics and locks: record_error, force_enable   *)
(* and the recovery task each write several of them, and every write is a  *)
(* step here. Reporters are callers of record_error; the recovery task is  *)
(* one loop of check_and_recover.                                          *)
(***************************************************************************)
EXTENDS Naturals, FiniteSets

CONSTANTS ErrorThreshold,   \* HealthConfig.error_threshold
          Reporters         \* requests reporting an error at once

VARIABLES hmDisabled,       \* is_disabled
          hmErrors,         \* consecutive_errors
          hmSince,          \* disabled_at: none, hot (cooling down) or cold
          hmReporter,       \* per reporter, the step of record_error
          hmEnable,         \* per enabler, its step: idle, found, flagged, reset
          hmRaced           \* history: an error disabled the account while it was
                            \* being re-enabled

HealthMonitorAssumption == ErrorThreshold \in Nat

Enablers == {"task", "operator"}

hmVars == <<hmDisabled, hmErrors, hmSince, hmReporter, hmEnable, hmRaced>>

Init == /\ hmDisabled = FALSE /\ hmErrors = 0 /\ hmSince = "none"
        /\ hmReporter = [r \in Reporters |-> "idle"]
        /\ hmEnable = [e \in Enablers |-> "idle"]
        /\ hmRaced = FALSE

Enabling == \E e \in Enablers : hmEnable[e] # "idle"

-----------------------------------------------------------------------------
(* record_error: count, read the flag when the count has reached the       *)
(* threshold, set the flag, then write the instant.                        *)
CountError(r) ==
    /\ hmReporter[r] = "idle"
    /\ hmErrors' = IF hmErrors < ErrorThreshold THEN hmErrors + 1 ELSE hmErrors
    /\ hmReporter' = [hmReporter EXCEPT ![r] =
          IF hmErrors + 1 >= ErrorThreshold THEN "counted" ELSE "idle"]
    /\ UNCHANGED <<hmDisabled, hmSince, hmEnable, hmRaced>>

AlreadyDisabled(r) ==
    /\ hmReporter[r] = "counted" /\ hmDisabled
    /\ hmReporter' = [hmReporter EXCEPT ![r] = "idle"]
    /\ UNCHANGED <<hmDisabled, hmErrors, hmSince, hmEnable, hmRaced>>

ReadEnabled(r) ==
    /\ hmReporter[r] = "counted" /\ ~hmDisabled
    /\ hmReporter' = [hmReporter EXCEPT ![r] = "disable"]
    /\ UNCHANGED <<hmDisabled, hmErrors, hmSince, hmEnable, hmRaced>>

Disable(r) ==
    /\ hmReporter[r] = "disable"
    /\ hmDisabled' = TRUE
    /\ hmReporter' = [hmReporter EXCEPT ![r] = "stamp"]
    /\ hmRaced' = (hmRaced \/ Enabling)
    /\ UNCHANGED <<hmErrors, hmSince, hmEnable>>

\* Mutant of Instant: the instant of disabling is not written.
NoInstant == hmSince
Instant == "hot"

Stamp(r) ==
    /\ hmReporter[r] = "stamp"
    /\ hmSince' = Instant
    /\ hmReporter' = [hmReporter EXCEPT ![r] = "idle"]
    /\ UNCHANGED <<hmDisabled, hmErrors, hmEnable, hmRaced>>

(* record_success resets the count and leaves the flag alone.              *)
RecordSuccess ==
    /\ hmErrors' = 0
    /\ UNCHANGED <<hmDisabled, hmSince, hmReporter, hmEnable, hmRaced>>

-----------------------------------------------------------------------------
CooldownPasses ==
    /\ hmSince = "hot"
    /\ hmSince' = "cold"
    /\ UNCHANGED <<hmDisabled, hmErrors, hmReporter, hmEnable, hmRaced>>

(* The recovery task finds a disabled account whose cooldown has passed    *)
(* (check_and_recover) and clears the flag, the count and the instant, one *)
(* after the other; force_enable does the same for any disabled account.   *)
FindDisabled(e) ==
    /\ hmEnable[e] = "idle" /\ hmDisabled
    /\ e = "task" => hmSince = "cold"
    /\ hmEnable' = [hmEnable EXCEPT ![e] = "found"]
    /\ hmRaced' = (hmRaced \/ \E r \in Reporters : hmReporter[r] = "stamp")
    /\ UNCHANGED <<hmDisabled, hmErrors, hmSince, hmReporter>>

ClearFlag(e) ==
    /\ hmEnable[e] = "found"
    /\ hmDisabled' = FALSE
    /\ hmEnable' = [hmEnable EXCEPT ![e] = "flagged"]
    /\ UNCHANGED <<hmErrors, hmSince, hmReporter, hmRaced>>

ClearErrors(e) ==
    /\ hmEnable[e] = "flagged"
    /\ hmErrors' = 0
    /\ hmEnable' = [hmEnable EXCEPT ![e] = "reset"]
    /\ UNCHANGED <<hmDisabled, hmSince, hmReporter, hmRaced>>

ClearInstant(e) ==
    /\ hmEnable[e] = "reset"
    /\ hmSince' = "none"
    /\ hmEnable' = [hmEnable EXCEPT ![e] = "idle"]
    /\ UNCHANGED <<hmDisabled, hmErrors, hmReporter, hmRaced>>

(* The account leaves the table (unregister_account, clear) and comes back *)
(* with a fresh record, while nobody holds the old one.                    *)
Reregister ==
    /\ ~Enabling /\ \A r \in Reporters : hmReporter[r] = "idle"
    /\ hmDisabled' = FALSE /\ hmErrors' = 0 /\ hmSince' = "none" /\ hmRaced' = FALSE
    /\ UNCHANGED <<hmReporter, hmEnable>>

Next == \/ \E r \in Reporters : \/ CountError(r) \/ AlreadyDisabled(r) \/ ReadEnabled(r)
                                \/ Disable(r) \/ Stamp(r)
        \/ RecordSuccess \/ CooldownPasses
        \/ \E e \in Enablers : \/ FindDisabled(e) \/ ClearFlag(e)
                               \/ ClearErrors(e) \/ ClearInstant(e)
        \/ Reregister

Spec == Init /\ [][Next]_hmVars

-----------------------------------------------------------------------------
TypeOK ==
    /\ hmDisabled \in BOOLEAN /\ hmRaced \in BOOLEAN
    /\ hmErrors \in 0 .. ErrorThreshold
    /\ hmSince \in {"none", "hot", "cold"}
    /\ hmReporter \in [Reporters -> {"idle", "counted", "disable", "stamp"}]
    /\ hmEnable \in [Enablers -> {"idle", "found", "flagged", "reset"}]

(* A disabled account carries the instant the recovery task needs, or its  *)
(* reporter is about to write it: it can recover by itself. The only way   *)
(* to a disabled account without an instant, which nothing but the         *)
(* operator brings back, is an error that disables the account while a     *)
(* recovery is clearing the same fields (monitor.rs:78-84, 163-168).       *)
DisabledCanRecover ==
    hmDisabled => \/ hmSince # "none"
                  \/ \E r \in Reporters : hmReporter[r] = "stamp"
                  \/ hmRaced
=============================================================================
