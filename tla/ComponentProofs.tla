--------------------------- MODULE ComponentProofs ---------------------------
(***************************************************************************)
(* Theorems about the components of module Components, which share no      *)
(* state. Every theorem holds for all values of the component's constants  *)
(* that satisfy the assumption named in its module.                        *)
(***************************************************************************)
EXTENDS Components, Sequences, FiniteSets, FiniteSetTheorems, SequenceTheorems,
        WellFoundedInduction, TLAPS
-----------------------------------------------------------------------------
(* RateLimits: the lockouts of an account. The history rlBan is tied to    *)
(* the lock of the account by the callers: a success or a failure that     *)
(* would shorten a ban belongs to a request that was under way before it.  *)

(* What a request may be doing.                                            *)
CallStates == [at : {"idle", "flying", "asking", "reading"},
               model : Names \union {"none"}, early : BOOLEAN]

(* A request under way has a model.                                        *)
CallsNamed == \A c \in RateCalls : rlCalls[c].at # "idle" => rlCalls[c].model \in Names
(* While a ban runs, every request still in flight is one that began       *)
(* before it (or was forced): only those may lift it.                      *)
BanOverridden ==
    rlBan > 0 => \A c \in RateCalls : rlCalls[c].at = "flying" => rlCalls[c].early
(* A standard id marked out has a lock of its own, whatever name the       *)
(* request that marked it used.                                            *)
OutLocked == \A s \in rlOut : rlLocks[s] > 0

(* The inductive invariant of the lockouts.                                *)
LimitsInv ==
    /\ RL!TypeOK
    /\ CallsNamed
    /\ RL!BanHolds
    /\ BanOverridden
    /\ OutLocked

(* Lemma: a tracker without entries satisfies the invariant.               *)
LEMMA LimitsInit ==
  ASSUME RL!RateLimitsAssumption, RL!Init
  PROVE  LimitsInv
<1>1. /\ rlLocks \in [RL!Keys -> 0 .. RL!Day]
      /\ rlFailures \in [RL!Keys -> 0 .. RL!MaxFailures]
      /\ rlBan \in 0 .. RL!Day
  BY DEF RL!Init, RL!Day, RL!MaxFailures
<1>2. rlCalls \in [RateCalls -> CallStates]
  BY DEF RL!Init, RL!Idle, CallStates
<1>3. RL!TypeOK
  BY <1>1, <1>2 DEF RL!TypeOK, RL!Init, CallStates
<1>4. CallsNamed /\ BanOverridden /\ OutLocked
  BY DEF RL!Init, RL!Idle, CallsNamed, BanOverridden, OutLocked
<1>5. RL!BanHolds
  BY DEF RL!Init, RL!BanHolds, RL!Keys
<1> QED
  BY <1>3, <1>4, <1>5 DEF LimitsInv

(* Lemma: a request that ends becomes idle and touches no other.           *)
LEMMA FinishEffect ==
  ASSUME rlCalls \in [RateCalls -> CallStates], NEW c \in RateCalls, RL!Finish(c)
  PROVE  /\ rlCalls' \in [RateCalls -> CallStates]
         /\ rlCalls'[c].at = "idle"
         /\ \A d \in RateCalls \ {c} : rlCalls'[d] = rlCalls[d]
<1>1. RL!Idle \in CallStates /\ RL!Idle.at = "idle"
  BY DEF RL!Idle, CallStates
<1> QED
  BY <1>1 DEF RL!Finish

(* Lemma: a lockout is stored under its key and no other.                  *)
LEMMA LockedEffect ==
  ASSUME rlLocks \in [RL!Keys -> 0 .. RL!Day], NEW k \in RL!Keys, NEW d \in 0 .. RL!Day,
         RL!Locked(k, d)
  PROVE  /\ rlLocks' \in [RL!Keys -> 0 .. RL!Day]
         /\ rlLocks'[k] = d
         /\ \A j \in RL!Keys \ {k} : rlLocks'[j] = rlLocks[j]
BY DEF RL!Locked

(* Lemma: the failure count of a key stays within its bound.               *)
LEMMA CountedType ==
  ASSUME rlFailures \in [RL!Keys -> 0 .. RL!MaxFailures], NEW k \in RL!Keys,
         NEW n \in RL!Counted(k)
  PROVE  [rlFailures EXCEPT ![k] = n] \in [RL!Keys -> 0 .. RL!MaxFailures]
<1>1. n \in 0 .. RL!MaxFailures
  BY DEF RL!Counted, RL!MaxFailures
<1> QED
  BY <1>1

(* Lemma: every result, refinement by the quota service, passing of time   *)
(* and clearing by an operator preserves the invariant.                    *)
LEMMA LimitsStep ==
  ASSUME RL!RateLimitsAssumption, LimitsInv, [RL!Next]_(RL!rlVars)
  PROVE  LimitsInv'
<1> USE DEF CallsNamed, BanOverridden, OutLocked, RL!BanHolds
<1>0. /\ rlLocks \in [RL!Keys -> 0 .. RL!Day]
      /\ rlFailures \in [RL!Keys -> 0 .. RL!MaxFailures]
      /\ rlCalls \in [RateCalls -> CallStates]
      /\ rlBan \in 0 .. RL!Day /\ rlOut \subseteq Names
      /\ CallsNamed /\ RL!BanHolds /\ BanOverridden /\ OutLocked
  BY DEF LimitsInv, RL!TypeOK, CallStates
<1>a. /\ RL!Account \in RL!Keys /\ Names \subseteq RL!Keys
      /\ \A m \in Names :
            Standard[m] \in Names /\ Standard[m] # RL!Account /\ m # RL!Account
  BY DEF RL!RateLimitsAssumption, RL!Keys
<1>b. {0, RL!Short, RL!Long} \subseteq 0 .. RL!Day /\ RL!Day \in 0 .. RL!Day
      /\ RL!Short > 0 /\ RL!Long > 0 /\ \A n : RL!QuotaTier(n) \in {RL!Short, RL!Long}
  BY DEF RL!Short, RL!Long, RL!Day, RL!QuotaTier
<1> DEFINE Types == /\ rlLocks \in [RL!Keys -> 0 .. RL!Day]
                    /\ rlFailures \in [RL!Keys -> 0 .. RL!MaxFailures]
                    /\ rlCalls \in [RateCalls -> CallStates]
                    /\ rlBan \in 0 .. RL!Day /\ rlOut \subseteq Names
           Rest == CallsNamed /\ RL!BanHolds /\ BanOverridden /\ OutLocked
<1>1. SUFFICES Types' /\ Rest'
  BY DEF LimitsInv, RL!TypeOK, CallStates
<1>2. ASSUME NEW c \in RateCalls, NEW m \in Names, RL!Start(c, m) PROVE Types' /\ Rest'
  <2>1. [at |-> "flying", model |-> m, early |-> FALSE] \in CallStates
    BY DEF CallStates
  <2>2. rlBan = 0
    BY <1>0, <1>2, <1>a DEF RL!Start, RL!IsRateLimitedForModel, RL!Day
  <2>3. Types'
    BY <1>0, <1>2, <2>1 DEF RL!Start
  <2>4. Rest'
    BY <1>0, <1>2, <2>2 DEF RL!Start
  <2> QED
    BY <2>3, <2>4
<1>3. ASSUME NEW c \in RateCalls, NEW m \in Names, RL!StartForced(c, m)
      PROVE Types' /\ Rest'
  <2>1. [at |-> "flying", model |-> m, early |-> TRUE] \in CallStates
    BY DEF CallStates
  <2>2. Types'
    BY <1>0, <1>3, <2>1 DEF RL!StartForced
  <2>3. Rest'
    BY <1>0, <1>3 DEF RL!StartForced
  <2> QED
    BY <2>2, <2>3
<1>c. ASSUME NEW c \in RateCalls, RL!Finish(c), UNCHANGED rlBan
      PROVE  rlCalls' \in [RateCalls -> CallStates] /\ CallsNamed' /\ BanOverridden'
  BY <1>0, <1>c, FinishEffect
<1>d. ASSUME NEW c \in RateCalls, rlCalls[c].at = "flying", RL!Finish(c),
             RL!Overrides(c)
      PROVE  /\ rlCalls' \in [RateCalls -> CallStates] /\ CallsNamed' /\ BanOverridden'
             /\ rlBan' = 0
  <2>1. rlBan' = 0
    BY <1>0, <1>d DEF RL!Overrides, RL!Day
  <2> QED
    BY <1>0, <1>d, <2>1, FinishEffect
<1>e. ASSUME NEW d \in {0, RL!Short, RL!Long}, RL!Locked(RL!Account, d), UNCHANGED rlOut
      PROVE  rlLocks' \in [RL!Keys -> 0 .. RL!Day] /\ OutLocked'
  BY <1>0, <1>a, <1>b, <1>e, LockedEffect
<1>f. ASSUME NEW k \in Names, NEW d \in {0, RL!Short, RL!Long}, RL!Locked(k, d),
             rlOut' \subseteq rlOut \union {k}, d = 0 => k \notin rlOut', UNCHANGED rlBan
      PROVE  /\ rlLocks' \in [RL!Keys -> 0 .. RL!Day] /\ rlOut' \subseteq Names
             /\ OutLocked' /\ RL!BanHolds'
  BY <1>0, <1>a, <1>b, <1>f, LockedEffect
<1>4. ASSUME NEW c \in RateCalls, RL!MarkSuccess(c) PROVE Types' /\ Rest'
  <2>1. RL!Locked(RL!Account, 0) /\ rlFailures' \in [RL!Keys -> 0 .. RL!MaxFailures]
    BY <1>0, <1>4, <1>a DEF RL!MarkSuccess, RL!Locked, RL!MaxFailures
  <2> QED
    BY <1>0, <1>4, <1>a, <1>d, <1>e, <2>1 DEF RL!MarkSuccess, RL!Day
<1>5. ASSUME NEW c \in RateCalls, RL!MarkRateLimited(c) PROVE Types' /\ Rest'
  <2>1. rlFailures' \in [RL!Keys -> 0 .. RL!MaxFailures]
    BY <1>0, <1>5, <1>a, CountedType DEF RL!MarkRateLimited
  <2>2. \E d \in {0, RL!Short, RL!Long} : RL!Locked(RL!Account, d)
    BY <1>5, <1>b DEF RL!MarkRateLimited
  <2>3. rlCalls[c].at = "flying" /\ RL!Finish(c) /\ RL!Overrides(c) /\ UNCHANGED rlOut
    BY <1>5 DEF RL!MarkRateLimited
  <2> QED
    BY <1>0, <1>a, <1>d, <1>e, <2>1, <2>2, <2>3 DEF RL!Day
<1>6. ASSUME NEW c \in RateCalls, RL!Forbidden(c) PROVE Types' /\ Rest'
  <2>1. /\ rlCalls[c].at = "flying" /\ rlCalls[c].model \in Names
        /\ UNCHANGED <<rlFailures, rlOut>>
    BY <1>0, <1>6 DEF RL!Forbidden
  <2>2. CASE RL!Locked(RL!Account, RL!Long) /\ RL!Finish(c) /\ RL!Overrides(c)
    BY <1>0, <1>a, <1>d, <1>e, <2>1, <2>2 DEF RL!Day
  <2>3. CASE RL!Locked(rlCalls[c].model, RL!Short) /\ RL!Finish(c) /\ UNCHANGED rlBan
    BY <1>0, <1>b, <1>c, <1>f, <2>1, <2>3
  <2>4. CASE /\ RL!Locked(RL!Account, RL!Day) /\ rlBan' = RL!Day
             /\ rlCalls' = [d \in RateCalls |-> IF d = c THEN RL!Idle
                              ELSE [rlCalls[d] EXCEPT !.early = rlCalls[d].at # "idle"]]
    <3>1. /\ rlLocks' \in [RL!Keys -> 0 .. RL!Day] /\ rlLocks'[RL!Account] = RL!Day
          /\ \A j \in Names : rlLocks'[j] = rlLocks[j]
      BY <1>0, <1>a, <1>b, <2>4, LockedEffect
    <3>2. RL!Idle \in CallStates /\ RL!Idle.at = "idle"
      BY DEF RL!Idle, CallStates
    <3>3. ASSUME NEW d \in RateCalls
          PROVE  [rlCalls[d] EXCEPT !.early = rlCalls[d].at # "idle"] \in CallStates
      <4>1. rlCalls[d] \in CallStates /\ (rlCalls[d].at # "idle") \in BOOLEAN
        BY <1>0
      <4> QED
        BY <4>1 DEF CallStates
    <3>4. rlCalls' \in [RateCalls -> CallStates]
      BY <2>4, <3>2, <3>3
    <3>5. \A d \in RateCalls : rlCalls'[d].at # "idle" =>
             /\ rlCalls'[d].early
             /\ rlCalls'[d].at = rlCalls[d].at /\ rlCalls'[d].model = rlCalls[d].model
      BY <1>0, <2>4, <3>2 DEF CallStates
    <3> QED
      BY <1>0, <1>b, <2>1, <2>4, <3>1, <3>4, <3>5 DEF RL!Day
  <2> QED
    BY <1>6, <2>2, <2>3, <2>4 DEF RL!Forbidden
<1>7. ASSUME NEW c \in RateCalls,
             RL!MarkExplicit(c) \/ \E reason \in RL!Reasons : RL!MarkAndAsk(c, reason)
      PROVE  /\ rlCalls[c].at = "flying" /\ rlCalls[c].model \in Names
             /\ RL!LockName(c) \in Names /\ UNCHANGED rlBan
             /\ \E d \in {RL!Short, RL!Long} : RL!Locked(RL!LockName(c), d)
             /\ rlOut' = rlOut \union {RL!LockName(c)}
             /\ rlFailures' \in [RL!Keys -> 0 .. RL!MaxFailures]
  <2>1. /\ rlCalls[c].at = "flying" /\ UNCHANGED rlBan
        /\ rlOut' = rlOut \union {RL!LockName(c)}
    BY <1>7 DEF RL!MarkExplicit, RL!MarkAndAsk, RL!MarkOut, RL!LockName
  <2>2. rlCalls[c].model \in Names /\ RL!LockName(c) \in Names
    BY <1>0, <1>a, <2>1 DEF RL!LockName
  <2>3. rlFailures' \in [RL!Keys -> 0 .. RL!MaxFailures]
    BY <1>0, <1>7, <1>a, <2>2, CountedType DEF RL!MarkExplicit, RL!MarkAndAsk
  <2>4. \E d \in {RL!Short, RL!Long} : RL!Locked(RL!LockName(c), d)
    BY <1>7, <1>b DEF RL!MarkExplicit, RL!MarkAndAsk
  <2> QED
    BY <2>1, <2>2, <2>3, <2>4
<1>8. ASSUME NEW c \in RateCalls, RL!MarkExplicit(c) PROVE Types' /\ Rest'
  <2>1. RL!Finish(c)
    BY <1>8 DEF RL!MarkExplicit
  <2> QED
    BY <1>0, <1>b, <1>c, <1>f, <1>7, <1>8, <2>1
<1>g. ASSUME NEW c \in RateCalls, NEW p \in {"asking", "reading"},
             rlCalls[c].at # "idle",
             rlCalls' = [rlCalls EXCEPT ![c].at = p], UNCHANGED rlBan
      PROVE  rlCalls' \in [RateCalls -> CallStates] /\ CallsNamed' /\ BanOverridden'
  BY <1>0, <1>g DEF CallStates
<1>9. ASSUME NEW c \in RateCalls, NEW reason \in RL!Reasons, RL!MarkAndAsk(c, reason)
      PROVE  Types' /\ Rest'
  <2>1. rlCalls' = [rlCalls EXCEPT ![c].at = "asking"]
    BY <1>9 DEF RL!MarkAndAsk
  <2>2. RL!MarkExplicit(c) \/ \E x \in RL!Reasons : RL!MarkAndAsk(c, x)
    BY <1>9
  <2>3. rlCalls' \in [RateCalls -> CallStates] /\ CallsNamed' /\ BanOverridden'
    BY <1>7, <1>g, <2>1, <2>2
  <2> QED
    BY <1>0, <1>b, <1>f, <1>7, <2>2, <2>3
<1>10. ASSUME NEW c \in RateCalls, RL!CapacityExhausted(c) PROVE Types' /\ Rest'
  BY <1>0, <1>c, <1>10 DEF RL!CapacityExhausted
<1>11. ASSUME NEW c \in RateCalls, RL!RealtimeReset(c) PROVE Types' /\ Rest'
  <2>1. rlCalls[c].at = "asking" /\ RL!Finish(c) /\ UNCHANGED <<rlFailures, rlBan>>
    BY <1>11 DEF RL!RealtimeReset
  <2>2. RL!LockName(c) \in Names
    BY <1>0, <1>a, <2>1 DEF RL!LockName
  <2>3. \E d \in {0, RL!Short, RL!Long} :
           /\ RL!Locked(RL!LockName(c), d) /\ rlOut' \subseteq rlOut \union {RL!LockName(c)}
           /\ d = 0 => RL!LockName(c) \notin rlOut'
    BY <1>11 DEF RL!RealtimeReset
  <2> QED
    BY <1>0, <1>c, <1>f, <2>1, <2>2, <2>3
<1>12. ASSUME NEW c \in RateCalls, RL!RealtimeFails(c) PROVE Types' /\ Rest'
  BY <1>0, <1>g, <1>12 DEF RL!RealtimeFails
<1>13. ASSUME NEW c \in RateCalls, RL!CachedReset(c) PROVE Types' /\ Rest'
  <2>1. /\ rlCalls[c].at = "reading" /\ RL!Finish(c) /\ UNCHANGED <<rlFailures, rlBan>>
        /\ rlCalls[c].model \in Names
    BY <1>0, <1>13 DEF RL!CachedReset
  <2>2. CASE \E d \in {0, RL!Short, RL!Long} :
           /\ RL!Locked(rlCalls[c].model, d)
           /\ rlOut' = IF d = 0 THEN rlOut \ {rlCalls[c].model} ELSE rlOut
    BY <1>0, <1>c, <1>f, <2>1, <2>2
  <2>3. CASE UNCHANGED <<rlLocks, rlOut>>
    BY <1>0, <1>c, <2>1, <2>3
  <2> QED
    BY <1>13, <2>2, <2>3 DEF RL!CachedReset
<1>14. CASE RL!Elapse
  <2>1. /\ rlLocks' \in [RL!Keys -> 0 .. RL!Day] /\ rlBan' \in 0 .. RL!Day
        /\ rlLocks'[RL!Account] >= rlBan' /\ (rlBan' > 0 => rlBan > 0)
    BY <1>0, <1>14, <1>a DEF RL!Elapse, RL!Day
  <2> QED
    BY <1>0, <1>14, <2>1 DEF RL!Elapse
<1>15. CASE RL!ClearAll
  BY <1>0, <1>15, <1>a, <1>b DEF RL!ClearAll
<1>16. CASE RL!Clear
  <2>1. UNCHANGED <<rlFailures, rlCalls, rlOut>> /\ rlBan' = 0 /\ RL!Locked(RL!Account, 0)
    BY <1>16 DEF RL!Clear
  <2> QED
    BY <1>0, <1>a, <1>b, <1>e, <2>1
<1>17. CASE UNCHANGED RL!rlVars
  BY <1>0, <1>17 DEF RL!rlVars
<1> QED
  BY <1>2, <1>3, <1>4, <1>5, <1>6, <1>8, <1>9, <1>10, <1>11, <1>12, <1>13, <1>14, <1>15,
     <1>16, <1>17 DEF RL!Next

(* Theorem: the invariant of the lockouts holds in every reachable state.  *)
THEOREM LimitsInvariance == ASSUME RL!RateLimitsAssumption PROVE RL!Spec => []LimitsInv
BY LimitsInit, LimitsStep, PTL DEF RL!Spec

(* Theorem: the tracker of the lockouts keeps to its types.                *)
THEOREM LimitsTypeCorrect == ASSUME RL!RateLimitsAssumption PROVE RL!Spec => []RL!TypeOK
<1>1. LimitsInv => RL!TypeOK
  BY DEF LimitsInv
<1> QED
  BY <1>1, LimitsInvariance, PTL

(* Theorem: a ban of a day (403 without a validation link, forbidden.rs)   *)
(* is never shortened by a result of a request admitted after it: as long  *)
(* as it runs, the account is locked for at least that time, for any set   *)
(* of models and requests.                                                 *)
THEOREM BanAlwaysHolds == ASSUME RL!RateLimitsAssumption PROVE RL!Spec => []BanHolds
<1>1. LimitsInv => BanHolds
  BY DEF LimitsInv, BanHolds
<1> QED
  BY <1>1, LimitsInvariance, PTL

(* Theorem: a standard id marked out by a result (explicit retry times,    *)
(* quota errors) is refused by selection until a later reading of the      *)
(* quota, a clearing or time brings it back, although the marking request  *)
(* may name the model by another name (rate_limiter.rs).                   *)
THEOREM MarkedAlwaysOut ==
  ASSUME RL!RateLimitsAssumption
  PROVE  RL!Spec => []MarkedStaysOut
<1>1. LimitsInv => MarkedStaysOut
  BY DEF LimitsInv, OutLocked, MarkedStaysOut, RL!MarkedStaysOut, RL!IsRateLimitedForModel
<1> QED
  BY <1>1, LimitsInvariance, PTL

-----------------------------------------------------------------------------
(* HealthMonitor: the flags of an account, written one by one by           *)
(* record_error, force_enable and the recovery task.                       *)

(* Between clearing the flag and clearing the rest an enabler finds the    *)
(* account enabled, unless an error disabled it again meanwhile.           *)
EnablersRace ==
    \A e \in HM!Enablers : hmEnable[e] \in {"flagged", "reset"} => ~hmDisabled \/ hmRaced

(* The inductive invariant of the health record.                           *)
HealthInv == HM!TypeOK /\ HM!DisabledCanRecover /\ EnablersRace

(* Lemma: every step keeps the fields of the record typed.                 *)
LEMMA HealthTypeStep ==
  ASSUME HM!HealthMonitorAssumption, HM!TypeOK, [HM!Next]_(HM!hmVars)
  PROVE  HM!TypeOK'
<1>1. /\ hmDisabled \in BOOLEAN /\ hmRaced \in BOOLEAN
      /\ hmSince \in {"none", "hot", "cold"}
      /\ hmReporter \in [Reporters -> {"idle", "counted", "disable", "stamp"}]
      /\ hmEnable \in [HM!Enablers -> {"idle", "found", "flagged", "reset"}]
  BY DEF HM!TypeOK
<1>2. hmErrors \in 0 .. ErrorThreshold /\ ErrorThreshold \in Nat
  BY DEF HM!TypeOK, HM!HealthMonitorAssumption
<1> USE DEF HM!CountError, HM!AlreadyDisabled, HM!ReadEnabled, HM!Disable, HM!Stamp,
            HM!RecordSuccess,
    HM!CooldownPasses, HM!FindDisabled, HM!ClearFlag, HM!ClearErrors, HM!ClearInstant,
    HM!Reregister, HM!Next, HM!hmVars
<1>3. hmErrors' \in 0 .. ErrorThreshold
  BY <1>2
<1>4. hmDisabled' \in BOOLEAN /\ hmRaced' \in BOOLEAN
  BY <1>1, Zenon
<1>5. hmSince' \in {"none", "hot", "cold"}
  BY <1>1 DEF HM!Instant
<1>6. hmReporter' \in [Reporters -> {"idle", "counted", "disable", "stamp"}]
  BY <1>1
<1>7. hmEnable' \in [HM!Enablers -> {"idle", "found", "flagged", "reset"}]
  BY <1>1
<1> QED
  BY <1>3, <1>4, <1>5, <1>6, <1>7 DEF HM!TypeOK

(* Lemma: every single write of the callers keeps a disabled account       *)
(* recoverable.                                                            *)
LEMMA HealthStep ==
  ASSUME HealthInv, [HM!Next]_(HM!hmVars)
  PROVE  HM!DisabledCanRecover' /\ EnablersRace'
<1>0. /\ hmReporter \in [Reporters -> {"idle", "counted", "disable", "stamp"}]
      /\ hmEnable \in [HM!Enablers -> {"idle", "found", "flagged", "reset"}]
  BY DEF HealthInv, HM!TypeOK
<1> USE DEF HealthInv, HM!DisabledCanRecover, EnablersRace
<1>1. ASSUME NEW r \in Reporters, HM!CountError(r)
      PROVE HM!DisabledCanRecover' /\ EnablersRace'
  BY <1>0, <1>1 DEF HM!CountError
<1>2. ASSUME NEW r \in Reporters, HM!AlreadyDisabled(r) \/ HM!ReadEnabled(r)
      PROVE HM!DisabledCanRecover' /\ EnablersRace'
  BY <1>0, <1>2 DEF HM!AlreadyDisabled, HM!ReadEnabled
<1>3. ASSUME NEW r \in Reporters, HM!Disable(r)
      PROVE HM!DisabledCanRecover' /\ EnablersRace'
  BY <1>0, <1>3 DEF HM!Disable, HM!Enabling
<1>4. ASSUME NEW r \in Reporters, HM!Stamp(r)
      PROVE HM!DisabledCanRecover' /\ EnablersRace'
  BY <1>0, <1>4 DEF HM!Stamp, HM!Instant
<1>5. CASE HM!RecordSuccess \/ HM!CooldownPasses
  BY <1>5 DEF HM!RecordSuccess, HM!CooldownPasses
<1>6. ASSUME NEW e \in HM!Enablers, HM!FindDisabled(e)
      PROVE HM!DisabledCanRecover' /\ EnablersRace'
  BY <1>0, <1>6 DEF HM!FindDisabled
<1>7. ASSUME NEW e \in HM!Enablers,
             HM!ClearFlag(e) \/ HM!ClearErrors(e) \/ HM!ClearInstant(e)
      PROVE HM!DisabledCanRecover' /\ EnablersRace'
  BY <1>0, <1>7 DEF HM!ClearFlag, HM!ClearErrors, HM!ClearInstant
<1>8. CASE HM!Reregister
  BY <1>8 DEF HM!Reregister
<1>9. CASE UNCHANGED HM!hmVars
  BY <1>9 DEF HM!hmVars
<1> QED
  BY <1>1, <1>2, <1>3, <1>4, <1>5, <1>6, <1>7, <1>8, <1>9 DEF HM!Next

(* Theorem: the invariant of the health record holds in every reachable    *)
(* state.                                                                  *)
THEOREM HealthInvariance ==
  ASSUME HM!HealthMonitorAssumption
  PROVE  HM!Spec => []HealthInv
<1>1. HM!Init => HealthInv
  <2> SUFFICES ASSUME HM!Init PROVE HealthInv
    OBVIOUS
  <2>1. hmErrors \in 0 .. ErrorThreshold
    BY DEF HM!Init, HM!HealthMonitorAssumption
  <2> QED
    BY <2>1 DEF HM!Init, HealthInv, HM!TypeOK, HM!DisabledCanRecover, EnablersRace
<1>2. HealthInv /\ [HM!Next]_(HM!hmVars) => HealthInv'
  BY HealthTypeStep, HealthStep DEF HealthInv
<1> QED
  BY <1>1, <1>2, PTL DEF HM!Spec

(* Theorem: the health record keeps to its types.                          *)
THEOREM HealthTypeCorrect ==
  ASSUME HM!HealthMonitorAssumption
  PROVE  HM!Spec => []HM!TypeOK
<1>1. HealthInv => HM!TypeOK
  BY DEF HealthInv
<1> QED
  BY <1>1, HealthInvariance, PTL

(* Theorem: a disabled account has the instant from which the recovery     *)
(* task counts its cooldown, or somebody is about to write it, unless an   *)
(* error met an enabling half done (health/monitor.rs): for any number of  *)
(* reporters and any threshold.                                            *)
THEOREM AlwaysCanRecover ==
  ASSUME HM!HealthMonitorAssumption
  PROVE  HM!Spec => []DisabledCanRecover
<1>1. HealthInv => DisabledCanRecover
  BY DEF HealthInv, DisabledCanRecover
<1> QED
  BY <1>1, HealthInvariance, PTL

-----------------------------------------------------------------------------
(* AdaptiveLimit: a limit raised and cut by recorders that count without a *)
(* lock and write under one.                                               *)

(* Lemma: the raised, cut and working limits are natural numbers on the    *)
(* right side of their bounds (aimd.rs).                                   *)
LEMMA LimitArithmetic ==
  ASSUME AL!AdaptiveLimitAssumption, NEW x \in Nat
  PROVE  /\ AL!Threshold(x) \in Nat
         /\ AL!Penalize(x) \in Nat /\ AL!Penalize(x) >= MinLimit
         /\ AL!Penalize(x) <= AL!Larger(x, MinLimit)
         /\ AL!Reward(x) \in Nat /\ AL!Reward(x) <= MaxLimit
         /\ x >= MinLimit => AL!Reward(x) >= MinLimit
BY DEF AL!AdaptiveLimitAssumption, AL!Threshold, AL!Penalize, AL!Reward, AL!Larger,
   AL!Smaller

(* Lemma: a larger limit is cut to a larger one.                           *)
LEMMA PenalizeMonotone ==
  ASSUME AL!AdaptiveLimitAssumption, NEW x \in Nat, NEW y \in Nat, x <= y
  PROVE  AL!Penalize(x) <= AL!Penalize(y)
BY DEF AL!AdaptiveLimitAssumption, AL!Penalize, AL!Larger

(* Lemma: the limit a 429 leaves is within the bounds, also when the       *)
(* requests of the minute exceed the limit (record_429 cuts whichever is   *)
(* larger).                                                                *)
LEMMA PunishedLimit ==
  ASSUME AL!AdaptiveLimitAssumption, NEW requests \in 0 .. MaxRequests,
         NEW limit \in MinLimit .. AL!Larger(MaxLimit, AL!Penalize(MaxRequests))
  PROVE  AL!Penalize(AL!Larger(requests, limit)) \in
            MinLimit .. AL!Larger(MaxLimit, AL!Penalize(MaxRequests))
<1>1. MaxRequests \in Nat /\ MaxLimit \in Nat /\ MinLimit \in Nat /\ MinLimit <= MaxLimit
  BY DEF AL!AdaptiveLimitAssumption
<1>2. AL!Penalize(MaxRequests) \in Nat /\ AL!Penalize(MaxRequests) >= MinLimit
  BY <1>1, LimitArithmetic
<1>3. requests \in Nat /\ requests <= MaxRequests /\ limit \in Nat /\ limit >= MinLimit
  BY <1>1, <1>2 DEF AL!Larger
<1>4. AL!Penalize(requests) \in Nat /\ AL!Penalize(requests) >= MinLimit
      /\ AL!Penalize(requests) <= AL!Penalize(MaxRequests)
  BY <1>1, <1>3, LimitArithmetic, PenalizeMonotone
<1>5. AL!Penalize(limit) \in Nat /\ AL!Penalize(limit) >= MinLimit
      /\ AL!Penalize(limit) <= AL!Larger(MaxLimit, AL!Penalize(MaxRequests))
  <2>1. AL!Penalize(limit) \in Nat /\ AL!Penalize(limit) >= MinLimit
        /\ AL!Penalize(limit) <= limit
    BY <1>1, <1>3, LimitArithmetic DEF AL!Larger
  <2> QED
    BY <1>1, <1>2, <1>3, <2>1 DEF AL!Larger
<1>6. AL!Larger(requests, limit) \in {requests, limit}
  BY DEF AL!Larger
<1> QED
  BY <1>1, <1>2, <1>4, <1>5, <1>6 DEF AL!Larger

(* Where a recorder may be.                                                *)
RecorderSteps == {"idle", "added", "above", "expand", "punish"}

(* Whoever is rewriting the limit holds limit_update_lock, and nobody else *)
(* does.                                                                   *)
LockHeld == \A r \in Recorders : alStep[r] \in {"expand", "punish"} <=> alLock = r

(* The count of requests above the threshold was paid for by as many       *)
(* requests not yet spent, and a recorder that found three under the lock  *)
(* still has them.                                                         *)
CreditCovers ==
    /\ alAbove \in Nat /\ alCredit \in 0 .. AL!MaxCredit
    /\ alCredit >= AL!Smaller(alAbove, AL!MaxCredit)
    /\ \A r \in Recorders : alStep[r] = "expand" => alCredit >= 3

(* The recorders that passed the third request above the threshold.        *)
Queued == {r \in Recorders : alStep[r] \in {"above", "expand"}}
(* A count beyond two is somebody's who waits for the lock or holds it.    *)
QueueCovers == alAbove <= 2 + Cardinality(Queued)

(* The limits of the tracker are within their bounds.                      *)
WithinBounds == /\ alLimit \in MinLimit .. AL!Larger(MaxLimit, AL!Penalize(MaxRequests))
          /\ alThreshold \in Nat /\ alCeiling \in Nat /\ alRequests \in 0 .. MaxRequests

(* The inductive invariant of the adaptive limit.                          *)
AdaptiveInv ==
    /\ alStep \in [Recorders -> RecorderSteps] /\ alLock \in Recorders \union {"none"}
    /\ LockHeld /\ CreditCovers /\ QueueCovers /\ WithinBounds

(* Lemma: the recorders waiting are finitely many, fewer than the bound.   *)
LEMMA QueuedFinite ==
  ASSUME AL!AdaptiveLimitAssumption
  PROVE  /\ IsFiniteSet(Queued) /\ Cardinality(Queued) \in Nat
         /\ Cardinality(Queued) + 2 <= MaxRequests
<1>1. IsFiniteSet(Recorders) /\ Cardinality(Recorders) \in Nat
      /\ Cardinality(Recorders) + 2 <= MaxRequests /\ MaxRequests \in Nat
  BY FS_CardinalityType DEF AL!AdaptiveLimitAssumption, AL!IsFiniteSet, IsFiniteSet,
     AL!Cardinality, Cardinality
<1>2. IsFiniteSet(Queued) /\ Cardinality(Queued) <= Cardinality(Recorders)
  BY <1>1, FS_Subset DEF Queued
<1> QED
  BY <1>1, <1>2, FS_CardinalityType

(* Lemma: a new tracker satisfies the invariant.                           *)
LEMMA AdaptiveInit ==
  ASSUME AL!AdaptiveLimitAssumption, AL!Init
  PROVE  AdaptiveInv
<1>1. /\ LockHeld /\ CreditCovers
      /\ alStep \in [Recorders -> RecorderSteps] /\ alLock \in Recorders \union {"none"}
  BY DEF AL!AdaptiveLimitAssumption, AL!Init, LockHeld, CreditCovers, RecorderSteps,
     AL!Smaller, AL!MaxCredit
<1>2. QueueCovers
  BY QueuedFinite DEF QueueCovers, AL!Init
<1>3. /\ AL!DefaultLimit \in MinLimit .. MaxLimit
      /\ MaxLimit \in Nat /\ MaxRequests \in Nat /\ MinLimit \in Nat
  BY DEF AL!DefaultLimit, AL!Larger, AL!Smaller, AL!AdaptiveLimitAssumption
<1>4. AL!Penalize(MaxRequests) \in Nat /\ AL!Threshold(AL!DefaultLimit) \in Nat
  BY <1>3, LimitArithmetic
<1>5. WithinBounds
  BY <1>3, <1>4 DEF WithinBounds, AL!Init, AL!Larger
<1> QED
  BY <1>1, <1>2, <1>5 DEF AdaptiveInv

(* Lemma: every step keeps the lock with its holder and the raises paid.   *)
LEMMA CreditStep ==
  ASSUME AL!AdaptiveLimitAssumption, AdaptiveInv, [AL!Next]_(AL!alVars)
  PROVE  /\ alStep' \in [Recorders -> RecorderSteps]
         /\ alLock' \in Recorders \union {"none"}
         /\ LockHeld' /\ CreditCovers'
<1> USE DEF AdaptiveInv, LockHeld, CreditCovers, RecorderSteps, AL!Go, AL!alTracker,
            AL!Smaller, AL!MaxCredit
<1> DEFINE Goal == /\ alStep' \in [Recorders -> RecorderSteps]
                   /\ alLock' \in Recorders \union {"none"}
                   /\ LockHeld' /\ CreditCovers'
<1>1. ASSUME NEW r \in Recorders, AL!AddRequest(r) PROVE Goal
  BY <1>1 DEF AL!AddRequest
<1>2. ASSUME NEW r \in Recorders, AL!AddAbove(r) PROVE Goal
  BY <1>2 DEF AL!AddAbove
<1>3. ASSUME NEW r \in Recorders, AL!EnterExpand(r) PROVE Goal
  BY <1>3 DEF AL!EnterExpand, AL!StillDue, AL!AdaptiveLimitAssumption
<1>4. ASSUME NEW r \in Recorders, AL!Expand(r) PROVE Goal
  BY <1>4 DEF AL!Expand, AL!AdaptiveLimitAssumption
<1>5. CASE AL!ResetAbove
  BY <1>5 DEF AL!ResetAbove
<1>6. ASSUME NEW r \in Recorders, AL!EnterPunish(r) PROVE Goal
  BY <1>6 DEF AL!EnterPunish, AL!AdaptiveLimitAssumption
<1>7. ASSUME NEW r \in Recorders, AL!Punish(r) PROVE Goal
  BY <1>7 DEF AL!Punish, AL!AdaptiveLimitAssumption
<1>8. CASE AL!NewMinute \/ UNCHANGED AL!alVars
  BY <1>8 DEF AL!NewMinute, AL!alVars
<1>9. CASE AL!LoadPersisted
  BY <1>9 DEF AL!LoadPersisted
<1> QED
  BY <1>1, <1>2, <1>3, <1>4, <1>5, <1>6, <1>7, <1>8, <1>9 DEF AL!Next

(* Lemma: every step keeps the count within the recorders that wait.       *)
LEMMA QueueStep ==
  ASSUME AL!AdaptiveLimitAssumption, AdaptiveInv, [AL!Next]_(AL!alVars)
  PROVE  QueueCovers'
<1>0. alStep \in [Recorders -> RecorderSteps] /\ alAbove \in Nat /\ QueueCovers
  BY DEF AdaptiveInv, CreditCovers
<1>a. Cardinality(Queued) \in Nat /\ Cardinality(Queued') \in Nat
  <2>1. IsFiniteSet(Recorders)
    BY DEF AL!AdaptiveLimitAssumption, AL!IsFiniteSet, IsFiniteSet
  <2>2. IsFiniteSet(Queued')
    BY <2>1, FS_Subset DEF Queued
  <2> QED
    BY <2>2, QueuedFinite, FS_CardinalityType
<1>b. ASSUME UNCHANGED alAbove, Queued' = Queued PROVE QueueCovers'
  BY <1>0, <1>b DEF QueueCovers
<1>c. ASSUME alAbove' \in 0 .. 2 PROVE QueueCovers'
  BY <1>a, <1>c DEF QueueCovers
<1> USE DEF AL!Go, AL!alTracker, RecorderSteps
<1>1. ASSUME NEW r \in Recorders, AL!AddRequest(r) PROVE QueueCovers'
  BY <1>0, <1>1, <1>b DEF AL!AddRequest, Queued
<1>2. ASSUME NEW r \in Recorders, AL!AddAbove(r) PROVE QueueCovers'
  <2>1. CASE alAbove + 1 < 3
    BY <1>0, <1>2, <1>c, <2>1 DEF AL!AddAbove
  <2>2. CASE alAbove + 1 >= 3
    <3>1. Queued' = Queued \union {r} /\ r \notin Queued /\ alAbove' = alAbove + 1
      BY <1>0, <1>2, <2>2 DEF AL!AddAbove, Queued
    <3>2. Cardinality(Queued') = Cardinality(Queued) + 1
      BY <3>1, QueuedFinite, FS_AddElement
    <3> QED
      BY <1>0, <1>a, <3>1, <3>2 DEF QueueCovers
  <2> QED
    BY <1>0, <2>1, <2>2
<1>3. ASSUME NEW r \in Recorders, AL!EnterExpand(r) PROVE QueueCovers'
  <2>1. CASE AL!StillDue
    BY <1>0, <1>3, <1>b, <2>1 DEF AL!EnterExpand, Queued
  <2>2. CASE ~AL!StillDue
    BY <1>0, <1>3, <1>c, <2>2 DEF AL!EnterExpand, AL!StillDue
  <2> QED
    BY <2>1, <2>2
<1>4. ASSUME NEW r \in Recorders, AL!Expand(r) \/ AL!Punish(r) PROVE QueueCovers'
  BY <1>4, <1>c DEF AL!Expand, AL!Punish
<1>5. CASE AL!ResetAbove \/ AL!LoadPersisted
  BY <1>5, <1>c DEF AL!ResetAbove, AL!LoadPersisted
<1>6. ASSUME NEW r \in Recorders, AL!EnterPunish(r) PROVE QueueCovers'
  BY <1>0, <1>6, <1>b DEF AL!EnterPunish, Queued
<1>7. CASE AL!NewMinute \/ UNCHANGED AL!alVars
  BY <1>7, <1>b DEF AL!NewMinute, AL!alVars, Queued
<1> QED
  BY <1>1, <1>2, <1>3, <1>4, <1>5, <1>6, <1>7 DEF AL!Next

(* Lemma: every step keeps the limits within their bounds.                 *)
LEMMA BoundsStep ==
  ASSUME AL!AdaptiveLimitAssumption, AdaptiveInv, [AL!Next]_(AL!alVars)
  PROVE  WithinBounds'
<1>0. /\ alLimit \in MinLimit .. AL!Larger(MaxLimit, AL!Penalize(MaxRequests))
      /\ alThreshold \in Nat /\ alCeiling \in Nat /\ alRequests \in 0 .. MaxRequests
  BY DEF AdaptiveInv, WithinBounds
<1>a. MaxRequests \in Nat /\ MaxLimit \in Nat /\ MinLimit \in Nat /\ MinLimit <= MaxLimit
  BY DEF AL!AdaptiveLimitAssumption
<1>b. AL!Penalize(MaxRequests) \in Nat
  BY <1>a, LimitArithmetic
<1>c. alLimit \in Nat /\ alLimit >= MinLimit
  BY <1>0, <1>a, <1>b DEF AL!Larger
<1>d. ASSUME NEW x \in MinLimit .. MaxLimit
      PROVE  x \in Nat /\ x \in MinLimit .. AL!Larger(MaxLimit, AL!Penalize(MaxRequests))
  BY <1>a, <1>b, <1>d DEF AL!Larger
<1>1. ASSUME UNCHANGED AL!alTracker, alRequests' \in 0 .. MaxRequests
      PROVE WithinBounds'
  BY <1>0, <1>1 DEF WithinBounds, AL!alTracker
<1>2. ASSUME NEW r \in Recorders, AL!AddRequest(r) PROVE WithinBounds'
  <2>1. alRequests' \in 0 .. MaxRequests
    BY <1>0, <1>2, <1>a DEF AL!AddRequest
  <2> QED
    BY <1>1, <1>2, <2>1 DEF AL!AddRequest
<1>3. ASSUME NEW r \in Recorders,
             AL!AddAbove(r) \/ AL!EnterExpand(r) \/ AL!EnterPunish(r)
      PROVE  WithinBounds'
  BY <1>0, <1>1, <1>3 DEF AL!AddAbove, AL!EnterExpand, AL!EnterPunish
<1>4. ASSUME NEW r \in Recorders, AL!Expand(r) PROVE WithinBounds'
  <2>1. AL!Reward(alLimit) \in MinLimit .. MaxLimit
    BY <1>a, <1>c, LimitArithmetic
  <2>2. AL!Reward(alLimit) \in Nat /\ AL!Threshold(AL!Reward(alLimit)) \in Nat
    BY <1>d, <2>1, LimitArithmetic
  <2> QED
    BY <1>0, <1>4, <1>d, <2>1, <2>2 DEF AL!Expand, WithinBounds, AL!Larger
<1>5. ASSUME NEW r \in Recorders, AL!Punish(r) PROVE WithinBounds'
  <2>1. AL!Penalize(AL!Larger(alRequests, alLimit)) \in
            MinLimit .. AL!Larger(MaxLimit, AL!Penalize(MaxRequests))
    BY <1>0, PunishedLimit
  <2>2. AL!Larger(alRequests, alLimit) \in Nat
    BY <1>0, <1>c DEF AL!Larger
  <2>3. AL!Threshold(AL!Penalize(AL!Larger(alRequests, alLimit))) \in Nat
    BY <2>2, LimitArithmetic
  <2> QED
    BY <1>0, <1>5, <2>1, <2>2, <2>3 DEF AL!Punish, WithinBounds
<1>6. CASE AL!ResetAbove \/ AL!NewMinute
  BY <1>0, <1>1, <1>6, <1>a DEF AL!ResetAbove, AL!NewMinute
<1>7. CASE AL!LoadPersisted
  <2>1. PICK x \in MinLimit .. MaxLimit : alLimit' = x /\ alThreshold' = AL!Threshold(x)
    <3> DEFINE Trusted(p) ==
                 AL!Smaller(AL!Larger((alLimit * p) \div 100, MinLimit), MaxLimit)
    <3>1. PICK p \in {100, 90, 70, 50} :
             alLimit' = Trusted(p) /\ alThreshold' = AL!Threshold(Trusted(p))
      BY <1>7 DEF AL!LoadPersisted
    <3>2. (alLimit * p) \div 100 \in Nat
      BY <1>c
    <3>3. Trusted(p) \in MinLimit .. MaxLimit
      BY <1>a, <3>2 DEF AL!Smaller, AL!Larger
    <3> QED
      BY <3>1, <3>3
  <2>2. alThreshold' \in Nat
    BY <1>d, <2>1, LimitArithmetic
  <2>3. alRequests' \in 0 .. MaxRequests /\ alCeiling' \in Nat
    BY <1>0, <1>7, <1>a DEF AL!LoadPersisted
  <2> QED
    BY <1>d, <2>1, <2>2, <2>3 DEF WithinBounds
<1>8. CASE UNCHANGED AL!alVars
  BY <1>0, <1>1, <1>8 DEF AL!alVars, AL!alTracker
<1> QED
  BY <1>2, <1>3, <1>4, <1>5, <1>6, <1>7, <1>8 DEF AL!Next

(* Theorem: the invariant of the adaptive limit holds in every reachable   *)
(* state.                                                                  *)
THEOREM AdaptiveInvariance ==
  ASSUME AL!AdaptiveLimitAssumption
  PROVE  AL!Spec => []AdaptiveInv
<1>1. AdaptiveInv /\ [AL!Next]_(AL!alVars) => AdaptiveInv'
  BY CreditStep, QueueStep, BoundsStep DEF AdaptiveInv
<1> QED
  BY <1>1, AdaptiveInit, PTL DEF AL!Spec

(* Theorem: the adaptive limit keeps to its types: it never falls below    *)
(* the minimum and never exceeds the maximum but by the requests a minute  *)
(* really had, and the count in a row is bounded by the recorders at work. *)
THEOREM AdaptiveTypeCorrect ==
  ASSUME AL!AdaptiveLimitAssumption
  PROVE  AL!Spec => []AL!TypeOK
<1>1. ASSUME AdaptiveInv PROVE AL!TypeOK
  <2>1. alAbove \in 0 .. MaxRequests
    <3>1. alAbove \in Nat /\ alAbove <= 2 + Cardinality(Queued)
      BY <1>1 DEF AdaptiveInv, QueueCovers, CreditCovers
    <3> QED
      BY <3>1, QueuedFinite DEF AL!AdaptiveLimitAssumption
  <2>2. alCredit \in 0 .. AL!MaxCredit
    BY <1>1 DEF AdaptiveInv, CreditCovers
  <2> QED
    BY <1>1, <2>1, <2>2 DEF AdaptiveInv, WithinBounds, AL!TypeOK, RecorderSteps
<1> QED
  BY <1>1, AdaptiveInvariance, PTL

(* Theorem: every raise of the limit is paid for by three requests above   *)
(* the threshold of its own and made by the only recorder rewriting it,    *)
(* for any number of recorders racing for the lock (tracker.rs:166-175).   *)
THEOREM RaisesPaid ==
  ASSUME AL!AdaptiveLimitAssumption
  PROVE  AL!Spec => [][AL!RaiseIsPaid]_(AL!alVars)
<1>1. ASSUME AdaptiveInv PROVE AL!RaiseIsPaid
  BY <1>1 DEF AdaptiveInv, LockHeld, CreditCovers, AL!RaiseIsPaid
<1>2. AdaptiveInv => [AL!RaiseIsPaid]_(AL!alVars)
  BY <1>1
<1> QED
  BY <1>2, AdaptiveInvariance, PTL

-----------------------------------------------------------------------------
(* EndpointFallback: one call over the list of endpoints, their health     *)
(* shared with other calls.                                                *)

(* What a call may be doing.                                               *)
CallRecords == [at : {"idle", "choose", "sent", "success", "response", "error"},
                endpoint : EF!Endpoints, retries : 0 .. EF!MaxTransportRetries]
(* What a call may have met.                                               *)
SeenRecords == [answered : SUBSET EF!Endpoints, failed : SUBSET EF!Endpoints,
                skipped : SUBSET EF!Endpoints]

(* The endpoints the call has an opinion of: tried or skipped.             *)
Judged(c) == efSeen[c].answered \union efSeen[c].failed \union efSeen[c].skipped

(* A call has judged exactly the endpoints before its own; one that ended  *)
(* with an error has judged all of them, and the last one did not answer   *)
(* it.                                                                     *)
JudgedInOrder ==
    \A c \in UpstreamCalls :
        /\ efCall[c].at \in {"choose", "sent"} => Judged(c) = 1 .. efCall[c].endpoint - 1
        /\ efCall[c].at = "error" =>
              Judged(c) = EF!Endpoints /\ EndpointCount \notin efSeen[c].answered

(* The inductive invariant of the fallback.                                *)
EndpointInv == EF!TypeOK /\ JudgedInOrder

(* Lemma: an outcome is noted for the current endpoint of one call.        *)
LEMMA SawEffect ==
  ASSUME efSeen \in [UpstreamCalls -> SeenRecords], NEW c \in UpstreamCalls,
         efCall[c].endpoint \in EF!Endpoints,
         NEW what \in {"answered", "failed", "skipped"}, EF!Saw(c, what)
  PROVE  /\ efSeen' \in [UpstreamCalls -> SeenRecords]
         /\ \A d \in UpstreamCalls \ {c} : efSeen'[d] = efSeen[d]
         /\ Judged(c)' = Judged(c) \union {efCall[c].endpoint}
         /\ efSeen'[c].answered =
              IF what = "answered" THEN efSeen[c].answered \union {efCall[c].endpoint}
              ELSE efSeen[c].answered
<1>1. CASE what = "answered"
  BY <1>1 DEF EF!Saw, EF!At, SeenRecords, Judged
<1>2. CASE what = "failed"
  BY <1>2 DEF EF!Saw, EF!At, SeenRecords, Judged
<1>3. CASE what = "skipped"
  BY <1>3 DEF EF!Saw, EF!At, SeenRecords, Judged
<1> QED
  BY <1>1, <1>2, <1>3

(* Lemma: a call goes on with the next endpoint, or ends with an error at  *)
(* the last.                                                               *)
LEMMA AdvanceEffect ==
  ASSUME efCall \in [UpstreamCalls -> CallRecords], EF!EndpointFallbackAssumption,
         NEW c \in UpstreamCalls, EF!Advance(c)
  PROVE  /\ efCall' \in [UpstreamCalls -> CallRecords]
         /\ \A d \in UpstreamCalls \ {c} : efCall'[d] = efCall[d]
         /\ IF efCall[c].endpoint < EndpointCount
              THEN /\ efCall'[c].at = "choose"
                   /\ efCall'[c].endpoint = efCall[c].endpoint + 1
              ELSE efCall'[c].at = "error"
<1>1. CASE efCall[c].endpoint < EndpointCount
  <2>1. efCall[c].endpoint + 1 \in EF!Endpoints
    BY <1>1 DEF EF!EndpointFallbackAssumption, CallRecords, EF!Endpoints
  <2>2. [at |-> "choose", endpoint |-> efCall[c].endpoint + 1, retries |-> 0]
           \in CallRecords
    BY <2>1 DEF CallRecords, EF!MaxTransportRetries
  <2> QED
    BY <1>1, <2>2 DEF EF!Advance, EF!HasNext, EF!At
<1>2. CASE ~ (efCall[c].endpoint < EndpointCount)
  BY <1>2 DEF EF!Advance, EF!HasNext, EF!At, CallRecords
<1> QED
  BY <1>1, <1>2

(* Lemma: an answer moves one call and keeps its endpoint.                 *)
LEMMA AnswerEffect ==
  ASSUME efCall \in [UpstreamCalls -> CallRecords], NEW c \in UpstreamCalls,
         NEW kind \in {"sent", "success", "response"}, EF!Answer(c, kind)
  PROVE  /\ efCall' \in [UpstreamCalls -> CallRecords]
         /\ \A d \in UpstreamCalls \ {c} : efCall'[d] = efCall[d]
         /\ efCall'[c].at = kind /\ efCall'[c].endpoint = efCall[c].endpoint
BY DEF EF!Answer, CallRecords

(* Lemma: every step of a call preserves the invariant, whatever the other *)
(* calls do to the health of the endpoints.                                *)
LEMMA EndpointStep ==
  ASSUME EF!EndpointFallbackAssumption, EndpointInv, [EF!Next]_(EF!efVars)
  PROVE  EndpointInv'
<1> DEFINE Types == /\ efFailures \in [EF!Endpoints -> 0 .. SkipAfter]
                    /\ efRecent \in [EF!Endpoints -> BOOLEAN]
                    /\ efCall \in [UpstreamCalls -> CallRecords]
                    /\ efSeen \in [UpstreamCalls -> SeenRecords]
           InOrder(d) ==
             /\ efCall[d].at \in {"choose", "sent"} =>
                   Judged(d) = 1 .. efCall[d].endpoint - 1
             /\ efCall[d].at = "error" =>
                   Judged(d) = EF!Endpoints /\ EndpointCount \notin efSeen[d].answered
<1>0. Types /\ \A d \in UpstreamCalls : InOrder(d)
  BY DEF EndpointInv, EF!TypeOK, JudgedInOrder, CallRecords, SeenRecords
<1>a. ASSUME NEW d \in UpstreamCalls PROVE efCall[d].endpoint \in EF!Endpoints
  BY <1>0 DEF CallRecords
<1>f. efFailures \in [EF!Endpoints -> 0 .. SkipAfter] /\ SkipAfter \in Nat
  BY <1>0 DEF EF!EndpointFallbackAssumption
<1>b. ASSUME NEW c \in UpstreamCalls,
             efCall'[c].at \in {"idle", "choose", "sent", "success", "response", "error"},
             \A d \in UpstreamCalls \ {c} :
                efCall'[d] = efCall[d] /\ efSeen'[d] = efSeen[d],
             InOrder(c)'
      PROVE  \A d \in UpstreamCalls : InOrder(d)'
  BY <1>0, <1>b DEF Judged
<1>1. SUFFICES Types' /\ \A d \in UpstreamCalls : InOrder(d)'
  BY DEF EndpointInv, EF!TypeOK, JudgedInOrder, CallRecords, SeenRecords
<1>c. ASSUME NEW c \in UpstreamCalls, NEW what \in {"answered", "failed", "skipped"},
             efCall[c].at \in {"choose", "sent"}, EF!Saw(c, what), EF!Advance(c),
             what = "answered" => EF!HasNext(EF!At(c))
      PROVE  /\ efCall' \in [UpstreamCalls -> CallRecords]
             /\ efSeen' \in [UpstreamCalls -> SeenRecords]
             /\ \A d \in UpstreamCalls : InOrder(d)'
  <2>1. /\ Judged(c)' = Judged(c) \union {efCall[c].endpoint}
        /\ what # "answered" => efSeen'[c].answered = efSeen[c].answered
        /\ Judged(c) = 1 .. efCall[c].endpoint - 1
    BY <1>0, <1>a, <1>c, SawEffect
  <2>2. efCall[c].endpoint \in 1 .. EndpointCount /\ EndpointCount \in Nat
    BY <1>a DEF EF!Endpoints, EF!EndpointFallbackAssumption
  <2>3. Judged(c)' = 1 .. efCall[c].endpoint
    BY <2>1, <2>2
  <2>4. ASSUME efCall[c].endpoint < EndpointCount PROVE InOrder(c)'
    <3>1. efCall'[c].at = "choose" /\ efCall'[c].endpoint = efCall[c].endpoint + 1
      BY <1>0, <1>c, <2>4, AdvanceEffect
    <3> QED
      BY <2>2, <2>3, <3>1
  <2>5. ASSUME efCall[c].endpoint = EndpointCount PROVE InOrder(c)'
    <3>1. efCall'[c].at = "error" /\ what # "answered"
      BY <1>0, <1>c, <2>2, <2>5, AdvanceEffect DEF EF!HasNext, EF!At
    <3>2. EndpointCount \notin efSeen[c].answered
      BY <2>1, <2>2, <2>5 DEF Judged
    <3> QED
      BY <2>1, <2>3, <2>5, <3>1, <3>2 DEF EF!Endpoints
  <2>6. InOrder(c)'
    BY <2>2, <2>4, <2>5
  <2> QED
    BY <1>0, <1>a, <1>c, <2>6, SawEffect, AdvanceEffect DEF Judged
<1>d. ASSUME NEW c \in UpstreamCalls, NEW kind \in {"success", "response"},
             EF!Saw(c, "answered"), EF!Answer(c, kind)
      PROVE  /\ efCall' \in [UpstreamCalls -> CallRecords]
             /\ efSeen' \in [UpstreamCalls -> SeenRecords]
             /\ \A d \in UpstreamCalls : InOrder(d)'
  BY <1>0, <1>a, <1>d, SawEffect, AnswerEffect DEF Judged
<1>2. ASSUME NEW c \in UpstreamCalls, EF!Begin(c)
      PROVE Types' /\ \A d \in UpstreamCalls : InOrder(d)'
  <2>1. [EF!NotCalling EXCEPT !.at = "choose"]
           = [at |-> "choose", endpoint |-> 1, retries |-> 0]
    BY DEF EF!NotCalling
  <2>2. [at |-> "choose", endpoint |-> 1, retries |-> 0] \in CallRecords
    BY DEF CallRecords, EF!Endpoints, EF!MaxTransportRetries,
       EF!EndpointFallbackAssumption
  <2>3. EF!NothingSeen \in SeenRecords
    BY DEF EF!NothingSeen, SeenRecords
  <2>4. /\ Types' /\ efSeen'[c] = EF!NothingSeen
        /\ efCall'[c].at = "choose" /\ efCall'[c].endpoint = 1
    BY <1>0, <1>2, <2>1, <2>2, <2>3 DEF EF!Begin
  <2>5. InOrder(c)'
    BY <2>4 DEF EF!NothingSeen, Judged
  <2> QED
    BY <1>0, <1>2, <1>b, <2>4, <2>5 DEF EF!Begin
<1>3. ASSUME NEW c \in UpstreamCalls, EF!Skip(c)
      PROVE Types' /\ \A d \in UpstreamCalls : InOrder(d)'
  BY <1>0, <1>3, <1>c DEF EF!Skip
<1>4. ASSUME NEW c \in UpstreamCalls, EF!Send(c)
      PROVE Types' /\ \A d \in UpstreamCalls : InOrder(d)'
  BY <1>0, <1>4, AnswerEffect DEF EF!Send, Judged
<1>5. ASSUME NEW c \in UpstreamCalls, EF!Succeed(c)
      PROVE Types' /\ \A d \in UpstreamCalls : InOrder(d)'
  <2>1. efFailures' = [efFailures EXCEPT ![EF!At(c)] = 0]
    BY <1>5 DEF EF!Succeed
  <2>2. efFailures' \in [EF!Endpoints -> 0 .. SkipAfter]
    BY <1>a, <1>f, <2>1 DEF EF!At
  <2> QED
    BY <1>0, <1>5, <1>d, <2>2 DEF EF!Succeed
<1>6. ASSUME NEW c \in UpstreamCalls, EF!TryNextEndpoint(c)
      PROVE  Types' /\ \A d \in UpstreamCalls : InOrder(d)'
  BY <1>0, <1>6, <1>c DEF EF!TryNextEndpoint, EF!FallsBack
<1>7. ASSUME NEW c \in UpstreamCalls, EF!ReturnResponse(c)
      PROVE  Types' /\ \A d \in UpstreamCalls : InOrder(d)'
  BY <1>0, <1>7, <1>d DEF EF!ReturnResponse
<1>8. ASSUME NEW c \in UpstreamCalls, EF!RetryTransport(c)
      PROVE  Types' /\ \A d \in UpstreamCalls : InOrder(d)'
  BY <1>0, <1>8 DEF EF!RetryTransport, CallRecords, EF!MaxTransportRetries, Judged
<1>9. ASSUME NEW c \in UpstreamCalls, EF!TransportFails(c)
      PROVE  Types' /\ \A d \in UpstreamCalls : InOrder(d)'
  <2>1. efFailures' = [efFailures EXCEPT ![EF!At(c)] =
              IF efFailures[EF!At(c)] < SkipAfter THEN efFailures[EF!At(c)] + 1
              ELSE efFailures[EF!At(c)]]
    BY <1>9 DEF EF!TransportFails
  <2>2. efFailures' \in [EF!Endpoints -> 0 .. SkipAfter]
    BY <1>a, <1>f, <2>1 DEF EF!At
  <2>3. efRecent' \in [EF!Endpoints -> BOOLEAN]
    BY <1>0, <1>9 DEF EF!TransportFails
  <2> QED
    BY <1>0, <1>9, <1>c, <2>2, <2>3 DEF EF!TransportFails
<1>10. ASSUME NEW e \in EF!Endpoints, EF!SkipPeriodEnds(e)
       PROVE  Types' /\ \A d \in UpstreamCalls : InOrder(d)'
  <2>1. efRecent' \in [EF!Endpoints -> BOOLEAN]
    BY <1>0, <1>10 DEF EF!SkipPeriodEnds
  <2> QED
    BY <1>0, <1>10, <2>1 DEF EF!SkipPeriodEnds, Judged
<1>11. CASE UNCHANGED EF!efVars
  BY <1>0, <1>11 DEF EF!efVars, Judged
<1> QED
  BY <1>2, <1>3, <1>4, <1>5, <1>6, <1>7, <1>8, <1>9, <1>10, <1>11 DEF EF!Next

(* Theorem: the invariant of the fallback holds in every reachable state.  *)
THEOREM EndpointInvariance ==
  ASSUME EF!EndpointFallbackAssumption
  PROVE  EF!Spec => []EndpointInv
<1>1. EF!Init => EndpointInv
  <2> SUFFICES ASSUME EF!Init PROVE EndpointInv
    OBVIOUS
  <2>1. EF!NotCalling \in CallRecords /\ EF!NotCalling.at = "idle"
    BY DEF EF!NotCalling, CallRecords, EF!Endpoints, EF!MaxTransportRetries,
       EF!EndpointFallbackAssumption
  <2>2. EF!NothingSeen \in SeenRecords
    BY DEF EF!NothingSeen, SeenRecords
  <2>3. /\ efFailures \in [EF!Endpoints -> 0 .. SkipAfter]
        /\ efCall \in [UpstreamCalls -> CallRecords]
        /\ efSeen \in [UpstreamCalls -> SeenRecords]
    BY <2>1, <2>2 DEF EF!Init, EF!EndpointFallbackAssumption
  <2>4. efRecent \in [EF!Endpoints -> BOOLEAN]
    BY DEF EF!Init
  <2>5. JudgedInOrder
    BY <2>1 DEF EF!Init, JudgedInOrder
  <2> QED
    BY <2>3, <2>4, <2>5 DEF EndpointInv, EF!TypeOK, CallRecords, SeenRecords
<1> QED
  BY <1>1, EndpointStep, PTL DEF EF!Spec

(* Theorem: calls and the health of the endpoints keep to their types.     *)
THEOREM EndpointTypeCorrect ==
  ASSUME EF!EndpointFallbackAssumption
  PROVE  EF!Spec => []EF!TypeOK
<1>1. EndpointInv => EF!TypeOK
  BY DEF EndpointInv
<1> QED
  BY <1>1, EndpointInvariance, PTL

(* Theorem: a call ends with an error only after every endpoint was tried  *)
(* or skipped, and an endpoint's answer is given up only where a later     *)
(* endpoint failed or was skipped (request_executor.rs), for any number of *)
(* endpoints and calls.                                                    *)
THEOREM AnswersLostOnlyToLaterFailures ==
  ASSUME EF!EndpointFallbackAssumption PROVE EF!Spec => []AnswerLostOnlyToLaterFailure
<1>1. EndpointInv => AnswerLostOnlyToLaterFailure
  <2> SUFFICES ASSUME EndpointInv, NEW c \in UpstreamCalls, efCall[c].at = "error"
      PROVE  /\ Judged(c) = EF!Endpoints
             /\ \A a \in efSeen[c].answered :
                   \E e \in efSeen[c].failed \union efSeen[c].skipped : e > a
    BY DEF AnswerLostOnlyToLaterFailure,
           EF!AnswerLostOnlyToLaterFailure, Judged
  <2>1. Judged(c) = EF!Endpoints /\ EndpointCount \notin efSeen[c].answered
    BY DEF EndpointInv, JudgedInOrder
  <2>2. EndpointCount \in efSeen[c].failed \union efSeen[c].skipped
    BY <2>1 DEF Judged, EF!Endpoints, EF!EndpointFallbackAssumption
  <2>3. ASSUME NEW a \in efSeen[c].answered PROVE EndpointCount > a
    BY <2>1 DEF Judged, EF!Endpoints, EF!EndpointFallbackAssumption
  <2> QED
    BY <2>1, <2>2, <2>3
<1> QED
  BY <1>1, EndpointInvariance, PTL

-----------------------------------------------------------------------------
(* CircuitBreaker: the breaker of an account.                              *)

(* The inductive invariant of the breaker.                                 *)
BreakerInv == CB!TypeOK /\ CB!ProbeIsHeld

(* Lemma: every operation keeps the breaker typed and its counters within  *)
(* their thresholds.                                                       *)
LEMMA BreakerTypeStep ==
  ASSUME CB!CircuitBreakerAssumption, CB!TypeOK, [CB!Next]_(CB!cbVars)
  PROVE  CB!TypeOK'
<1>1. /\ cbState \in {"Closed", "Open", "HalfOpen"}
      /\ cbDue \in BOOLEAN /\ cbProbe \in BOOLEAN /\ cbAbandoned \in BOOLEAN
      /\ cbCalls \in [BreakerCalls -> {"idle", "in", "probe"}]
  BY DEF CB!TypeOK
<1>2. cbFailures \in 0 .. FailureThreshold /\ cbSuccesses \in 0 .. SuccessThreshold
      /\ FailureThreshold \in Nat /\ SuccessThreshold \in Nat
  BY DEF CB!TypeOK, CB!CircuitBreakerAssumption
<1>3. cbFailures' \in 0 .. FailureThreshold /\ cbSuccesses' \in 0 .. SuccessThreshold
  <2>1. ASSUME NEW c \in BreakerCalls, CB!RecordSuccess(c)
        PROVE  /\ cbFailures' \in {cbFailures, 0}
               /\ \/ cbSuccesses' \in {cbSuccesses, 0}
                  \/ cbSuccesses' = cbSuccesses + 1 /\ ~ CB!Recovered
    BY <2>1, Zenon DEF CB!RecordSuccess, CB!cbCircuit
  <2>2. ASSUME NEW c \in BreakerCalls, CB!RecordFailure(c)
        PROVE  cbFailures' \in 0 .. FailureThreshold /\ cbSuccesses' = 0
    BY <1>2, <2>2 DEF CB!RecordFailure
  <2>3. \/ \E c \in BreakerCalls : CB!RecordSuccess(c) \/ CB!RecordFailure(c)
        \/ cbFailures' \in {cbFailures, 0} /\ cbSuccesses' \in {cbSuccesses, 0}
    BY Zenon DEF CB!AllowClosed, CB!AllowHalfOpening, CB!AllowProbe,
      CB!OpenDurationElapses, CB!Abandon, CB!Reset, CB!Next, CB!cbVars, CB!cbCircuit
  <2> QED
    BY <1>2, <2>1, <2>2, <2>3 DEF CB!Recovered
<1> USE DEF CB!AllowClosed, CB!AllowHalfOpening, CB!AllowProbe, CB!OpenDurationElapses,
    CB!RecordSuccess, CB!RecordFailure, CB!Abandon, CB!Reset, CB!Next, CB!cbVars,
    CB!cbCircuit
<1>4. cbState' \in {"Closed", "Open", "HalfOpen"}
  BY <1>1
<1>5. cbDue' \in BOOLEAN /\ cbProbe' \in BOOLEAN /\ cbAbandoned' \in BOOLEAN
  BY <1>1, Zenon DEF CB!ProbeFlagAfterSuccess
<1>6. cbCalls' \in [BreakerCalls -> {"idle", "in", "probe"}]
  BY <1>1
<1> QED
  BY <1>3, <1>4, <1>5, <1>6 DEF CB!TypeOK

(* Lemma: every operation keeps the probe flag with a probe.               *)
LEMMA BreakerStep ==
  ASSUME BreakerInv, [CB!Next]_(CB!cbVars)
  PROVE  CB!ProbeIsHeld'
<1>0. cbCalls \in [BreakerCalls -> {"idle", "in", "probe"}]
  BY DEF BreakerInv, CB!TypeOK
<1> USE DEF BreakerInv, CB!ProbeIsHeld, CB!cbCircuit
<1>1. ASSUME NEW c \in BreakerCalls, CB!AllowClosed(c) \/ CB!AllowHalfOpening(c)
      PROVE  CB!ProbeIsHeld'
  BY <1>0, <1>1 DEF CB!AllowClosed, CB!AllowHalfOpening
<1>2. ASSUME NEW c \in BreakerCalls, CB!AllowProbe(c) PROVE CB!ProbeIsHeld'
  BY <1>0, <1>2 DEF CB!AllowProbe
<1>3. ASSUME NEW c \in BreakerCalls, CB!RecordSuccess(c) PROVE CB!ProbeIsHeld'
  BY <1>0, <1>3 DEF CB!RecordSuccess, CB!ProbeFlagAfterSuccess
<1>4. ASSUME NEW c \in BreakerCalls, CB!RecordFailure(c) PROVE CB!ProbeIsHeld'
  BY <1>0, <1>4 DEF CB!RecordFailure
<1>5. ASSUME NEW c \in BreakerCalls, CB!Abandon(c) PROVE CB!ProbeIsHeld'
  BY <1>0, <1>5 DEF CB!Abandon
<1>6. CASE CB!OpenDurationElapses \/ CB!Reset
  BY <1>6 DEF CB!OpenDurationElapses, CB!Reset
<1>7. CASE UNCHANGED CB!cbVars
  BY <1>7 DEF CB!cbVars
<1> QED
  BY <1>1, <1>2, <1>3, <1>4, <1>5, <1>6, <1>7 DEF CB!Next

(* Theorem: the invariant of the breaker holds in every reachable state.   *)
THEOREM BreakerInvariance ==
  ASSUME CB!CircuitBreakerAssumption
  PROVE  CB!Spec => []BreakerInv
<1>1. CB!Init => BreakerInv
  <2> SUFFICES ASSUME CB!Init PROVE BreakerInv
    OBVIOUS
  <2>1. cbFailures \in 0 .. FailureThreshold /\ cbSuccesses \in 0 .. SuccessThreshold
    BY DEF CB!Init, CB!CircuitBreakerAssumption
  <2>2. /\ cbState \in {"Closed", "Open", "HalfOpen"}
        /\ cbDue \in BOOLEAN /\ cbProbe \in BOOLEAN /\ cbAbandoned \in BOOLEAN
        /\ cbCalls \in [BreakerCalls -> {"idle", "in", "probe"}]
    BY DEF CB!Init
  <2> QED
    BY <2>1, <2>2 DEF CB!Init, BreakerInv, CB!TypeOK, CB!ProbeIsHeld
<1>2. BreakerInv /\ [CB!Next]_(CB!cbVars) => BreakerInv'
  BY BreakerTypeStep, BreakerStep DEF BreakerInv
<1> QED
  BY <1>1, <1>2, PTL DEF CB!Spec

(* Theorem: the breaker keeps to its types.                                *)
THEOREM BreakerTypeCorrect ==
  ASSUME CB!CircuitBreakerAssumption
  PROVE  CB!Spec => []CB!TypeOK
<1>1. BreakerInv => CB!TypeOK
  BY DEF BreakerInv
<1> QED
  BY <1>1, BreakerInvariance, PTL

(* Theorem: a half-open breaker that admits no probe has one under way,    *)
(* unless a probe ended without reporting (circuit_breaker/mod.rs): for    *)
(* any thresholds and any number of calls.                                 *)
THEOREM ProbeAlwaysHeld ==
  ASSUME CB!CircuitBreakerAssumption
  PROVE  CB!Spec => []ProbeIsHeld
<1>1. BreakerInv => ProbeIsHeld
  BY DEF BreakerInv, ProbeIsHeld
<1> QED
  BY <1>1, BreakerInvariance, PTL

-----------------------------------------------------------------------------
(* WarmUpJob: the scheduler that warms accounts up, and its history, which *)
(* is pruned, saved and lost by a crash before the save.                   *)

(* No time the job keeps lies ahead of the clock.                          *)
Times == /\ wuNow \in 1 .. WarmUpTime /\ wuScan \in 0 .. wuNow /\ wuTodo \subseteq Emails
         /\ wuHistory \in [Emails -> 0 .. wuNow] /\ wuFile \in [Emails -> 0 .. wuNow]
         /\ wuWarmed \in [Emails -> 0 .. wuNow]
(* But for accounts whose entry a crash or a failed save forgot, the       *)
(* history holds the last warm-up until it is old enough to be pruned.     *)
Remembered == \A e \in Emails \ wuForgot :
    \/ wuHistory[e] = wuWarmed[e]
    \/ wuHistory[e] = 0 /\ wuWarmed[e] + KeepFor <= wuNow
(* An account the scan chose had rested for the cooldown when the scan     *)
(* began.                                                                  *)
TodoRested == \A e \in wuTodo \ wuForgot :
    wuWarmed[e] = 0 \/ wuScan >= wuWarmed[e] + Cooldown
(* The inductive invariant of the warm-ups.                                *)
WarmUpInv == Times /\ Remembered /\ TodoRested

(* Lemma: a job that has warmed nobody up satisfies the invariant.         *)
LEMMA WarmUpInit == ASSUME WU!WarmUpAssumption, WU!Init PROVE WarmUpInv
<1>1. wuNow = 1 /\ 1 \in 1 .. WarmUpTime /\ 0 \in 0 .. 1
  BY DEF WU!WarmUpAssumption, WU!Init
<1>2. wuHistory = [e \in Emails |-> 0] /\ wuFile = wuHistory /\ wuWarmed = wuHistory
  BY DEF WU!Init, WU!NoEntries, WU!Never
<1>3. wuHistory \in [Emails -> 0 .. 1]
  BY <1>1, <1>2
<1>4. wuTodo = {} /\ wuScan = 0
  BY DEF WU!Init, WU!Never
<1> QED
  BY <1>1, <1>2, <1>3, <1>4 DEF WarmUpInv, Times, Remembered, TodoRested

(* Lemma: ticks, scans, warm-ups, saves and crashes preserve the           *)
(* invariant. Pruning forgets an entry only after KeepFor, which is no     *)
(* less than the cooldown.                                                 *)
LEMMA WarmUpStep ==
  ASSUME WU!WarmUpAssumption, WarmUpInv, [WU!Next]_(WU!wuVars)
  PROVE  WarmUpInv'
<1> USE DEF WU!Never
<1>0. /\ Cooldown \in Nat /\ KeepFor \in Nat /\ Cooldown <= KeepFor /\ WarmUpTime \in Nat
      /\ Times /\ Remembered /\ TodoRested
  BY DEF WU!WarmUpAssumption, WarmUpInv
<1>a. /\ wuNow \in 1 .. WarmUpTime /\ wuScan \in 0 .. wuNow /\ wuTodo \subseteq Emails
      /\ wuHistory \in [Emails -> 0 .. wuNow] /\ wuFile \in [Emails -> 0 .. wuNow]
      /\ wuWarmed \in [Emails -> 0 .. wuNow]
  BY <1>0 DEF Times
<1>1. CASE WU!Tick
  <2>1. wuNow' \in 1 .. WarmUpTime /\ wuNow' = wuNow + 1 /\ 0 .. wuNow \subseteq 0 .. wuNow'
    BY <1>0, <1>a, <1>1 DEF WU!Tick
  <2>2. Times'
    BY <1>a, <1>1, <2>1 DEF WU!Tick, Times
  <2>3. Remembered' /\ TodoRested'
    BY <1>0, <1>a, <1>1, <2>1 DEF WU!Tick, Remembered, TodoRested
  <2> QED
    BY <2>2, <2>3 DEF WarmUpInv
<1>2. CASE WU!ScanFails
  BY <1>0, <1>2 DEF WU!ScanFails, WarmUpInv, Times, Remembered, TodoRested
<1>3. CASE WU!SaveHistory
  <2>1. /\ wuFile' \in {wuHistory, wuFile} /\ wuScan' \in 0 .. wuNow
        /\ wuTodo # {} => wuScan' = wuScan
        /\ UNCHANGED <<wuNow, wuHistory, wuTodo, wuWarmed, wuForgot>>
    BY <1>a, <1>3 DEF WU!SaveHistory
  <2> QED
    BY <1>0, <1>a, <2>1 DEF WarmUpInv, Times, Remembered, TodoRested
<1>4. CASE WU!Crash
  <2>1. /\ wuFile' \in [Emails -> 0 .. wuNow] /\ wuHistory' = wuFile'
        /\ wuScan' = 0 /\ wuTodo' = {} /\ wuNow' = wuNow /\ wuWarmed' = wuWarmed
        /\ \A e \in Emails \ wuForgot' : wuFile'[e] = wuWarmed[e]
    BY <1>a, <1>4 DEF WU!Crash, WU!NoEntries
  <2>2. Times'
    BY <1>a, <2>1 DEF Times
  <2>3. Remembered' /\ TodoRested'
    BY <1>a, <2>1 DEF Remembered, TodoRested
  <2> QED
    BY <2>2, <2>3 DEF WarmUpInv
<1>5. ASSUME NEW due \in SUBSET Emails, WU!Scan(due) PROVE WarmUpInv'
  <2>1. /\ wuHistory' = WU!CleanedUp /\ wuScan' = wuNow
        /\ wuTodo' = {e \in due : ~WU!InCooldown(e)}
        /\ UNCHANGED <<wuNow, wuFile, wuWarmed, wuForgot>>
    BY <1>5 DEF WU!Scan
  <2>2. wuHistory' \in [Emails -> 0 .. wuNow] /\ Times'
    BY <1>a, <2>1 DEF WU!CleanedUp, Times
  <2>3. Remembered'
    BY <1>0, <1>a, <2>1 DEF Remembered, WU!CleanedUp
  <2>4. TodoRested'
    BY <1>0, <1>a, <2>1 DEF TodoRested, Remembered, WU!InCooldown
  <2> QED
    BY <2>2, <2>3, <2>4 DEF WarmUpInv
<1>6. ASSUME NEW e \in Emails, NEW ok \in BOOLEAN, WU!WarmUp(e, ok) PROVE WarmUpInv'
  <2>1. wuTodo' = wuTodo \ {e} /\ UNCHANGED <<wuNow, wuFile, wuScan>>
    BY <1>6 DEF WU!WarmUp
  <2>2. CASE /\ wuHistory' = [wuHistory EXCEPT ![e] = wuScan]
             /\ wuWarmed' = [wuWarmed EXCEPT ![e] = wuScan]
             /\ wuForgot' = wuForgot \ {e}
    <3>1. wuScan \in 0 .. wuNow /\ wuHistory'[e] = wuScan /\ wuWarmed'[e] = wuScan
      BY <1>a, <2>2
    <3>2. \A d \in Emails \ {e} : /\ wuHistory'[d] = wuHistory[d]
                                  /\ wuWarmed'[d] = wuWarmed[d]
                                  /\ d \in wuForgot <=> d \in wuForgot'
      BY <1>a, <2>2
    <3>3. Times'
      BY <1>a, <2>1, <2>2 DEF Times
    <3>4. Remembered'
      BY <1>0, <2>1, <3>1, <3>2 DEF Remembered
    <3>5. TodoRested'
      BY <1>0, <1>a, <2>1, <3>2 DEF TodoRested
    <3> QED
      BY <3>3, <3>4, <3>5 DEF WarmUpInv
  <2>3. CASE UNCHANGED <<wuHistory, wuWarmed, wuForgot>>
    BY <1>0, <1>a, <2>1, <2>3 DEF WarmUpInv, Times, Remembered, TodoRested
  <2> QED
    BY <1>6, <2>2, <2>3 DEF WU!WarmUp
<1>7. CASE UNCHANGED WU!wuVars
  BY <1>0, <1>7 DEF WU!wuVars, WarmUpInv, Times, Remembered, TodoRested
<1> QED
  BY <1>1, <1>2, <1>3, <1>4, <1>5, <1>6, <1>7 DEF WU!Next

(* Lemma: a step that warms an account up comes a cooldown after the one   *)
(* before.                                                                 *)
LEMMA WarmUpsApart ==
  ASSUME WU!WarmUpAssumption, WarmUpInv, WU!Next
  PROVE  WU!WarmedApart
<1> USE DEF WU!Never
<1>1. SUFFICES ASSUME NEW e \in Emails, wuWarmed'[e] # wuWarmed[e], wuWarmed[e] # 0,
                      e \notin wuForgot
               PROVE  wuWarmed'[e] >= wuWarmed[e] + Cooldown
  BY DEF WU!WarmedApart
<1>2. PICK d \in Emails, ok \in BOOLEAN : WU!WarmUp(d, ok)
  BY <1>1 DEF WU!Next, WU!Tick, WU!ScanFails, WU!SaveHistory, WU!Crash, WU!Scan
<1>3. e = d /\ wuWarmed'[e] = wuScan /\ e \in wuTodo
  BY <1>1, <1>2 DEF WU!WarmUp, WarmUpInv, Times
<1> QED
  BY <1>1, <1>3 DEF WarmUpInv, TodoRested

(* Theorem: the invariant of the warm-ups holds in every reachable state.  *)
THEOREM WarmUpInvariance == ASSUME WU!WarmUpAssumption PROVE WU!Spec => []WarmUpInv
BY WarmUpInit, WarmUpStep, PTL DEF WU!Spec

(* Theorem: the job keeps to its types.                                    *)
THEOREM WarmUpTypeCorrect == ASSUME WU!WarmUpAssumption PROVE WU!Spec => []WU!TypeOK
<1>1. ASSUME WarmUpInv PROVE WU!TypeOK
  <2>1. 0 .. wuNow \subseteq 0 .. WarmUpTime
    BY <1>1 DEF WarmUpInv, Times, WU!WarmUpAssumption
  <2> QED
    BY <1>1, <2>1 DEF WarmUpInv, Times, WU!TypeOK, WU!Never
<1> QED
  BY <1>1, WarmUpInvariance, PTL

(* Theorem: two warm-ups of one account are at least the cooldown apart,   *)
(* unless its entry was lost with the process or a save (scheduler.rs):    *)
(* for any accounts, interval, cooldown and any keeping time that is not   *)
(* shorter.                                                                *)
THEOREM WarmUpsAlwaysApart ==
  ASSUME WU!WarmUpAssumption
  PROVE  WU!Spec => [][WU!WarmedApart]_(WU!wuVars)
<1>1. WarmUpInv /\ [WU!Next]_(WU!wuVars) => [WU!WarmedApart]_(WU!wuVars)
  BY WarmUpsApart
<1> QED
  BY <1>1, WarmUpInvariance, PTL DEF WU!Spec

-----------------------------------------------------------------------------
(* QuotaJob: the rounds of the quota refresh, while accounts come, go and  *)
(* fail.                                                                   *)

(* What a round has done with an account so far.                           *)
Outcomes == {"no", "without success", "with success", "twice with success"}

(* The variables keep to their types.                                      *)
RoundTypes ==
    QJ!TypeOK /\ qjEnabled \subseteq Accounts /\ qjTried \in [Accounts -> Outcomes]

(* What a round has done with each listed account: in its first stage one  *)
(* that was refreshed has succeeded and is not fetched again; in the full  *)
(* refresh those not waiting were fetched, and none succeeded twice.       *)
RoundGoesOn ==
    /\ qjStage = "immediate" => \A a \in qjList :
          /\ a \in qjRefreshed => qjTried[a] = "with success"
          /\ a \notin qjRefreshed => qjTried[a] \in {"no", "without success"}
          /\ a \in qjTodo => a \notin qjRefreshed
    /\ qjStage = "full" => \A a \in qjList :
          qjTried[a] \in IF a \in qjTodo THEN {"no", "without success"}
                         ELSE {"without success", "with success"}

(* The inductive invariant of the quota job.                               *)
QuotaInv == RoundTypes /\ RoundGoesOn

(* Lemma: a fetch, good or bad, is noted for its account and takes it off  *)
(* the list.                                                               *)
LEMMA FetchEffect ==
  ASSUME RoundTypes, NEW a \in qjTodo, QJ!Fetched(a) \/ QJ!FetchFailed(a)
  PROVE  /\ a \in Accounts /\ a \in qjList
         /\ qjTodo' = qjTodo \ {a} /\ qjEnabled' \subseteq Accounts
         /\ qjTried' \in [Accounts -> Outcomes]
         /\ \A b \in Accounts \ {a} : qjTried'[b] = qjTried[b]
         /\ qjTried[a] \in {"no", "without success"} =>
               qjTried'[a] = IF QJ!Fetched(a) THEN "with success" ELSE "without success"
<1>1. a \in Accounts /\ a \in qjList /\ qjEnabled \subseteq Accounts
      /\ qjTried \in [Accounts -> Outcomes]
  BY DEF RoundTypes, QJ!TypeOK
<1>2. CASE QJ!Fetched(a)
  BY <1>1, <1>2 DEF QJ!Fetched, Outcomes
<1>3. CASE QJ!FetchFailed(a) /\ ~QJ!Fetched(a)
  BY <1>1, <1>3 DEF QJ!FetchFailed, Outcomes
<1> QED
  BY <1>2, <1>3

(* Lemma: every step of a round, and every account that comes or goes,     *)
(* preserves the invariant.                                                *)
LEMMA QuotaStep ==
  ASSUME QJ!QuotaJobAssumption, QuotaInv, [QJ!Next]_(QJ!qjVars)
  PROVE  QuotaInv'
<1>0. RoundTypes /\ RoundGoesOn /\ QuotaTime \in Nat
  BY DEF QuotaInv, QJ!QuotaJobAssumption
<1>a. /\ qjNow \in 1..QuotaTime /\ qjLastFull \in 0..QuotaTime /\ qjStart \in 1..QuotaTime
      /\ qjStage \in {"idle", "immediate", "full"}
      /\ qjTodo \subseteq qjList /\ qjRefreshed \subseteq qjList /\ qjList \subseteq Accounts
      /\ qjEnabled \subseteq Accounts /\ qjTried \in [Accounts -> Outcomes]
  BY <1>0 DEF RoundTypes, QJ!TypeOK
<1>1. CASE QJ!Tick
  <2>1. qjNow' \in 1..QuotaTime
    BY <1>0, <1>a, <1>1 DEF QJ!Tick
  <2> QED
    BY <1>0, <1>a, <1>1, <2>1 DEF QJ!Tick, QuotaInv, RoundTypes, QJ!TypeOK, RoundGoesOn
<1>2. ASSUME NEW a \in Accounts, QJ!AccountChanges(a) PROVE QuotaInv'
  BY <1>0, <1>a, <1>2 DEF QJ!AccountChanges, QuotaInv, RoundTypes, QJ!TypeOK,
     RoundGoesOn
<1>3. CASE QJ!BeginRound
  <2>1. /\ qjStage' = "immediate" /\ qjList' \subseteq Accounts /\ qjTodo' \subseteq qjList'
        /\ qjRefreshed' = {} /\ qjTried' = [a \in Accounts |-> "no"]
        /\ qjStart' \in 1..QuotaTime /\ UNCHANGED <<qjNow, qjEnabled, qjLastFull>>
    BY <1>a, <1>3 DEF QJ!BeginRound, QJ!Listed, QJ!NeedImmediate, QJ!Untried
  <2>2. RoundTypes'
    BY <1>a, <2>1 DEF RoundTypes, QJ!TypeOK, Outcomes
  <2>3. RoundGoesOn'
    BY <2>1 DEF RoundGoesOn
  <2> QED
    BY <2>2, <2>3 DEF QuotaInv
<1>4. ASSUME NEW a \in Accounts, QJ!FetchImmediate(a) PROVE QuotaInv'
  <2>1. /\ qjStage = "immediate" /\ a \in qjTodo
        /\ UNCHANGED <<qjNow, qjLastFull, qjStage, qjStart, qjList>>
        /\ \/ QJ!Fetched(a) /\ qjRefreshed' = qjRefreshed \union {a}
           \/ QJ!FetchFailed(a) /\ qjRefreshed' = qjRefreshed
    BY <1>4 DEF QJ!FetchImmediate
  <2>2. /\ a \in qjList /\ qjTodo' = qjTodo \ {a} /\ qjEnabled' \subseteq Accounts
        /\ qjTried' \in [Accounts -> Outcomes]
        /\ \A b \in Accounts \ {a} : qjTried'[b] = qjTried[b]
    BY <1>0, <2>1, FetchEffect
  <2>3. qjTried[a] \in {"no", "without success"} /\ a \notin qjRefreshed
    BY <1>0, <2>1, <2>2 DEF RoundGoesOn
  <2>4. \/ qjTried'[a] = "with success" /\ qjRefreshed' = qjRefreshed \union {a}
        \/ qjTried'[a] = "without success" /\ qjRefreshed' = qjRefreshed
    <3>1. CASE QJ!Fetched(a) /\ qjRefreshed' = qjRefreshed \union {a}
      BY <1>0, <2>1, <2>3, <3>1, FetchEffect
    <3>2. CASE QJ!FetchFailed(a) /\ qjRefreshed' = qjRefreshed
      BY <1>a, <2>2, <2>3, <3>2 DEF QJ!FetchFailed
    <3> QED
      BY <2>1, <3>1, <3>2
  <2>5. RoundTypes'
    BY <1>a, <2>1, <2>2, <2>4 DEF RoundTypes, QJ!TypeOK
  <2>6. RoundGoesOn'
    BY <1>0, <1>a, <2>1, <2>2, <2>3, <2>4 DEF RoundGoesOn
  <2> QED
    BY <2>5, <2>6 DEF QuotaInv
<1>5. CASE QJ!BeginFull
  <2>1. /\ qjStage = "immediate" /\ qjTodo = {} /\ qjStage' = "full"
        /\ qjLastFull' = qjStart /\ qjTodo' = qjList \ qjRefreshed
        /\ UNCHANGED <<qjNow, qjEnabled, qjStart, qjList, qjRefreshed, qjTried>>
    BY <1>5 DEF QJ!BeginFull, QJ!LeftForFull
  <2>2. RoundTypes'
    <3>1. qjLastFull' \in 0..QuotaTime
      BY <1>a, <2>1
    <3> QED
      BY <1>a, <2>1, <3>1 DEF RoundTypes, QJ!TypeOK
  <2>3. RoundGoesOn'
    BY <1>0, <2>1 DEF RoundGoesOn
  <2> QED
    BY <2>2, <2>3 DEF QuotaInv
<1>6. ASSUME NEW a \in Accounts, QJ!FetchFull(a) PROVE QuotaInv'
  <2>1. /\ qjStage = "full" /\ a \in qjTodo /\ (QJ!Fetched(a) \/ QJ!FetchFailed(a))
        /\ UNCHANGED <<qjNow, qjLastFull, qjStage, qjStart, qjList, qjRefreshed>>
    BY <1>6 DEF QJ!FetchFull
  <2>2. /\ a \in qjList /\ qjTodo' = qjTodo \ {a} /\ qjEnabled' \subseteq Accounts
        /\ qjTried' \in [Accounts -> Outcomes]
        /\ \A b \in Accounts \ {a} : qjTried'[b] = qjTried[b]
    BY <1>0, <2>1, FetchEffect
  <2>3. qjTried'[a] \in {"without success", "with success"}
    <3>1. qjTried[a] \in {"no", "without success"}
      BY <1>0, <2>1, <2>2 DEF RoundGoesOn
    <3> QED
      BY <1>0, <2>1, <3>1, FetchEffect
  <2>4. RoundTypes'
    BY <1>a, <2>1, <2>2 DEF RoundTypes, QJ!TypeOK
  <2>5. RoundGoesOn'
    BY <1>0, <1>a, <2>1, <2>2, <2>3 DEF RoundGoesOn
  <2> QED
    BY <2>4, <2>5 DEF QuotaInv
<1>7. CASE QJ!EndRound
  BY <1>0, <1>a, <1>7 DEF QJ!EndRound, QuotaInv, RoundTypes, QJ!TypeOK, RoundGoesOn
<1>8. CASE UNCHANGED QJ!qjVars
  BY <1>0, <1>a, <1>8 DEF QJ!qjVars, QuotaInv, RoundTypes, QJ!TypeOK, RoundGoesOn
<1> QED
  BY <1>1, <1>2, <1>3, <1>4, <1>5, <1>6, <1>7, <1>8 DEF QJ!Next

(* Lemma: a full refresh ends with every listed account tried.             *)
LEMMA FullRefreshCovers ==
  ASSUME QuotaInv, [QJ!Next]_(QJ!qjVars)
  PROVE  QJ!FullCoversAll
<1>1. SUFFICES ASSUME qjStage = "full", qjStage' = "idle", NEW a \in qjList
               PROVE  qjTried[a] \notin {"no", "twice with success"}
  BY DEF QJ!FullCoversAll
<1>2. qjTodo = {}
  BY <1>1 DEF QJ!Next, QJ!qjVars, QJ!Tick, QJ!AccountChanges, QJ!BeginRound,
     QJ!FetchImmediate,
    QJ!BeginFull, QJ!FetchFull, QJ!EndRound
<1> QED
  BY <1>1, <1>2 DEF QuotaInv, RoundGoesOn

(* Theorem: the invariant of the quota job holds in every reachable state. *)
THEOREM QuotaInvariance == ASSUME QJ!QuotaJobAssumption PROVE QJ!Spec => []QuotaInv
<1>1. QJ!Init => QuotaInv
  <2> SUFFICES ASSUME QJ!Init PROVE QuotaInv
    OBVIOUS
  <2>1. qjNow \in 1..QuotaTime /\ qjLastFull \in 0..QuotaTime /\ qjStart \in 1..QuotaTime
    BY DEF QJ!Init, QJ!QuotaJobAssumption
  <2> QED
    BY <2>1 DEF QJ!Init, QJ!Untried, QuotaInv, RoundTypes, QJ!TypeOK, RoundGoesOn,
       Outcomes
<1> QED
  BY <1>1, QuotaStep, PTL DEF QJ!Spec

(* Theorem: the quota job keeps to its types.                              *)
THEOREM QuotaTypeCorrect == ASSUME QJ!QuotaJobAssumption PROVE QJ!Spec => []QJ!TypeOK
<1>1. QuotaInv => QJ!TypeOK
  BY DEF QuotaInv, RoundTypes
<1> QED
  BY <1>1, QuotaInvariance, PTL

(* Theorem: a full refresh ends only when every account it listed was      *)
(* tried, and none was fetched with success twice in one round             *)
(* (scheduler.rs), for any accounts and interval.                          *)
THEOREM FullAlwaysCoversAll ==
  ASSUME QJ!QuotaJobAssumption PROVE QJ!Spec => [][QJ!FullCoversAll]_(QJ!qjVars)
<1>1. QuotaInv /\ [QJ!Next]_(QJ!qjVars) => [QJ!FullCoversAll]_(QJ!qjVars)
  BY FullRefreshCovers
<1> QED
  BY <1>1, QuotaInvariance, PTL DEF QJ!Spec

-----------------------------------------------------------------------------
(* AccountRecord: the copies of one account that a quota refresh, a user   *)
(* and a request hold while the others save theirs.                        *)

(* The kinds of party at work.                                             *)
Kinds == {"fetch", "user", "request"}
(* Where a party may be.                                                   *)
Places == {"start", "token", "name", "quota", "project", "again", "copy", "locked",
           "switch", "proxy", "request", "end"}
(* What a party keeps.                                                     *)
PartyRecords == [at : Places, seen : [AR!Fields -> AR!Values], fresh : SUBSET AR!Fields]

(* The variables keep to their types.                                      *)
RecordTypes ==
    /\ arMode \in {"database", "file"}
    /\ arCast \in [Parties -> Kinds \union {"absent"}]
    /\ arStore \in [AR!Fields -> AR!Values] /\ arMeant \in [AR!Fields -> AR!Values]
    /\ arParty \in [Parties -> PartyRecords]
    /\ arSince \in [Parties -> SUBSET AR!Fields]
    /\ arLost \subseteq AR!Fields \X Kinds

(* Somebody's save undid the newest value of the field.                    *)
Undone(f) == \E kind \in Kinds : <<f, kind>> \in arLost

(* A party in one of these places holds a copy of the account it will save *)
(* from.                                                                   *)
Writing == {"token", "name", "quota", "copy", "locked", "switch", "proxy", "request"}
(* A party that holds a copy has, of every field nobody saved since it     *)
(* read, the newest value, unless that value was undone before.            *)
Knows(p) ==
    arParty[p].at \in Writing => \A f \in AR!Fields \ arSince[p] :
        \/ arParty[p].seen[f] = arMeant[f]
        \/ Undone(f)
        \/ arParty[p].at \in {"name", "quota"} /\ f \in arParty[p].fresh /\ arMeant[f] = p

(* Which places a party reaches in which mode, and what it got afresh on   *)
(* the way; with the database nobody saves the guard column behind a       *)
(* reader.                                                                 *)
Placed(p) ==
    /\ arParty[p].at \in {"start", "token"} => arParty[p].fresh = {}
    /\ arParty[p].at = "name" => arParty[p].fresh \subseteq {"access"}
    /\ arMode = "database" => /\ arParty[p].at \notin {"locked", "proxy", "request"}
                              /\ "guard" \notin arSince[p]
    /\ arMode = "file" => arParty[p].at \notin {"copy", "project"}

(* The inductive invariant of the account's record: FetchUndoesNothing     *)
(* itself needs to know what every party's copy holds.                     *)
RecordInv == /\ RecordTypes
             /\ \A p \in Parties : Knows(p) /\ Placed(p)
             /\ AR!FetchUndoesNothing

(* Lemma: the copy a party saves has its own value where it changed the    *)
(* field and what it read elsewhere.                                       *)
LEMMA ChangedEffect ==
  ASSUME RecordTypes, NEW p \in Parties, NEW news \in SUBSET AR!Fields
  PROVE  /\ AR!Changed(p, news) \in [AR!Fields -> AR!Values]
         /\ \A f \in AR!Fields :
               AR!Changed(p, news)[f] = IF f \in news THEN p ELSE arParty[p].seen[f]
BY DEF RecordTypes, PartyRecords, AR!Changed, AR!Values

(* Lemma: a save that writes only what is new, what its writer knows or    *)
(* what is already lost undoes nothing for the account, and leaves what    *)
(* every other party knows.                                                *)
LEMMA SaveEffect ==
  ASSUME RecordTypes, AR!FetchUndoesNothing, NEW p \in Parties, arCast[p] \in Kinds,
         NEW fields \in SUBSET AR!Fields, NEW news \in SUBSET fields,
         AR!Save(p, fields, AR!Changed(p, news), news),
         arParty' \in [Parties -> PartyRecords],
         \A q \in Parties \ {p} : arParty'[q] = arParty[q] /\ Knows(q) /\ Placed(q),
         \A f \in fields \ news :
            f \in arSince[p] \/ arParty[p].seen[f] = arMeant[f] \/ Undone(f),
         arMode = "database" =>
            /\ arCast[p] = "user" \/ fields \intersect arSince[p] \subseteq news
            /\ "guard" \notin arSince[p] /\ "guard" \notin news
  PROVE  /\ RecordTypes' /\ AR!FetchUndoesNothing'
         /\ \A q \in Parties \ {p} : Knows(q)' /\ Placed(q)'
         /\ arMode' = arMode
         /\ arSince'[p] = IF arParty'[p].at \in {"start", "end"} THEN {} ELSE arSince[p]
         /\ \A f \in AR!Fields : /\ f \in news => arMeant'[f] = p
                                 /\ f \notin news => /\ arMeant'[f] = arMeant[f]
                                                     /\ Undone(f) => Undone(f)'
<1>0. /\ arMode \in {"database", "file"}
      /\ arCast \in [Parties -> Kinds \union {"absent"}]
      /\ arStore \in [AR!Fields -> AR!Values] /\ arMeant \in [AR!Fields -> AR!Values]
      /\ arParty \in [Parties -> PartyRecords]
      /\ arSince \in [Parties -> SUBSET AR!Fields]
      /\ arLost \subseteq AR!Fields \X Kinds
  BY DEF RecordTypes
<1> DEFINE record == AR!Changed(p, news)
<1>a. /\ record \in [AR!Fields -> AR!Values]
      /\ \A f \in AR!Fields : record[f] = IF f \in news THEN p ELSE arParty[p].seen[f]
  BY ChangedEffect
<1> HIDE DEF record
<1>1. /\ arStore' = [f \in AR!Fields |-> IF f \in fields THEN record[f] ELSE arStore[f]]
      /\ arMeant' = [f \in AR!Fields |-> IF f \in news THEN p ELSE arMeant[f]]
      /\ arLost' = {l \in arLost \union ((arSince[p] \intersect fields) \X {arCast[p]}) :
                       l[1] \notin news}
      /\ arSince' = [q \in Parties |-> IF arParty'[q].at \in {"start", "end"} THEN {}
                                        ELSE IF q = p THEN arSince[q] ELSE arSince[q] \union news]
      /\ arMode' = arMode /\ arCast' = arCast
  BY DEF AR!Save, record
<1>2. /\ arStore' \in [AR!Fields -> AR!Values] /\ arMeant' \in [AR!Fields -> AR!Values]
      /\ arSince' \in [Parties -> SUBSET AR!Fields]
      /\ arLost' \subseteq AR!Fields \X Kinds
  BY <1>0, <1>1, <1>a DEF AR!Values
<1>3. RecordTypes'
  BY <1>0, <1>1, <1>2 DEF RecordTypes
<1>4. ASSUME NEW f \in AR!Fields
      PROVE  /\ f \in news => arMeant'[f] = p /\ arStore'[f] = p
             /\ f \notin news => /\ arMeant'[f] = arMeant[f]
                                 /\ Undone(f) => Undone(f)'
                                 /\ f \in fields /\ f \in arSince[p] => Undone(f)'
  <2>1. ASSUME f \notin news, NEW kind \in Kinds,
               <<f, kind>> \in arLost \union ((arSince[p] \intersect fields) \X {arCast[p]})
        PROVE  <<f, kind>> \in arLost'
    BY <1>1, <2>1
  <2> QED
    BY <1>0, <1>1, <1>a, <2>1 DEF Undone
<1>5. ASSUME NEW f \in AR!Fields PROVE arStore'[f] = arMeant'[f] \/ Undone(f)'
  <2>1. CASE f \in news
    BY <1>4, <2>1
  <2>2. CASE f \in fields /\ f \notin news
    <3>1. arStore'[f] = arParty[p].seen[f]
      BY <1>1, <1>a, <2>2
    <3> QED
      BY <1>4, <2>2, <3>1
  <2>3. CASE f \notin fields
    <3>1. arStore'[f] = arStore[f] /\ f \notin news
      BY <1>1, <2>3
    <3>2. arStore[f] = arMeant[f] \/ Undone(f)
      BY DEF AR!FetchUndoesNothing, Undone, Kinds
    <3> QED
      BY <1>4, <3>1, <3>2
  <2> QED
    BY <2>1, <2>2, <2>3
<1>6. ASSUME arMode' = "database", NEW l \in arLost' PROVE l[2] = "user"
  <2>1. CASE l \in arLost
    BY <1>1, <1>6, <2>1 DEF AR!FetchUndoesNothing
  <2>2. CASE l \in (arSince[p] \intersect fields) \X {arCast[p]}
    BY <1>1, <1>6, <2>2
  <2> QED
    BY <1>1, <1>6, <2>1, <2>2
<1>7. AR!FetchUndoesNothing'
  BY <1>5, <1>6 DEF AR!FetchUndoesNothing, Undone, Kinds
<1>8. ASSUME NEW q \in Parties \ {p} PROVE Knows(q)' /\ Placed(q)'
  <2>1. arParty'[q] = arParty[q] /\ Knows(q) /\ Placed(q)
    OBVIOUS
  <2>2. arParty[q].at \in Writing => arSince'[q] = arSince[q] \union news
    BY <1>1, <2>1 DEF Writing
  <2>3. Knows(q)'
    <3>1. SUFFICES ASSUME arParty[q].at \in Writing, NEW f \in AR!Fields \ arSince'[q]
                   PROVE  \/ arParty[q].seen[f] = arMeant'[f]
                          \/ Undone(f)'
                          \/ /\ arParty[q].at \in {"name", "quota"}
                             /\ f \in arParty[q].fresh /\ arMeant'[f] = q
      BY <2>1 DEF Knows
    <3>2. f \notin arSince[q] /\ f \notin news
      BY <2>2, <3>1
    <3> QED
      BY <1>4, <2>1, <3>1, <3>2 DEF Knows
  <2>4. Placed(q)'
    BY <1>0, <1>1, <2>1 DEF Placed
  <2> QED
    BY <2>3, <2>4
<1> QED
  BY <1>1, <1>3, <1>4, <1>7, <1>8

(* A step keeps the record and what the other parties know.                *)
Kept(p) == /\ RecordTypes' /\ AR!FetchUndoesNothing' /\ arMode' = arMode
           /\ \A q \in Parties \ {p} : Knows(q)' /\ Placed(q)'
(* A step changes the newest value of no field but these, to the party's   *)
(* own.                                                                    *)
Own(p, news) == \A f \in AR!Fields :
    \/ arMeant'[f] = arMeant[f] /\ (Undone(f) => Undone(f)')
    \/ f \in news /\ arMeant'[f] = p
(* Only this party moves.                                                  *)
Moved(p) == /\ arParty' \in [Parties -> PartyRecords]
            /\ \A q \in Parties \ {p} : arParty'[q] = arParty[q]

(* Lemma: a save that fails keeps everything.                              *)
LEMMA FailsEffect ==
  ASSUME RecordInv, NEW p \in Parties, AR!SaveFails, Moved(p)
  PROVE  Kept(p) /\ Own(p, {}) /\ arSince' = arSince
<1>1. RecordTypes' /\ AR!FetchUndoesNothing' /\ arMode' = arMode /\ arSince' = arSince
  BY DEF RecordInv, RecordTypes, AR!FetchUndoesNothing, AR!SaveFails, Moved
<1>2. ASSUME NEW q \in Parties \ {p} PROVE Knows(q)' /\ Placed(q)'
  <2>1. Knows(q) /\ Placed(q) /\ arParty'[q] = arParty[q]
    BY DEF RecordInv, Moved
  <2> QED
    BY <2>1 DEF Knows, Placed, Undone, AR!SaveFails
<1> QED
  BY <1>1, <1>2 DEF Kept, Own, AR!SaveFails, Undone

(* Lemma: a save that may fail keeps the record and the others' knowledge, *)
(* and what it makes newest is its writer's.                               *)
LEMMA SavedEffect ==
  ASSUME RecordInv, NEW p \in Parties, arCast[p] \in Kinds, Moved(p),
         NEW fields \in SUBSET AR!Fields, NEW news \in SUBSET fields,
         \/ AR!Save(p, fields, AR!Changed(p, news), news)
         \/ AR!SaveFails,
         \/ fields = news
         \/ /\ arParty[p].at \in Writing
            /\ arParty[p].at \in {"name", "quota"} => arParty[p].fresh \subseteq news,
         arMode = "database" =>
            /\ arCast[p] = "user" \/ fields \subseteq news \union {"guard"}
            /\ "guard" \notin news
  PROVE  /\ Kept(p) /\ Own(p, news)
         /\ arParty'[p].at \notin {"start", "end"} => arSince'[p] = arSince[p]
         /\ arMode' = "database" => "guard" \notin arSince'[p]
<1>0. RecordTypes /\ AR!FetchUndoesNothing /\ \A q \in Parties : Knows(q) /\ Placed(q)
  BY DEF RecordInv
<1>1. CASE AR!SaveFails
  BY <1>0, <1>1, FailsEffect DEF Own, Kept, Placed
<1>2. CASE AR!Save(p, fields, AR!Changed(p, news), news)
  <2>1. \A f \in fields \ news :
            f \in arSince[p] \/ arParty[p].seen[f] = arMeant[f] \/ Undone(f)
    BY <1>0 DEF Knows
  <2>2. arMode = "database" => "guard" \notin arSince[p]
    BY <1>0 DEF Placed
  <2>3. arMode = "database" =>
            /\ arCast[p] = "user" \/ fields \intersect arSince[p] \subseteq news
            /\ "guard" \notin arSince[p] /\ "guard" \notin news
    BY <2>2
  <2>4. \A q \in Parties \ {p} : arParty'[q] = arParty[q] /\ Knows(q) /\ Placed(q)
    BY <1>0 DEF Moved
  <2>5. arParty' \in [Parties -> PartyRecords]
    BY DEF Moved
  <2>6. /\ RecordTypes' /\ AR!FetchUndoesNothing'
        /\ \A q \in Parties \ {p} : Knows(q)' /\ Placed(q)'
        /\ arMode' = arMode
        /\ arSince'[p] = IF arParty'[p].at \in {"start", "end"} THEN {} ELSE arSince[p]
        /\ \A f \in AR!Fields : /\ f \in news => arMeant'[f] = p
                                /\ f \notin news => /\ arMeant'[f] = arMeant[f]
                                                    /\ Undone(f) => Undone(f)'
    BY <1>0, <1>2, <2>1, <2>3, <2>4, <2>5, SaveEffect
  <2> QED
    BY <2>2, <2>6 DEF Kept, Own
<1> QED
  BY <1>1, <1>2

(* Lemma: a party that reads the account afresh knows all of it.           *)
LEMMA ReadEffect ==
  ASSUME RecordInv, NEW p \in Parties, NEW place \in Writing \ {"name", "quota"},
         AR!Read(p, place), place = "token" => arParty[p].fresh = {},
         arMode = "database" => place \notin {"locked", "proxy", "request"},
         arMode = "file" => place # "copy"
  PROVE  RecordInv'
<1>0. RecordTypes /\ AR!FetchUndoesNothing /\ \A q \in Parties : Knows(q) /\ Placed(q)
  BY DEF RecordInv
<1>1. /\ arParty' = [arParty EXCEPT ![p].at = place, ![p].seen = arStore]
      /\ arSince' = [arSince EXCEPT ![p] = {}]
      /\ UNCHANGED <<arMode, arCast, arStore, arMeant, arLost>>
  BY DEF AR!Read
<1>2. /\ arParty \in [Parties -> PartyRecords] /\ arSince \in [Parties -> SUBSET AR!Fields]
      /\ arStore \in [AR!Fields -> AR!Values]
  BY <1>0 DEF RecordTypes
<1>3. /\ arParty' \in [Parties -> PartyRecords]
      /\ arSince' \in [Parties -> SUBSET AR!Fields] /\ arSince'[p] = {}
      /\ arParty'[p].at = place /\ arParty'[p].seen = arStore
      /\ arParty'[p].fresh = arParty[p].fresh
      /\ \A q \in Parties \ {p} : arParty'[q] = arParty[q] /\ arSince'[q] = arSince[q]
  BY <1>1, <1>2 DEF PartyRecords, Writing, Places
<1>4. RecordTypes' /\ AR!FetchUndoesNothing'
  BY <1>0, <1>1, <1>3 DEF RecordTypes, AR!FetchUndoesNothing
<1>5. \A q \in Parties \ {p} : Knows(q)' /\ Placed(q)'
  BY <1>0, <1>1, <1>3 DEF Knows, Placed, Undone
<1>6. Knows(p)'
  BY ZenonT(60), <1>0, <1>1, <1>3 DEF Knows, Undone, AR!FetchUndoesNothing, Kinds
<1>7. Placed(p)'
  BY <1>0, <1>1, <1>3 DEF Placed, Writing
<1> QED
  BY <1>4, <1>5, <1>6, <1>7 DEF RecordInv

(* Lemma: a party that saves and ends preserves the invariant.             *)
LEMMA EndEffect ==
  ASSUME RecordInv, NEW p \in Parties, arCast[p] \in Kinds, AR!End(p),
         NEW fields \in SUBSET AR!Fields, NEW news \in SUBSET fields,
         \/ AR!Save(p, fields, AR!Changed(p, news), news)
         \/ AR!SaveFails,
         fields = news \/ arParty[p].at \in Writing \ {"name", "quota"},
         arMode = "database" =>
            /\ arCast[p] = "user" \/ fields \subseteq news \union {"guard"}
            /\ "guard" \notin news
  PROVE  RecordInv'
<1>1. arParty \in [Parties -> PartyRecords]
  BY DEF RecordInv, RecordTypes
<1>2. AR!Ended \in PartyRecords /\ AR!Ended.at = "end" /\ AR!Ended.fresh = {}
  BY DEF AR!Ended, AR!Waiting, PartyRecords, Places, AR!Values
<1>3. Moved(p) /\ arParty'[p] = AR!Ended
  BY <1>1, <1>2 DEF Moved, AR!End
<1>4. Kept(p) /\ (arMode' = "database" => "guard" \notin arSince'[p])
  BY <1>3, SavedEffect
<1>5. Knows(p)' /\ Placed(p)'
  BY <1>2, <1>3, <1>4 DEF Knows, Placed, Writing
<1> QED
  BY <1>4, <1>5 DEF Kept, RecordInv

(* Lemma: the save of a fetched result, a column of the row or the whole   *)
(* file, keeps the record.                                                 *)
LEMMA PersistEffect ==
  ASSUME RecordInv, NEW p \in Parties, arCast[p] = "fetch", Moved(p),
         NEW column \in SUBSET AR!Fields, NEW news \in SUBSET AR!Fields,
         AR!Persist(p, column, news) \/ AR!SaveFails,
         arParty[p].fresh \subseteq news, "guard" \notin column,
         arParty[p].at \in Writing \/ arMode = "database"
  PROVE  /\ Kept(p) /\ Own(p, column \union news)
         /\ arParty'[p].at \notin {"start", "end"} => arSince'[p] = arSince[p]
         /\ arMode' = "database" => Own(p, column) /\ "guard" \notin arSince'[p]
         /\ arMode' = "file" => Own(p, news)
<1>0. arCast[p] \in Kinds /\ arMode \in {"database", "file"}
  BY DEF Kinds, RecordInv, RecordTypes
<1>1. CASE arMode = "database"
  <2>1. AR!Save(p, column, AR!Changed(p, column), column) \/ AR!SaveFails
    BY <1>1 DEF AR!Persist
  <2>2. /\ Kept(p) /\ Own(p, column)
        /\ arParty'[p].at \notin {"start", "end"} => arSince'[p] = arSince[p]
        /\ arMode' = "database" => "guard" \notin arSince'[p]
    BY <1>0, <1>1, <2>1, SavedEffect
  <2> QED
    BY <1>1, <2>2 DEF Own, Kept
<1>2. CASE arMode = "file"
  <2>1. news \union arParty[p].fresh = news
    OBVIOUS
  <2>2. AR!Save(p, AR!Fields, AR!Changed(p, news), news) \/ AR!SaveFails
    BY <1>2, <2>1 DEF AR!Persist
  <2>3. /\ Kept(p) /\ Own(p, news)
        /\ arParty'[p].at \notin {"start", "end"} => arSince'[p] = arSince[p]
    BY <1>0, <1>2, <2>2, SavedEffect
  <2> QED
    BY <1>2, <2>3 DEF Own, Kept
<1> QED
  BY <1>0, <1>1, <1>2

(* Lemma: the steps of a quota refresh that goes on preserve the           *)
(* invariant.                                                              *)
LEMMA FetchGoesOn ==
  ASSUME RecordInv, NEW p \in Parties, arCast[p] = "fetch",
         AR!TokenStillFresh(p) \/ AR!TokenRefreshed(p) \/ AR!NameKnown(p)
           \/ AR!NameFetched(p) \/ AR!QuotaFetched(p) \/ AR!SaveProject(p)
  PROVE  RecordInv'
<1>0. RecordTypes /\ AR!FetchUndoesNothing /\ Knows(p) /\ Placed(p)
  BY DEF RecordInv
<1>a. arParty \in [Parties -> PartyRecords] /\ arMode \in {"database", "file"}
  BY <1>0 DEF RecordTypes
<1> USE DEF AR!At
<1>1. ASSUME AR!TokenStillFresh(p) \/ AR!NameKnown(p) PROVE RecordInv'
  <2>1. /\ AR!SaveFails /\ arParty[p].at \in {"token", "name"}
        /\ arParty' = [arParty EXCEPT
                         ![p].at = IF arParty[p].at = "token" THEN "name" ELSE "quota"]
    BY <1>1 DEF AR!TokenStillFresh, AR!NameKnown, AR!Go
  <2>2. /\ Moved(p) /\ arParty'[p].seen = arParty[p].seen
        /\ arParty'[p].fresh = arParty[p].fresh
        /\ arParty'[p].at = IF arParty[p].at = "token" THEN "name" ELSE "quota"
    BY <1>a, <2>1 DEF Moved, PartyRecords, Places
  <2>3. Kept(p) /\ Own(p, {}) /\ arSince' = arSince
    BY <2>1, <2>2, FailsEffect
  <2>4. Knows(p)'
    BY <1>0, <2>1, <2>2, <2>3 DEF Knows, Own, Writing
  <2>5. Placed(p)'
    BY <1>0, <2>1, <2>2, <2>3 DEF Placed, Kept
  <2> QED
    BY <2>3, <2>4, <2>5 DEF Kept, RecordInv
<1>b. ASSUME NEW place \in {"name", "quota", "project", "again"},
             NEW fresh \in SUBSET AR!Fields,
             arParty' = [arParty EXCEPT ![p].at = place,
                                        ![p].fresh = arParty[p].fresh \union fresh]
      PROVE  /\ Moved(p) /\ arParty'[p].at = place /\ arParty'[p].seen = arParty[p].seen
             /\ arParty'[p].fresh = arParty[p].fresh \union fresh
  BY <1>a, <1>b DEF Moved, PartyRecords, Places
<1>2. ASSUME AR!TokenRefreshed(p) PROVE RecordInv'
  <2>1. /\ arParty[p].at = "token" /\ arParty[p].fresh = {}
        /\ arParty' = [arParty EXCEPT ![p].at = "name",
                                      ![p].fresh = arParty[p].fresh \union {"access"}]
        /\ AR!Persist(p, {"access"}, {"access"}) \/ AR!SaveFails
    BY <1>0, <1>2 DEF AR!TokenRefreshed, Placed, AR!TokenNews
  <2>2. /\ Moved(p) /\ arParty'[p].at = "name" /\ arParty'[p].seen = arParty[p].seen
        /\ arParty'[p].fresh = {"access"}
    <3>1. {"access"} \in SUBSET AR!Fields
      BY DEF AR!Fields
    <3> QED
      BY ZenonT(60), <1>b, <2>1, <3>1
  <2>3. /\ Kept(p) /\ Own(p, {"access"}) /\ arSince'[p] = arSince[p]
        /\ arMode' = "database" => "guard" \notin arSince'[p]
    <3>1. {"access"} \in SUBSET AR!Fields /\ "guard" \notin {"access"}
          /\ {"access"} \union {"access"} = {"access"}
          /\ arParty[p].fresh \subseteq {"access"} /\ arParty[p].at \in Writing
          /\ arParty'[p].at \notin {"start", "end"}
      BY <2>1, <2>2 DEF AR!Fields, Writing
    <3>2. Kept(p) /\ Own(p, {"access"} \union {"access"})
          /\ (arParty'[p].at \notin {"start", "end"} => arSince'[p] = arSince[p])
          /\ (arMode' = "database" => "guard" \notin arSince'[p])
      BY <2>1, <2>2, <3>1, PersistEffect
    <3> QED
      BY <3>1, <3>2
  <2>4. Knows(p)'
    BY <1>0, <2>1, <2>2, <2>3 DEF Knows, Own, Writing
  <2>5. Placed(p)'
    BY <2>2, <2>3 DEF Placed
  <2> QED
    BY <2>3, <2>4, <2>5 DEF Kept, RecordInv
<1>3. ASSUME AR!NameFetched(p) PROVE RecordInv'
  <2>1. /\ arParty[p].at = "name" /\ arParty[p].fresh \subseteq {"access"}
        /\ arParty' = [arParty EXCEPT ![p].at = "quota",
                                      ![p].fresh = arParty[p].fresh \union {"name"}]
        /\ AR!Persist(p, {"name"}, AR!NameNews(p)) \/ AR!SaveFails
    BY <1>0, <1>3 DEF AR!NameFetched, Placed
  <2>2. /\ Moved(p) /\ arParty'[p].at = "quota" /\ arParty'[p].seen = arParty[p].seen
        /\ arParty'[p].fresh = arParty[p].fresh \union {"name"}
    <3>1. {"name"} \in SUBSET AR!Fields
      BY DEF AR!Fields
    <3> QED
      BY <1>b, <2>1, <3>1
  <2>3. AR!NameNews(p) = arParty'[p].fresh
    BY <2>1, <2>2 DEF AR!NameNews
  <2>4. /\ Kept(p) /\ Own(p, arParty'[p].fresh) /\ arSince'[p] = arSince[p]
        /\ arMode' = "database" => "guard" \notin arSince'[p]
    <3>1. AR!NameNews(p) \in SUBSET AR!Fields /\ {"name"} \in SUBSET AR!Fields
          /\ arParty[p].fresh \subseteq AR!NameNews(p) /\ "guard" \notin {"name"}
          /\ arParty[p].at \in Writing /\ arParty'[p].at \notin {"start", "end"}
      BY <2>1, <2>2 DEF AR!NameNews, AR!Fields, Writing
    <3>2. {"name"} \union AR!NameNews(p) = arParty'[p].fresh
      BY <2>2, <2>3
    <3>3. Kept(p) /\ Own(p, {"name"} \union AR!NameNews(p))
          /\ (arParty'[p].at \notin {"start", "end"} => arSince'[p] = arSince[p])
          /\ (arMode' = "database" => "guard" \notin arSince'[p])
      BY <2>1, <2>2, <3>1, PersistEffect
    <3> QED
      BY <3>1, <3>2, <3>3
  <2>5. Knows(p)'
    BY <1>0, <2>1, <2>2, <2>4 DEF Knows, Own, Writing
  <2>6. Placed(p)'
    BY <2>2, <2>4 DEF Placed
  <2> QED
    BY <2>4, <2>5, <2>6 DEF Kept, RecordInv
<1>c. ASSUME Kept(p),
             arParty'[p].at = "again" \/ (arParty'[p].at = "project" /\ arMode = "database"),
             arMode' = "database" => "guard" \notin arSince'[p]
      PROVE  RecordInv'
  <2>1. Knows(p)' /\ Placed(p)'
    BY <1>a, <1>c DEF Knows, Placed, Writing, Kept
  <2> QED
    BY <1>c, <2>1 DEF Kept, RecordInv
<1>4. ASSUME AR!QuotaFetched(p) PROVE RecordInv'
  <2>1. arParty[p].at = "quota"
    BY <1>4 DEF AR!QuotaFetched
  <2>2. PICK project \in BOOLEAN :
          /\ arParty' = [arParty EXCEPT
                ![p].at = IF project /\ arMode = "database" THEN "project" ELSE "again",
                ![p].fresh = IF project THEN arParty[p].fresh \union {"project"}
                             ELSE arParty[p].fresh]
          /\ \/ AR!Persist(p, {"quota"},
                   ({"quota"} \union arParty[p].fresh) \union (IF project THEN {"project"} ELSE {}))
             \/ AR!SaveFails
    BY <1>4 DEF AR!QuotaFetched, AR!QuotaColumn, AR!QuotaNews
  <2>3. PICK news \in SUBSET AR!Fields :
          arParty[p].fresh \subseteq news /\ (AR!Persist(p, {"quota"}, news) \/ AR!SaveFails)
    <3>1. ({"quota"} \union arParty[p].fresh) \union (IF project THEN {"project"} ELSE {})
             \in SUBSET AR!Fields
      BY <1>a DEF PartyRecords, AR!Fields
    <3> QED
      BY <2>2, <3>1
  <2>4. /\ Moved(p)
        /\ arParty'[p].at = "again" \/ (arParty'[p].at = "project" /\ arMode = "database")
    <3>1. PICK place \in {"project", "again"} :
             /\ place = "project" => arMode = "database"
             /\ arParty' = [arParty EXCEPT ![p].at = place,
                                           ![p].fresh = arParty[p].fresh
                                              \union (IF project THEN {"project"} ELSE {})]
      BY <2>2
    <3>2. (IF project THEN {"project"} ELSE {}) \in SUBSET AR!Fields
      BY DEF AR!Fields
    <3> QED
      BY <1>b, <3>1, <3>2
  <2>5. Kept(p) /\ (arMode' = "database" => "guard" \notin arSince'[p])
    <3>1. {"quota"} \in SUBSET AR!Fields /\ "guard" \notin {"quota"}
          /\ arParty[p].at \in Writing
      BY <2>1 DEF AR!Fields, Writing
    <3> QED
      BY <2>3, <2>4, <3>1, PersistEffect
  <2> QED
    BY <1>c, <2>4, <2>5
<1>5. ASSUME AR!SaveProject(p) PROVE RecordInv'
  <2>1. /\ arParty[p].at = "project" /\ arMode = "database"
        /\ arParty' = [arParty EXCEPT ![p].at = "again"]
        /\ AR!Persist(p, {"project"}, {"project"}) \/ AR!SaveFails
    BY <1>0, <1>a, <1>5 DEF AR!SaveProject, AR!Go, Placed
  <2>2. Moved(p) /\ arParty'[p].at = "again"
    BY <1>a, <2>1 DEF Moved, PartyRecords, Places
  <2>3. AR!Save(p, {"project"}, AR!Changed(p, {"project"}), {"project"}) \/ AR!SaveFails
    BY <2>1 DEF AR!Persist
  <2>4. Kept(p) /\ (arMode' = "database" => "guard" \notin arSince'[p])
    BY <2>1, <2>2, <2>3, SavedEffect DEF Kinds, AR!Fields
  <2> QED
    BY <1>c, <2>2, <2>4
<1> QED
  BY <1>1, <1>2, <1>3, <1>4, <1>5

(* Lemma: the steps that end a quota refresh preserve the invariant.       *)
LEMMA FetchEnds ==
  ASSUME RecordInv, NEW p \in Parties, arCast[p] = "fetch",
         AR!TokenRefused(p) \/ AR!TokenFailed(p) \/ AR!QuotaFailed(p) \/ AR!StoreAgain(p)
           \/ AR!CopyProtected(p) \/ AR!UpdateQuotaFile(p)
  PROVE  RecordInv'
<1>0. RecordTypes /\ Placed(p) /\ arCast[p] \in Kinds
  BY DEF RecordInv, Kinds
<1>a. arParty \in [Parties -> PartyRecords] /\ arMode \in {"database", "file"}
  BY <1>0 DEF RecordTypes
<1> USE DEF AR!At, Writing
<1>1. CASE AR!TokenRefused(p)
  <2>1. /\ arParty[p].at = "token" /\ arParty[p].fresh = {} /\ AR!End(p)
        /\ AR!Persist(p, {"disabled"}, {"disabled"}) \/ AR!SaveFails
    BY <1>0, <1>1 DEF AR!TokenRefused, Placed
  <2>2. PICK fields \in {{"disabled"}, AR!Fields} :
           /\ arMode = "database" => fields = {"disabled"}
           /\ AR!Save(p, fields, AR!Changed(p, {"disabled"}), {"disabled"}) \/ AR!SaveFails
    <3>1. {"disabled"} \union arParty[p].fresh = {"disabled"}
      BY <2>1
    <3> QED
      BY <2>1, <3>1 DEF AR!Persist
  <2>3. /\ {"disabled"} \in SUBSET fields /\ fields \in SUBSET AR!Fields
        /\ "guard" \notin {"disabled"}
    BY DEF AR!Fields
  <2> QED
    BY <1>0, <2>1, <2>2, <2>3, EndEffect
<1>2. CASE AR!TokenFailed(p) \/ AR!QuotaFailed(p)
  <2>1. AR!End(p) /\ AR!SaveFails
    BY <1>2 DEF AR!TokenFailed, AR!QuotaFailed
  <2>2. {"quota"} \in SUBSET AR!Fields /\ "guard" \notin {"quota"}
    BY DEF AR!Fields
  <2>3. AR!Save(p, {"quota"}, AR!Changed(p, {"quota"}), {"quota"}) \/ AR!SaveFails
    BY <2>1
  <2> QED
    BY <1>0, <2>1, <2>2, <2>3, EndEffect
<1>3. CASE AR!StoreAgain(p)
  <2>1. \/ arMode = "file" /\ AR!Read(p, "locked")
        \/ arMode = "database" /\ AR!Read(p, "copy")
        \/ /\ AR!End(p)
           /\ AR!Save(p, {"quota"}, AR!Changed(p, {"quota"}), {"quota"}) \/ AR!SaveFails
    BY <1>3, <1>a DEF AR!StoreAgain, AR!QuotaColumn
  <2>2. CASE arMode = "file" /\ AR!Read(p, "locked")
    BY <2>2, ReadEffect
  <2>3. CASE arMode = "database" /\ AR!Read(p, "copy")
    BY <2>3, ReadEffect
  <2>4. CASE /\ AR!End(p)
             /\ AR!Save(p, {"quota"}, AR!Changed(p, {"quota"}), {"quota"}) \/ AR!SaveFails
    BY <1>0, <2>4, EndEffect DEF AR!Fields
  <2> QED
    BY <2>1, <2>2, <2>3, <2>4
<1>4. CASE AR!CopyProtected(p)
  <2>1. /\ arParty[p].at = "copy" /\ AR!End(p)
        /\ \/ AR!Save(p, {"quota", "guard"}, AR!Changed(p, {"quota"}), {"quota"})
           \/ AR!SaveFails
    BY <1>4 DEF AR!CopyProtected
  <2>2. {"quota"} \in SUBSET {"quota", "guard"} /\ {"quota", "guard"} \in SUBSET AR!Fields
        /\ {"quota", "guard"} \subseteq {"quota"} \union {"guard"}
    BY DEF AR!Fields
  <2> QED
    BY <1>0, <2>1, <2>2, EndEffect
<1>5. CASE AR!UpdateQuotaFile(p)
  <2>1. /\ arParty[p].at = "locked" /\ arMode = "file" /\ AR!End(p)
        /\ \/ AR!SaveFails
           \/ \E news \in {{"quota"}, {"quota", "guard"}} :
                 AR!Save(p, AR!Fields, AR!Changed(p, news), news)
    BY <1>0, <1>5, <1>a DEF AR!UpdateQuotaFile, Placed
  <2>2. PICK news \in {{"quota"}, {"quota", "guard"}} :
           AR!SaveFails \/ AR!Save(p, AR!Fields, AR!Changed(p, news), news)
    BY <2>1
  <2>3. news \in SUBSET AR!Fields
    BY DEF AR!Fields
  <2> QED
    BY <1>0, <2>1, <2>2, <2>3, EndEffect
<1> QED
  BY <1>1, <1>2, <1>3, <1>4, <1>5

(* Lemma: every change by the user preserves the invariant.                *)
LEMMA UserStepKeeps ==
  ASSUME RecordInv, NEW p \in Parties, arCast[p] = "user", AR!UserStep(p)
  PROVE  RecordInv'
<1>0. RecordTypes /\ Placed(p) /\ arCast[p] \in Kinds
  BY DEF RecordInv, Kinds
<1>a. arParty \in [Parties -> PartyRecords] /\ arMode \in {"database", "file"}
  BY <1>0 DEF RecordTypes
<1>b. ASSUME NEW fields \in SUBSET AR!Fields, NEW news \in SUBSET fields, AR!End(p),
             "guard" \notin news,
             AR!Save(p, fields, AR!Changed(p, news), news) \/ AR!SaveFails,
             fields = news \/ arParty[p].at \in Writing \ {"name", "quota"}
      PROVE  RecordInv'
  BY <1>0, <1>b, EndEffect
<1>c. ASSUME NEW place \in {"switch", "proxy", "locked"}, AR!Read(p, place),
             place # "switch" => arMode = "file"
      PROVE  RecordInv'
  BY <1>a, <1>c, ReadEffect DEF Writing
<1>d. /\ AR!RowColumns \subseteq AR!Fields /\ {"switch"} \subseteq AR!RowColumns
      /\ {"proxy"} \subseteq AR!Fields /\ "guard" \notin {"switch"} /\ "guard" \notin {"proxy"}
  BY DEF AR!RowColumns, AR!Fields
<1>e. /\ AR!LoginNews(p) \subseteq AR!Fields /\ "guard" \notin AR!LoginNews(p)
      /\ AR!LoginNews(p) \union {"disabled"} \subseteq AR!Fields
      /\ "guard" \notin AR!LoginNews(p) \union {"disabled"}
  BY DEF AR!LoginNews, AR!Fields
<1> USE DEF AR!At
<1>1. CASE AR!BeginSwitch(p)
  BY <1>1, <1>c DEF AR!BeginSwitch
<1>2. CASE AR!WriteSwitch(p)
  <2>1. PICK fields \in {AR!RowColumns, AR!Fields} :
           AR!Save(p, fields, AR!Changed(p, {"switch"}), {"switch"}) \/ AR!SaveFails
    BY <1>2 DEF AR!WriteSwitch
  <2>2. fields \in SUBSET AR!Fields /\ {"switch"} \in SUBSET fields
    BY <1>d
  <2>3. AR!End(p) /\ arParty[p].at \in Writing \ {"name", "quota"}
    BY <1>2 DEF AR!WriteSwitch, Writing
  <2> QED
    BY <1>b, <1>d, <2>1, <2>2, <2>3
<1>3. CASE AR!BeginProxy(p)
  <2>1. CASE arMode = "file"
    BY <1>3, <1>c, <2>1 DEF AR!BeginProxy
  <2>2. CASE arMode # "file"
    <3>1. /\ AR!End(p)
          /\ \/ AR!Save(p, {"proxy"}, AR!Changed(p, {"proxy"}), {"proxy"})
             \/ AR!SaveFails
      BY <1>3, <2>2 DEF AR!BeginProxy, AR!ProxyColumn
    <3> QED
      BY <1>b, <1>d, <3>1
  <2> QED
    BY <2>1, <2>2
<1>4. CASE AR!WriteProxyFile(p)
  <2>1. /\ AR!End(p) /\ arParty[p].at \in Writing \ {"name", "quota"}
        /\ AR!Save(p, AR!Fields, AR!Changed(p, {"proxy"}), {"proxy"}) \/ AR!SaveFails
    BY <1>4 DEF AR!WriteProxyFile, Writing
  <2> QED
    BY <1>b, <1>d, <2>1
<1>5. CASE AR!BeginLogin(p)
  <2>1. CASE arMode = "file"
    BY <1>5, <1>c, <2>1 DEF AR!BeginLogin
  <2>2. CASE arMode # "file"
    <3>1. /\ AR!End(p)
          /\ \/ AR!Save(p, AR!LoginNews(p), AR!Changed(p, AR!LoginNews(p)), AR!LoginNews(p))
             \/ AR!SaveFails
      BY <1>5, <2>2 DEF AR!BeginLogin
    <3> QED
      BY <1>b, <1>e, <3>1
  <2> QED
    BY <2>1, <2>2
<1>6. CASE AR!WriteLoginFile(p)
  <2>1. AR!End(p) /\ arParty[p].at \in Writing \ {"name", "quota"}
    BY <1>6 DEF AR!WriteLoginFile, Writing
  <2>2. PICK news \in {AR!LoginNews(p), AR!LoginNews(p) \union {"disabled"}} :
           AR!Save(p, AR!Fields, AR!Changed(p, news), news) \/ AR!SaveFails
    BY <1>6 DEF AR!WriteLoginFile
  <2>3. news \in SUBSET AR!Fields /\ "guard" \notin news
    BY <1>e
  <2> QED
    BY <1>b, <2>1, <2>2, <2>3
<1> QED
  BY <1>1, <1>2, <1>3, <1>4, <1>5, <1>6 DEF AR!UserStep

(* Lemma: the saves of a request preserve the invariant.                   *)
LEMMA RequestStepKeeps ==
  ASSUME RecordInv, NEW p \in Parties, arCast[p] = "request",
         AR!BeginRequestSave(p) \/ AR!WriteRequestFile(p)
  PROVE  RecordInv'
<1>0. RecordTypes /\ Placed(p) /\ arCast[p] \in Kinds
  BY DEF RecordInv, Kinds
<1>a. arParty \in [Parties -> PartyRecords] /\ arMode \in {"database", "file"}
  BY <1>0 DEF RecordTypes
<1>b. \A news \in AR!RequestNews : news \in SUBSET AR!Fields /\ "guard" \notin news
  BY DEF AR!RequestNews, AR!Fields
<1> USE DEF AR!At
<1>1. CASE AR!BeginRequestSave(p)
  <2>1. CASE arMode = "file"
    BY <1>1, <2>1, ReadEffect DEF AR!BeginRequestSave, Writing
  <2>2. CASE arMode # "file"
    <3>1. /\ AR!End(p)
          /\ \/ \E news \in AR!RequestNews : AR!Save(p, news, AR!Changed(p, news), news)
             \/ AR!SaveFails
      BY <1>1, <2>2 DEF AR!BeginRequestSave
    <3>2. PICK news \in AR!RequestNews :
             AR!Save(p, news, AR!Changed(p, news), news) \/ AR!SaveFails
      BY <3>1 DEF AR!RequestNews
    <3>3. news \in SUBSET AR!Fields /\ "guard" \notin news /\ news \in SUBSET news
      BY <1>b
    <3> QED
      BY <1>0, <3>1, <3>2, <3>3, EndEffect
  <2> QED
    BY <2>1, <2>2
<1>2. CASE AR!WriteRequestFile(p)
  <2>1. /\ AR!End(p) /\ arParty[p].at = "request" /\ arMode = "file"
        /\ \/ \E news \in AR!RequestNews : AR!Save(p, AR!Fields, AR!Changed(p, news), news)
           \/ AR!SaveFails
    BY <1>0, <1>a, <1>2 DEF AR!WriteRequestFile, Placed
  <2>2. PICK news \in AR!RequestNews :
           AR!Save(p, AR!Fields, AR!Changed(p, news), news) \/ AR!SaveFails
    BY <2>1 DEF AR!RequestNews
  <2>3. news \in SUBSET AR!Fields /\ "guard" \notin news
        /\ arParty[p].at \in Writing \ {"name", "quota"}
    BY <1>b, <2>1 DEF Writing
  <2> QED
    BY <1>0, <2>1, <2>2, <2>3, EndEffect
<1> QED
  BY <1>1, <1>2

(* Lemma: an account nobody works on satisfies the invariant.              *)
LEMMA RecordInit ==
  ASSUME AR!AccountRecordAssumption, AR!Init
  PROVE  RecordInv
<1>1. AR!Waiting \in PartyRecords /\ AR!Waiting.at = "start" /\ AR!Waiting.fresh = {}
  BY DEF AR!Waiting, PartyRecords, Places, AR!Values
<1>2. AR!Ended \in PartyRecords /\ AR!Ended.at = "end" /\ AR!Ended.fresh = {}
  BY DEF AR!Ended, AR!Waiting, PartyRecords, Places, AR!Values
<1>3. \A p \in Parties : arParty[p] \in {AR!Waiting, AR!Ended}
  BY DEF AR!Init
<1>4. /\ arParty \in [Parties -> PartyRecords]
      /\ \A p \in Parties : arParty[p].at \in {"start", "end"} /\ arParty[p].fresh = {}
  BY <1>1, <1>2, <1>3 DEF AR!Init
<1>5. RecordTypes
  BY <1>4 DEF AR!Init, AR!AccountRecordAssumption, RecordTypes, Kinds, AR!Values
<1>6. \A p \in Parties : Knows(p) /\ Placed(p)
  BY <1>4 DEF AR!Init, Knows, Placed, Writing
<1>7. AR!FetchUndoesNothing
  BY DEF AR!Init, AR!FetchUndoesNothing
<1> QED
  BY <1>5, <1>6, <1>7 DEF RecordInv

(* Lemma: every step preserves the invariant.                              *)
LEMMA RecordStep ==
  ASSUME RecordInv, [AR!Next]_(AR!arVars)
  PROVE  RecordInv'
<1>1. ASSUME NEW p \in Parties, arCast[p] = "fetch", AR!FetchStep(p) PROVE RecordInv'
  <2>1. CASE AR!BeginFetch(p)
    <3>1. AR!Read(p, "token") /\ arParty[p].fresh = {}
      BY <2>1 DEF AR!BeginFetch, AR!At, RecordInv, Placed
    <3> QED
      BY <3>1, ReadEffect DEF Writing
  <2> QED
    BY <1>1, <2>1, FetchGoesOn, FetchEnds DEF AR!FetchStep
<1>2. ASSUME UNCHANGED AR!arVars PROVE RecordInv'
  BY <1>2 DEF RecordInv, RecordTypes, Knows, Placed, Undone, AR!FetchUndoesNothing,
     AR!arVars
<1> QED
  BY <1>1, <1>2, UserStepKeeps, RequestStepKeeps DEF AR!Next, AR!Rest

(* Theorem: the invariant of the account's record holds in every reachable *)
(* state.                                                                  *)
THEOREM RecordInvariance ==
  ASSUME AR!AccountRecordAssumption
  PROVE  AR!Spec => []RecordInv
BY RecordInit, RecordStep, PTL DEF AR!Spec

(* Theorem: the account's record keeps to its types.                       *)
THEOREM RecordTypeCorrect ==
  ASSUME AR!AccountRecordAssumption
  PROVE  AR!Spec => []AR!TypeOK
<1>1. RecordInv => AR!TypeOK
  BY DEF RecordInv, RecordTypes, AR!TypeOK, Kinds
<1> QED
  BY <1>1, RecordInvariance, PTL

(* Theorem: the newest value saved of a field is the one stored, unless a  *)
(* writer with an older copy put the whole account back; with PostgreSQL   *)
(* only a user can do that, never a quota refresh or a request (fetch.rs,  *)
(* account_pg_targeted.rs): for any number of refreshes, users and         *)
(* requests at once.                                                       *)
THEOREM FetchNeverUndoes ==
  ASSUME AR!AccountRecordAssumption PROVE AR!Spec => []FetchUndoesNothing
<1>1. RecordInv => FetchUndoesNothing
  BY DEF RecordInv, FetchUndoesNothing
<1> QED
  BY <1>1, RecordInvariance, PTL

-----------------------------------------------------------------------------
(* LoginFlow: the ways an account is added, whose handlers may meet at one *)
(* state and at one account.                                               *)

(* Where a handler may be.                                                 *)
HandlerPlaces == {"idle", "exchange", "file", "row", "row proxy", "proxy", "end"}
(* What is stored of an account.                                           *)
StoredAccounts == [token : Logins \union {LF!None}, proxy : LF!Choices]
(* What a handler keeps.                                                   *)
HandlerRecords == [at : HandlerPlaces, proxy : LF!Choices, account : StoredAccounts]
(* What the table keeps of a state.                                        *)
PendingStates == [made : 0 .. LoginTime, proxy : LF!Choices]

(* The variables keep to their types.                                      *)
LoginTypes ==
    /\ lfNow \in 1 .. LoginTime /\ lfIssued \subseteq Logins
    /\ lfPending \in [Logins -> PendingStates]
    /\ lfHandler \in [LF!Handlers -> HandlerRecords]
    /\ lfFile \in StoredAccounts /\ lfRow \in StoredAccounts
    /\ lfExchanged \in [Logins -> Nat] /\ lfBrought \in [Logins -> LF!Choices]

(* The handler has taken its state and not yet ended.                      *)
Busy(h) == lfHandler[h].at \notin {"idle", "end"}

(* A login not handed out, or whose state still waits, has no busy handler *)
(* and nothing exchanged; otherwise at most one handler is busy for it,    *)
(* and one about to exchange is the first to do so.                        *)
OneHandler(l) ==
    /\ l \notin lfIssued => /\ ~LF!Waits(l) /\ lfExchanged[l] = 0 /\ lfBrought[l] = LF!None
                            /\ \A way \in LF!Ways : ~Busy(<<l, way>>)
    /\ LF!Waits(l) => /\ lfExchanged[l] = 0 /\ lfBrought[l] = LF!None
                      /\ \A way \in LF!Ways : ~Busy(<<l, way>>)
    /\ lfExchanged[l] <= 1
    /\ \A way \in LF!Ways : Busy(<<l, way>>) =>
          /\ lfBrought[l] = LF!None
          /\ lfHandler[<<l, way>>].at = "exchange" => lfExchanged[l] = 0
          /\ \A other \in LF!Ways \ {way} : ~Busy(<<l, other>>)

(* On files a handler about to save the proxy holds its own token, and the *)
(* stored token is beside the proxy its login saved.                       *)
OwnToken == lfMode = "file" =>
    /\ \A h \in LF!Handlers : lfHandler[h].at = "proxy" => lfHandler[h].account.token = h[1]
    /\ \A h \in LF!Handlers : lfHandler[h].at \notin {"row", "row proxy"}
    /\ \A l \in Logins :
          lfFile.token = l /\ lfBrought[l] # LF!None => lfFile.proxy = lfBrought[l]

(* The inductive invariant of the logins.                                  *)
LoginInv == LoginTypes /\ (\A l \in Logins : OneHandler(l)) /\ OwnToken

(* Lemma: a handler that moves leaves the others alone.                    *)
LEMMA HandlerMoves ==
  ASSUME LoginTypes, NEW h \in LF!Handlers, NEW r \in HandlerRecords,
         lfHandler' = [lfHandler EXCEPT ![h] = r]
  PROVE  /\ lfHandler' \in [LF!Handlers -> HandlerRecords] /\ lfHandler'[h] = r
         /\ \A g \in LF!Handlers \ {h} : lfHandler'[g] = lfHandler[g]
BY DEF LoginTypes

(* Lemma: a handler is a login and the way its code came.                  *)
LEMMA HandlerParts ==
  ASSUME NEW h \in LF!Handlers
  PROVE  /\ h[1] \in Logins /\ h[2] \in LF!Ways /\ h = <<h[1], h[2]>>
         /\ \A l \in Logins, way \in LF!Ways : <<l, way>> \in LF!Handlers
BY DEF LF!Handlers

(* Lemma: a handler that has ended is one that does nothing.               *)
LEMMA EndedType == [LF!Idle EXCEPT !.at = "end"] \in HandlerRecords
                   /\ [LF!Idle EXCEPT !.at = "end"].at = "end" /\ LF!Idle \in HandlerRecords
BY DEF LF!Idle, LF!Nothing, HandlerRecords, HandlerPlaces, StoredAccounts, LF!Choices

(* Lemma: what is done for one login keeps the others, even when it drops  *)
(* their states.                                                           *)
LEMMA OthersKeep ==
  ASSUME NEW l \in Logins, NEW k \in Logins, k # l, OneHandler(k),
         lfIssued' \subseteq lfIssued \union {l},
         k \in lfIssued => k \in lfIssued',
         lfPending'[k] = lfPending[k] \/ lfPending'[k].made = 0,
         lfExchanged'[k] = lfExchanged[k], lfBrought'[k] = lfBrought[k],
         \A way \in LF!Ways : lfHandler'[<<k, way>>] = lfHandler[<<k, way>>]
  PROVE  OneHandler(k)'
BY DEF OneHandler, Busy, LF!Waits

(* Lemma: the busy handler of a login may exchange its code once, and save *)
(* its proxy when it ends.                                                 *)
LEMMA WorkGoesOn ==
  ASSUME LoginInv, NEW h \in LF!Handlers, Busy(h), NEW r \in HandlerRecords,
         r.at # "exchange", lfHandler' = [lfHandler EXCEPT ![h] = r],
         UNCHANGED <<lfIssued, lfPending>>,
         \/ lfExchanged' = lfExchanged
         \/ /\ lfHandler[h].at = "exchange"
            /\ lfExchanged' = [lfExchanged EXCEPT ![h[1]] = lfExchanged[h[1]] + 1],
         \/ lfBrought' = lfBrought
         \/ /\ r.at = "end"
            /\ \E proxy \in LF!Choices : lfBrought' = [lfBrought EXCEPT ![h[1]] = proxy]
  PROVE  /\ lfHandler' \in [LF!Handlers -> HandlerRecords]
         /\ lfExchanged' \in [Logins -> Nat] /\ lfBrought' \in [Logins -> LF!Choices]
         /\ \A l \in Logins : OneHandler(l)'
<1>0. LoginTypes /\ \A l \in Logins : OneHandler(l)
  BY DEF LoginInv
<1>1. h[1] \in Logins /\ h[2] \in LF!Ways /\ h = <<h[1], h[2]>>
      /\ \A l \in Logins, way \in LF!Ways : <<l, way>> \in LF!Handlers
  BY HandlerParts
<1>2. /\ lfHandler' \in [LF!Handlers -> HandlerRecords] /\ lfHandler'[h] = r
      /\ \A g \in LF!Handlers \ {h} : lfHandler'[g] = lfHandler[g]
  BY <1>0, HandlerMoves
<1>3. /\ lfExchanged' \in [Logins -> Nat] /\ lfBrought' \in [Logins -> LF!Choices]
      /\ \A l \in Logins \ {h[1]} :
            lfExchanged'[l] = lfExchanged[l] /\ lfBrought'[l] = lfBrought[l]
  BY <1>0, <1>1 DEF LoginTypes
<1>4. ASSUME NEW k \in Logins, k # h[1] PROVE OneHandler(k)'
  <2>1. \A way \in LF!Ways : lfHandler'[<<k, way>>] = lfHandler[<<k, way>>]
    BY <1>1, <1>2, <1>4
  <2> QED
    BY <1>0, <1>1, <1>3, <1>4, <2>1, OthersKeep
<1>5. OneHandler(h[1])'
  <2> DEFINE l == h[1]  way == h[2]
  <2>1. /\ OneHandler(l) /\ Busy(<<l, way>>) /\ l \in Logins /\ way \in LF!Ways
        /\ \A other \in LF!Ways \ {way} : lfHandler'[<<l, other>>] = lfHandler[<<l, other>>]
        /\ lfHandler'[<<l, way>>] = r
    BY <1>0, <1>1, <1>2
  <2>2. l \in lfIssued /\ ~LF!Waits(l) /\ lfBrought[l] = LF!None
        /\ \A other \in LF!Ways \ {way} : ~Busy(<<l, other>>)
    BY <2>1 DEF OneHandler
  <2>3. lfExchanged'[l] <= 1
    <3>1. lfExchanged[l] \in Nat /\ lfExchanged[l] <= 1
      BY <1>0, <2>1 DEF LoginTypes, OneHandler
    <3>2. lfHandler[h].at = "exchange" => lfExchanged[l] = 0
      BY <1>1, <2>1 DEF OneHandler
    <3> QED
      BY <1>0, <1>1, <3>1, <3>2 DEF LoginTypes
  <2>4. lfBrought'[l] = LF!None \/ r.at = "end"
    BY <2>2
  <2>5. l \in lfIssued' /\ ~LF!Waits(l)'
    BY <2>2 DEF LF!Waits
  <2>6. \A other \in LF!Ways \ {way} : ~Busy(<<l, other>>)'
    BY <2>1, <2>2 DEF Busy
  <2> QED
    BY <2>1, <2>3, <2>4, <2>5, <2>6 DEF OneHandler, Busy
<1> QED
  BY <1>2, <1>3, <1>4, <1>5

(* Lemma: before any login the invariant holds.                            *)
LEMMA LoginInit == ASSUME LF!LoginFlowAssumption, LF!Init PROVE LoginInv
<1>1. LF!Nothing \in StoredAccounts /\ LF!None \in LF!Choices /\ LF!Idle.at = "idle"
  BY DEF LF!Nothing, StoredAccounts, LF!Choices, LF!Idle
<1>2. LF!NoState \in PendingStates /\ LF!NoState.made = 0
  BY <1>1 DEF LF!NoState, PendingStates, LF!LoginFlowAssumption
<1>3. lfNow \in 1 .. LoginTime
  BY DEF LF!Init, LF!LoginFlowAssumption
<1>4. LoginTypes
  BY <1>1, <1>2, <1>3, EndedType DEF LF!Init, LoginTypes
<1>5. \A l \in Logins : OneHandler(l)
  <2> SUFFICES ASSUME NEW l \in Logins PROVE OneHandler(l)
    OBVIOUS
  <2>1. \A way \in LF!Ways : ~Busy(<<l, way>>)
    BY <1>1 DEF LF!Init, Busy, LF!Handlers
  <2>2. /\ ~LF!Waits(l) /\ lfBrought[l] = LF!None
        /\ lfExchanged[l] = 0
    BY <1>2 DEF LF!Init, LF!Waits
  <2> QED
    BY <2>1, <2>2 DEF OneHandler
<1>6. OwnToken
  BY <1>1 DEF LF!Init, OwnToken
<1> QED
  BY <1>4, <1>5, <1>6 DEF LoginInv

(* Lemma: states may be dropped.                                           *)
LEMMA PendingShrinks ==
  ASSUME LoginInv, UNCHANGED <<lfIssued, lfHandler, lfExchanged, lfBrought>>,
         \A l \in Logins : lfPending'[l] = lfPending[l] \/ lfPending'[l].made = 0
  PROVE  \A l \in Logins : OneHandler(l)'
BY DEF LoginInv, OneHandler, Busy, LF!Waits

(* Lemma: handing out a state, which may drop others, preserves the        *)
(* invariant.                                                              *)
LEMMA StatesOnlyGo ==
  ASSUME LF!LoginFlowAssumption, LoginInv, NEW l \in Logins, NEW proxy \in LF!Choices,
         LF!Issue(l, proxy)
  PROVE  LoginInv'
<1>0. LoginTypes /\ (\A k \in Logins : OneHandler(k)) /\ OwnToken
  BY DEF LoginInv
<1>1. PICK left \in [Logins -> PendingStates] :
         /\ lfPending' = [left EXCEPT ![l] = [made |-> lfNow, proxy |-> proxy]]
         /\ \A k \in Logins : left[k] = lfPending[k] \/ left[k].made = 0
  <2> DEFINE left == IF LF!Count(lfPending) < MaxStates THEN lfPending
                     ELSE IF LF!Count(LF!OnlyValid) < MaxStates THEN LF!OnlyValid
                     ELSE [k \in Logins |-> LF!NoState]
  <2>1. LF!NoState \in PendingStates /\ LF!NoState.made = 0
    BY DEF LF!NoState, PendingStates, LF!LoginFlowAssumption, LF!Choices
  <2>2. LF!OnlyValid \in [Logins -> PendingStates]
        /\ \A k \in Logins : LF!OnlyValid[k] = lfPending[k] \/ LF!OnlyValid[k].made = 0
    BY <1>0, <2>1 DEF LF!OnlyValid, LoginTypes
  <2>3. left \in [Logins -> PendingStates]
        /\ \A k \in Logins : left[k] = lfPending[k] \/ left[k].made = 0
    BY <1>0, <2>1, <2>2 DEF LoginTypes
  <2>4. lfPending' = [left EXCEPT ![l] = [made |-> lfNow, proxy |-> proxy]]
    BY DEF LF!Issue
  <2> HIDE DEF left
  <2> QED
    BY <2>3, <2>4
<1>2. /\ l \notin lfIssued /\ lfIssued' = lfIssued \union {l}
      /\ UNCHANGED <<lfMode, lfNow, lfHandler, lfFile, lfRow, lfExchanged, lfBrought>>
  BY DEF LF!Issue, LF!Stored
<1>3. lfPending' \in [Logins -> PendingStates]
      /\ \A k \in Logins \ {l} : lfPending'[k] = lfPending[k] \/ lfPending'[k].made = 0
  <2>1. [made |-> lfNow, proxy |-> proxy] \in PendingStates
    BY <1>0 DEF LoginTypes, PendingStates, LF!LoginFlowAssumption
  <2> QED
    BY <1>1, <2>1
<1>4. LoginTypes' /\ OwnToken'
  BY <1>0, <1>2, <1>3 DEF LoginTypes, OwnToken
<1>5. OneHandler(l)'
  BY <1>0, <1>2 DEF OneHandler, Busy
<1>6. ASSUME NEW k \in Logins, k # l PROVE OneHandler(k)'
  BY <1>0, <1>2, <1>3, <1>6, OthersKeep
<1> QED
  BY <1>4, <1>5, <1>6 DEF LoginInv

(* Lemma: a handler begins only where a state waited, which it takes, or   *)
(* with a token never used.                                                *)
LEMMA WorkBegins ==
  ASSUME LoginInv, NEW l \in Logins, NEW way \in LF!Ways, NEW r \in HandlerRecords,
         lfHandler' = [lfHandler EXCEPT ![<<l, way>>] = r],
         UNCHANGED <<lfMode, lfNow, lfFile, lfRow, lfExchanged, lfBrought>>,
         lfIssued' = lfIssued \union {l},
         \/ lfPending' = [lfPending EXCEPT ![l] = LF!NoState]
         \/ lfPending' = lfPending /\ l \notin lfIssued,
         \/ r.at = "end" /\ ~Busy(<<l, way>>)
         \/ r.at = "exchange" /\ (LF!Waits(l) \/ l \notin lfIssued),
         LF!LoginFlowAssumption
  PROVE  LoginInv'
<1>0. LoginTypes /\ (\A k \in Logins : OneHandler(k)) /\ OwnToken
  BY DEF LoginInv
<1>1. LF!NoState \in PendingStates /\ LF!NoState.made = 0
  BY DEF LF!NoState, PendingStates, LF!LoginFlowAssumption, LF!Choices
<1>2. /\ <<l, way>> \in LF!Handlers
      /\ \A k \in Logins, w \in LF!Ways : <<k, w>> \in LF!Handlers
  BY DEF LF!Handlers
<1>3. /\ lfHandler' \in [LF!Handlers -> HandlerRecords] /\ lfHandler'[<<l, way>>] = r
      /\ \A g \in LF!Handlers \ {<<l, way>>} : lfHandler'[g] = lfHandler[g]
  BY <1>0, <1>2, HandlerMoves
<1>4. /\ lfPending' \in [Logins -> PendingStates] /\ ~LF!Waits(l)'
      /\ \A k \in Logins \ {l} : lfPending'[k] = lfPending[k]
  BY <1>0, <1>1 DEF LoginTypes, OneHandler, LF!Waits
<1>5. LoginTypes'
  BY <1>0, <1>3, <1>4 DEF LoginTypes
<1>6. OwnToken'
  BY <1>0, <1>3 DEF OwnToken
<1>7. OneHandler(l)'
  <2>1. \A w \in LF!Ways \ {way} : lfHandler'[<<l, w>>] = lfHandler[<<l, w>>]
    BY <1>2, <1>3
  <2>2. OneHandler(l)
    BY <1>0
  <2>3. CASE r.at = "end"
    BY <1>3, <1>4, <2>1, <2>2, <2>3 DEF OneHandler, Busy
  <2>4. CASE r.at = "exchange" /\ (LF!Waits(l) \/ l \notin lfIssued)
    <3>1. lfExchanged[l] = 0 /\ lfBrought[l] = LF!None /\ \A w \in LF!Ways : ~Busy(<<l, w>>)
      BY <2>2, <2>4 DEF OneHandler
    <3> QED
      BY <1>3, <1>4, <2>1, <3>1 DEF OneHandler, Busy
  <2> QED
    BY <2>3, <2>4
<1>8. ASSUME NEW k \in Logins, k # l PROVE OneHandler(k)'
  <2>1. \A w \in LF!Ways : lfHandler'[<<k, w>>] = lfHandler[<<k, w>>]
    BY <1>2, <1>3, <1>8
  <2> QED
    BY <1>0, <1>4, <1>8, <2>1, OthersKeep
<1> QED
  BY <1>5, <1>6, <1>7, <1>8 DEF LoginInv

(* What a step of a busy handler changes: its own record, the count of its *)
(* code, the stored account.                                               *)
Becomes(h, r) ==
    /\ r.at # "exchange" /\ lfHandler' = [lfHandler EXCEPT ![h] = r]
    /\ lfMode = "file" => r.at \notin {"row", "row proxy"}
    /\ lfMode = "file" /\ r.at = "proxy" => r.account.token = h[1]
    /\ lfFile' \in StoredAccounts /\ lfRow' \in StoredAccounts
    /\ \/ lfExchanged' = lfExchanged
       \/ /\ lfHandler[h].at = "exchange"
          /\ lfExchanged' = [lfExchanged EXCEPT ![h[1]] = lfExchanged[h[1]] + 1]
    /\ \/ /\ lfBrought' = lfBrought
          /\ \/ lfFile' = lfFile
             \/ lfFile'.token = h[1]
       \/ /\ r.at = "end"
          /\ \E proxy \in LF!Choices :
                 /\ lfBrought' = [lfBrought EXCEPT ![h[1]] = proxy]
                 /\ lfFile'.proxy = proxy
                 /\ lfMode = "file" => lfFile'.token = h[1]

(* Lemma: every step of a busy handler changes that much and no more.      *)
LEMMA HandlerEffect ==
  ASSUME LoginTypes, OwnToken, NEW h \in LF!Handlers, h[1] \in Logins,
         lfHandler[h] \in HandlerRecords,
         \/ LF!Exchange(h) \/ LF!UpsertFile(h) \/ LF!UpsertRow(h)
         \/ LF!RowProxy(h) \/ LF!SaveProxy(h)
  PROVE  \E r \in HandlerRecords : Becomes(h, r)
<1> USE DEF Becomes
<1>1. /\ lfFile \in StoredAccounts /\ lfRow \in StoredAccounts
      /\ lfFile.proxy \in LF!Choices /\ lfRow.proxy \in LF!Choices
      /\ lfHandler[h].proxy \in LF!Choices /\ lfHandler[h].account \in StoredAccounts
      /\ lfHandler \in [LF!Handlers -> HandlerRecords]
  BY DEF LoginTypes, StoredAccounts, HandlerRecords
<1>2. ASSUME NEW place \in HandlerPlaces
      PROVE  /\ [lfHandler[h] EXCEPT !.at = place] \in HandlerRecords
             /\ [lfHandler[h] EXCEPT !.at = place].at = place
             /\ [lfHandler[h] EXCEPT !.at = place].account = lfHandler[h].account
  BY DEF HandlerRecords
<1>3. lfMode = "file" => /\ lfHandler[h].at \notin {"row", "row proxy"}
                         /\ lfHandler[h].at = "proxy" => lfHandler[h].account.token = h[1]
  BY DEF OwnToken
<1>4. ASSUME NEW place \in HandlerPlaces \ {"exchange"}, LF!Go(h, place)
      PROVE  lfHandler' = [lfHandler EXCEPT ![h] = [lfHandler[h] EXCEPT !.at = place]]
  BY <1>1, <1>4 DEF LF!Go
<1>5. CASE LF!Exchange(h)
  <2>1. CASE LF!End(h)
    BY <1>1, <1>5, <2>1, EndedType DEF LF!Exchange, LF!End, LF!At
  <2>2. CASE LF!Go(h, IF h[2] = "token" /\ lfMode = "database" THEN "row" ELSE "file")
    BY <1>1, <1>2, <1>4, <1>5, <2>2 DEF LF!Exchange, LF!At, HandlerPlaces
  <2> QED
    BY <1>5, <2>1, <2>2 DEF LF!Exchange
<1>6. CASE LF!UpsertFile(h)
  <2> DEFINE account == [lfFile EXCEPT !.token = h[1]]
             place == IF lfMode = "database" THEN "row" ELSE "proxy"
             r == [lfHandler[h] EXCEPT !.at = place, !.account = account]
  <2>1. account \in StoredAccounts /\ account.token = h[1]
    BY <1>1 DEF StoredAccounts
  <2>2. r \in HandlerRecords /\ r.at = place /\ r.account = account
    BY <1>1, <2>1 DEF HandlerRecords, HandlerPlaces
  <2>3. CASE LF!End(h) /\ lfFile' = lfFile
    BY <1>1, <1>6, <2>3, EndedType DEF LF!UpsertFile, LF!End
  <2>4. CASE lfFile' = account /\ lfHandler' = [lfHandler EXCEPT ![h] = r]
    <3>1. /\ UNCHANGED <<lfRow, lfExchanged, lfBrought>>
          /\ place \notin {"exchange", "end", "row proxy"}
      BY <1>6 DEF LF!UpsertFile
    <3>2. lfMode = "file" => place = "proxy"
      OBVIOUS
    <3> HIDE DEF account, place, r
    <3> QED
      BY <1>1, <2>1, <2>2, <2>4, <3>1, <3>2
  <2>5. \/ LF!End(h) /\ lfFile' = lfFile
        \/ lfFile' = account /\ lfHandler' = [lfHandler EXCEPT ![h] = r]
    BY <1>1, <1>6 DEF LF!UpsertFile
  <2> QED
    BY <2>3, <2>4, <2>5
<1>7. CASE LF!UpsertRow(h)
  <2>1. CASE LF!End(h) /\ lfRow' = lfRow
    BY <1>1, <1>7, <2>1, EndedType DEF LF!UpsertRow, LF!End
  <2>2. CASE LF!Go(h, "row proxy") /\ lfRow' = lfRow
    BY <1>1, <1>2, <1>3, <1>4, <1>7, <2>2 DEF LF!UpsertRow, LF!At, HandlerPlaces
  <2> DEFINE row == [lfRow EXCEPT !.token = h[1]]
             account == IF h[2] = "token" THEN row ELSE lfHandler[h].account
             r == [lfHandler[h] EXCEPT !.at = "row proxy", !.account = account]
  <2>3. CASE lfRow' = row /\ lfHandler' = [lfHandler EXCEPT ![h] = r]
    <3>1. row \in StoredAccounts /\ account \in StoredAccounts
      BY <1>1 DEF StoredAccounts
    <3>2. r \in HandlerRecords /\ r.at = "row proxy"
      BY <1>1, <3>1 DEF HandlerRecords, HandlerPlaces
    <3> QED
      BY <1>1, <1>3, <1>7, <2>3, <3>1, <3>2 DEF LF!UpsertRow, LF!At
  <2>4. \/ LF!End(h) /\ lfRow' = lfRow
        \/ LF!Go(h, "row proxy") /\ lfRow' = lfRow
        \/ lfRow' = row /\ lfHandler' = [lfHandler EXCEPT ![h] = r]
    BY <1>1, <1>7 DEF LF!UpsertRow
  <2> QED
    BY <2>1, <2>2, <2>3, <2>4
<1>8. CASE LF!RowProxy(h)
  <2>1. lfRow' \in StoredAccounts /\ LF!Go(h, "proxy") /\ lfHandler[h].at = "row proxy"
        /\ UNCHANGED <<lfFile, lfExchanged, lfBrought>>
    BY <1>1, <1>8 DEF LF!RowProxy, LF!At, StoredAccounts
  <2> QED
    BY <1>1, <1>2, <1>3, <1>4, <2>1 DEF HandlerPlaces
<1>9. CASE LF!SaveProxy(h)
  <2>1. LF!End(h) /\ lfHandler[h].at = "proxy" /\ UNCHANGED <<lfRow, lfExchanged>>
    BY <1>9 DEF LF!SaveProxy, LF!At
  <2>2. CASE UNCHANGED <<lfFile, lfBrought>>
    BY <1>1, <2>1, <2>2, EndedType DEF LF!End
  <2>3. CASE /\ lfFile' = LF!WithProxy(h)
             /\ lfBrought' = [lfBrought EXCEPT ![h[1]] = lfHandler[h].proxy]
    <3>1. /\ lfFile' \in StoredAccounts /\ lfFile'.proxy = lfHandler[h].proxy
          /\ lfFile'.token = lfHandler[h].account.token
      BY <1>1, <2>3 DEF LF!WithProxy, StoredAccounts
    <3> QED
      BY <1>1, <1>3, <2>1, <2>3, <3>1, EndedType DEF LF!End
  <2> QED
    BY <1>9, <2>2, <2>3 DEF LF!SaveProxy
<1> QED
  BY <1>5, <1>6, <1>7, <1>8, <1>9

(* Lemma: every step of a busy handler preserves the invariant.            *)
LEMMA HandlerStep ==
  ASSUME LoginInv, NEW h \in LF!Handlers,
         \/ LF!Exchange(h) \/ LF!UpsertFile(h) \/ LF!UpsertRow(h)
         \/ LF!RowProxy(h) \/ LF!SaveProxy(h)
  PROVE  LoginInv'
<1>0. LoginTypes /\ (\A l \in Logins : OneHandler(l)) /\ OwnToken
  BY DEF LoginInv
<1>1. /\ h[1] \in Logins /\ h[2] \in LF!Ways /\ h = <<h[1], h[2]>>
      /\ lfHandler[h] \in HandlerRecords
  BY <1>0, HandlerParts DEF LoginTypes
<1>2. /\ UNCHANGED <<lfMode, lfNow, lfPending, lfIssued>> /\ Busy(h)
  BY DEF LF!Exchange, LF!UpsertFile, LF!UpsertRow, LF!RowProxy, LF!SaveProxy, LF!Flow,
     Busy, LF!At
<1>3. lfBrought[h[1]] = LF!None
  BY <1>0, <1>1, <1>2 DEF OneHandler
<1>4. \E r \in HandlerRecords : Becomes(h, r)
  BY <1>0, <1>1, HandlerEffect
<1> PICK r \in HandlerRecords : Becomes(h, r)
  BY <1>4
<1> USE DEF Becomes
<1>5. /\ lfHandler' \in [LF!Handlers -> HandlerRecords]
      /\ lfExchanged' \in [Logins -> Nat] /\ lfBrought' \in [Logins -> LF!Choices]
      /\ \A l \in Logins : OneHandler(l)'
  BY <1>2, WorkGoesOn
<1>6. LoginTypes'
  BY <1>0, <1>2, <1>5 DEF LoginTypes
<1>7. OwnToken'
  <2>1. lfHandler'[h] = r /\ \A g \in LF!Handlers \ {h} : lfHandler'[g] = lfHandler[g]
    BY <1>0, HandlerMoves
  <2> SUFFICES ASSUME lfMode = "file" PROVE OwnToken'
    BY <1>2 DEF OwnToken
  <2>2. /\ \A g \in LF!Handlers :
              lfHandler'[g].at = "proxy" => lfHandler'[g].account.token = g[1]
        /\ \A g \in LF!Handlers : lfHandler'[g].at \notin {"row", "row proxy"}
    BY ZenonT(60), <1>0, <2>1 DEF OwnToken
  <2>3. \A l \in Logins :
           lfFile'.token = l /\ lfBrought'[l] # LF!None => lfFile'.proxy = lfBrought'[l]
    <3>1. CASE lfBrought' = lfBrought /\ (lfFile' = lfFile \/ lfFile'.token = h[1])
      BY <1>0, <1>3, <3>1 DEF OwnToken
    <3>2. CASE \E proxy \in LF!Choices : /\ lfBrought' = [lfBrought EXCEPT ![h[1]] = proxy]
                                         /\ lfFile'.proxy = proxy /\ lfFile'.token = h[1]
      BY <1>0, <1>1, <3>2 DEF LoginTypes
    <3> QED
      BY <3>1, <3>2
  <2> QED
    BY <2>2, <2>3 DEF OwnToken
<1> QED
  BY <1>5, <1>6, <1>7 DEF LoginInv

(* Lemma: every step preserves the invariant.                              *)
LEMMA LoginStep ==
  ASSUME LF!LoginFlowAssumption, LoginInv, [LF!Next]_(LF!lfVars)
  PROVE  LoginInv'
<1>0. LoginTypes /\ (\A l \in Logins : OneHandler(l)) /\ OwnToken
  BY DEF LoginInv
<1>1. CASE LF!Tick
  <2>1. lfNow' \in 1 .. LoginTime
    BY <1>0, <1>1 DEF LF!Tick, LoginTypes, LF!LoginFlowAssumption
  <2> QED
    BY <1>0, <1>1, <2>1 DEF LF!Tick, LF!Stored, LoginInv, LoginTypes, OneHandler,
       OwnToken, Busy, LF!Waits
<1>2. CASE LF!CleanUp
  <2>1. LF!NoState \in PendingStates /\ LF!NoState.made = 0
    BY DEF LF!NoState, PendingStates, LF!LoginFlowAssumption, LF!Choices
  <2>2. lfPending' \in [Logins -> PendingStates]
        /\ \A l \in Logins : lfPending'[l] = lfPending[l] \/ lfPending'[l].made = 0
    BY <1>0, <1>2, <2>1 DEF LF!CleanUp, LF!OnlyValid, LoginTypes
  <2>3. UNCHANGED <<lfMode, lfNow, lfIssued, lfHandler, lfFile, lfRow, lfExchanged,
                    lfBrought>>
    BY <1>2 DEF LF!CleanUp, LF!Stored
  <2>4. \A l \in Logins : OneHandler(l)'
    BY <2>2, <2>3, PendingShrinks
  <2>5. LoginTypes' /\ OwnToken'
    BY <1>0, <2>2, <2>3 DEF LoginTypes, OwnToken
  <2> QED
    BY <2>4, <2>5 DEF LoginInv
<1>3. CASE \E l \in Logins, proxy \in LF!Choices :
              LF!Issue(l, proxy) \/ LF!AddByToken(l, proxy)
  <2> PICK l \in Logins, proxy \in LF!Choices :
           LF!Issue(l, proxy) \/ LF!AddByToken(l, proxy)
    BY <1>3
  <2>1. CASE LF!Issue(l, proxy)
    BY <2>1, StatesOnlyGo
  <2>2. CASE LF!AddByToken(l, proxy)
    <3> DEFINE r == [LF!Idle EXCEPT !.at = "exchange", !.proxy = proxy]
    <3>1. r \in HandlerRecords /\ r.at = "exchange" /\ "token" \in LF!Ways
      BY DEF LF!Idle, LF!Nothing, HandlerRecords, HandlerPlaces, StoredAccounts,
         LF!Choices, LF!Ways
    <3>2. /\ lfHandler' = [lfHandler EXCEPT ![<<l, "token">>] = r]
          /\ l \notin lfIssued /\ lfIssued' = lfIssued \union {l} /\ lfPending' = lfPending
          /\ UNCHANGED <<lfMode, lfNow, lfFile, lfRow, lfExchanged, lfBrought>>
      BY <2>2 DEF LF!AddByToken, LF!Stored
    <3> HIDE DEF r
    <3> QED
      BY <3>1, <3>2, WorkBegins
  <2> QED
    BY <2>1, <2>2
<1>4. CASE \E l \in Logins, way \in LF!Ways : LF!Validate(l, way)
  <2> PICK l \in Logins, way \in LF!Ways : LF!Validate(l, way)
    BY <1>4
  <2>1. /\ l \in lfIssued /\ lfIssued' = lfIssued \union {l}
        /\ lfPending' = [lfPending EXCEPT ![l] = LF!NoState]
        /\ lfHandler[<<l, way>>].at = "idle"
        /\ UNCHANGED <<lfMode, lfNow, lfFile, lfRow, lfExchanged, lfBrought>>
    BY DEF LF!Validate, LF!Stored, LF!Taken, LF!At
  <2>2. \E r \in HandlerRecords :
           /\ lfHandler' = [lfHandler EXCEPT ![<<l, way>>] = r]
           /\ \/ r.at = "end" /\ ~Busy(<<l, way>>)
              \/ r.at = "exchange" /\ (LF!Waits(l) \/ l \notin lfIssued)
    <3>1. CASE LF!End(<<l, way>>)
      BY <2>1, <3>1, EndedType DEF LF!End, Busy
    <3>2. CASE /\ LF!Valid(l)
               /\ lfHandler' = [lfHandler EXCEPT
                     ![<<l, way>>] = [LF!Idle EXCEPT !.at = "exchange",
                                                     !.proxy = lfPending[l].proxy]]
      <4> DEFINE r == [LF!Idle EXCEPT !.at = "exchange", !.proxy = lfPending[l].proxy]
      <4>1. lfPending[l].proxy \in LF!Choices
        BY <1>0 DEF LoginTypes, PendingStates
      <4>2. r \in HandlerRecords /\ r.at = "exchange"
        BY <4>1 DEF LF!Idle, LF!Nothing, HandlerRecords, HandlerPlaces, StoredAccounts,
           LF!Choices
      <4> QED
        BY <3>2, <4>2 DEF LF!Valid
    <3> QED
      BY <3>1, <3>2 DEF LF!Validate
  <2> QED
    BY <2>1, <2>2, WorkBegins
<1>5. CASE \E h \in LF!Handlers : \/ LF!Exchange(h) \/ LF!UpsertFile(h) \/ LF!UpsertRow(h)
                                  \/ LF!RowProxy(h) \/ LF!SaveProxy(h)
  BY <1>5, HandlerStep
<1>6. CASE UNCHANGED LF!lfVars
  BY <1>0, <1>6 DEF LF!lfVars, LoginInv, LoginTypes, OneHandler, OwnToken, Busy,
     LF!Waits
<1> QED
  BY <1>1, <1>2, <1>3, <1>4, <1>5, <1>6 DEF LF!Next

(* Theorem: the invariant of the logins holds in every reachable state.    *)
THEOREM LoginInvariance == ASSUME LF!LoginFlowAssumption PROVE LF!Spec => []LoginInv
<1>1. LF!Init => LoginInv
  BY LoginInit
<1>2. LoginInv /\ [LF!Next]_(LF!lfVars) => LoginInv'
  BY LoginStep
<1> QED
  BY <1>1, <1>2, PTL DEF LF!Spec

(* Theorem: the login flow keeps to its types.                             *)
THEOREM LoginTypeCorrect == ASSUME LF!LoginFlowAssumption PROVE LF!Spec => []LF!TypeOK
<1>1. LoginInv => LF!TypeOK
  BY DEF LoginInv, LoginTypes, LF!TypeOK, PendingStates, StoredAccounts, LF!None
<1> QED
  BY <1>1, LoginInvariance, PTL

(* Theorem: no code is exchanged twice although the callback and the       *)
(* pasted code bring the same state (accessors.rs), and on files no token  *)
(* is left with another proxy than the one its login saved (oauth.rs,      *)
(* accounts.rs): for any number of logins, proxies and any size of the     *)
(* table of states.                                                        *)
THEOREM LoginsAlwaysSound ==
  ASSUME LF!LoginFlowAssumption
  PROVE  LF!Spec => []LoginsSound
<1>1. LoginInv => LF!UsedOnce
  BY DEF LoginInv, OneHandler, LF!UsedOnce
<1>2. LoginInv => LF!TokenKeepsProxy
  BY DEF LoginInv, OwnToken, LF!TokenKeepsProxy
<1> QED
  BY <1>1, <1>2, LoginInvariance, PTL DEF LoginsSound, LF!LoginsSound

-----------------------------------------------------------------------------
(* Theorem: the three paces together, each from the component it is of     *)
(* (StepsPaced of module Components).                                      *)
THEOREM StepsAlwaysPaced ==
  ASSUME AL!AdaptiveLimitAssumption, WU!WarmUpAssumption, QJ!QuotaJobAssumption
  PROVE  AL!Spec /\ WU!Spec /\ QJ!Spec => StepsPaced
  BY RaisesPaid, WarmUpsAlwaysApart, FullAlwaysCoversAll, PTL DEF StepsPaced

-----------------------------------------------------------------------------
(* ClaudeStream: whoever reads the events of a stream sees what the        *)
(* streaming state says: the block that is open, and the next index. Every *)
(* operator hands out the events that lead from the state it is given to   *)
(* the state it returns.                                                   *)

(* Lemma: a set of numbers has a least one.                                *)
LEMMA LeastExists ==
  ASSUME NEW T, T \subseteq Nat, T # {}
  PROVE  \E m \in T : \A k \in T : m <= k
<1>1. PICK m \in T : \A k \in T : ~(<<k, m>> \in OpToRel(<, Nat))
  BY NatLessThanWellFounded, WFMin
<1>2. \A k \in T : ~(k < m)
  BY <1>1, Zenon DEF OpToRel
<1> QED
  BY ONLY <1>2, T \subseteq Nat, m \in T

(* w is what a reader of the events sees, from what was seen first on.     *)
Watches(w, seen, out) ==
    /\ w = [n \in 0..Len(out) |-> w[n]]
    /\ w[0] = seen
    /\ \A n \in 1..Len(out) : w[n] = CS!Watch(w[n - 1], out[n])
(* The events lead a reader from one sight to another.                     *)
Leads(seen, out, end) ==
    /\ \E S : out \in Seq(S)
    /\ \E w : Watches(w, seen, out) /\ w[Len(out)] = end
(* What a reader sees when all is well.                                    *)
Sight(block, i, begun) == [open |-> block, next |-> i, begun |-> begun, ok |-> TRUE]
SeenBy(st) == Sight(st.block, st.index, st.started)

StreamStates ==
    [block : {"none", "text", "thinking", "function"}, index : Nat, pending : BOOLEAN,
     trailing : BOOLEAN, xml : Seq({"t", "o", "c"}), inXml : BOOLEAN, grounding : BOOLEAN,
     tool : BOOLEAN, started : BOOLEAN, stopped : BOOLEAN]
(* A result whose events lead from the state given to the one returned.    *)
Nests(st, r) == r.st \in StreamStates /\ Leads(SeenBy(st), r.out, SeenBy(r.st))
(* What only a few operators change.                                       *)
Same(st, next) ==
    /\ next.xml = st.xml /\ next.inXml = st.inXml
    /\ next.started = st.started /\ next.stopped = st.stopped
    /\ next.grounding = st.grounding

(* Lemma: no events lead nowhere.                                          *)
LEMMA LeadsNowhere ==
  ASSUME NEW seen
  PROVE  Leads(seen, <<>>, seen)
<1> DEFINE w == [n \in 0..0 |-> seen]
<1>1. <<>> \in Seq({}) /\ Len(<<>>) = 0
  BY EmptySeq
<1>2. Watches(w, seen, <<>>) /\ w[Len(<<>>)] = seen
  BY <1>1 DEF Watches
<1> QED
  BY <1>1, <1>2, Zenon DEF Leads

(* Lemma: one event leads where it says.                                   *)
LEMMA LeadsOne ==
  ASSUME NEW seen, NEW e
  PROVE  Leads(seen, <<e>>, CS!Watch(seen, e))
<1> DEFINE end == CS!Watch(seen, e)
           w == [n \in 0..1 |-> IF n = 0 THEN seen ELSE end]
<1>1. <<e>> \in Seq({e}) /\ Len(<<e>>) = 1 /\ <<e>>[1] = e
  OBVIOUS
<1> HIDE DEF end
<1>2. w[0] = seen /\ w[1] = end /\ w = [n \in 0..1 |-> w[n]]
  OBVIOUS
<1> HIDE DEF w
<1>3. \A n \in 1..Len(<<e>>) : n = 1 /\ n - 1 = 0 /\ <<e>>[n] = e
  BY <1>1
<1>4. Watches(w, seen, <<e>>) /\ w[Len(<<e>>)] = end
  BY <1>1, <1>2, <1>3 DEF Watches, end
<1> QED
  BY <1>1, <1>4, Zenon DEF Leads, end

(* Lemma: events after events lead on.                                     *)
LEMMA LeadsOn ==
  ASSUME NEW a, NEW b, NEW c, NEW x, NEW y, Leads(a, x, b), Leads(b, y, c)
  PROVE  Leads(a, x \o y, c)
<1>1. PICK S, T : x \in Seq(S) /\ y \in Seq(T)
  BY DEF Leads
<1>2. x \in Seq(S \union T) /\ y \in Seq(S \union T)
  BY <1>1, SeqMonotonic
<1>3. /\ x \o y \in Seq(S \union T) /\ Len(x \o y) = Len(x) + Len(y)
      /\ \A i \in 1..(Len(x) + Len(y)) :
            (x \o y)[i] = IF i <= Len(x) THEN x[i] ELSE y[i - Len(x)]
      /\ Len(x) \in Nat /\ Len(y) \in Nat
  BY <1>2, ConcatProperties, LenProperties
<1>4. PICK v : Watches(v, a, x) /\ v[Len(x)] = b
  BY DEF Leads
<1>5. PICK w : Watches(w, b, y) /\ w[Len(y)] = c
  BY DEF Leads
<1> DEFINE m == Len(x)
           u == [n \in 0..Len(x \o y) |-> IF n <= m THEN v[n] ELSE w[n - m]]
<1>6. \A n \in 0..Len(x \o y) : u[n] = IF n <= m THEN v[n] ELSE w[n - m]
  OBVIOUS
<1>7. u = [n \in 0..Len(x \o y) |-> u[n]]
  OBVIOUS
<1> HIDE DEF u
<1>8. u[0] = a
  BY <1>3, <1>4, <1>6 DEF Watches
<1>9. u[Len(x \o y)] = c
  <2>1. CASE Len(y) = 0
    BY <1>3, <1>4, <1>5, <1>6, <2>1 DEF Watches
  <2>2. CASE Len(y) # 0
    BY <1>3, <1>5, <1>6, <2>2
  <2> QED
    BY <2>1, <2>2
<1>10. ASSUME NEW n \in 1..Len(x \o y)
       PROVE  u[n] = CS!Watch(u[n - 1], (x \o y)[n])
  <2>1. CASE n <= m
    <3>1. n \in 1..m /\ n - 1 <= m /\ n - 1 \in 0..Len(x \o y) /\ n \in 0..Len(x \o y)
          /\ n \in 1..(Len(x) + Len(y))
      BY <1>3, <2>1
    <3>2. u[n] = v[n] /\ u[n - 1] = v[n - 1] /\ (x \o y)[n] = x[n]
      BY <1>3, <1>6, <2>1, <3>1
    <3> QED
      BY <1>4, <3>1, <3>2 DEF Watches
  <2>2. CASE n > m
    <3>1. /\ n - m \in 1..Len(y) /\ n - 1 \in 0..Len(x \o y) /\ n \in 0..Len(x \o y)
          /\ ~(n <= m) /\ (n - 1) - m = (n - m) - 1 /\ n \in 1..(Len(x) + Len(y))
      BY <1>3, <2>2
    <3>2. u[n] = w[n - m] /\ (x \o y)[n] = y[n - m]
      BY <1>3, <1>6, <3>1
    <3>3. u[n - 1] = w[(n - m) - 1]
      <4>1. CASE n - 1 = m
        <5>1. (n - m) - 1 = 0 /\ n - 1 <= m /\ n - 1 = m
          BY <1>3, <4>1
        <5>2. u[n - 1] = v[m] /\ v[m] = b /\ w[0] = b
          BY <1>4, <1>5, <1>6, <3>1, <5>1 DEF Watches
        <5> QED
          BY <5>1, <5>2
      <4>2. CASE n - 1 # m
        BY <1>3, <1>6, <2>2, <3>1, <4>2
      <4> QED
        BY <4>1, <4>2
    <3> QED
      BY <1>5, <3>1, <3>2, <3>3 DEF Watches
  <2> QED
    BY <1>3, <2>1, <2>2
<1>11. Watches(u, a, x \o y)
  BY <1>7, <1>8, <1>10 DEF Watches
<1> QED
  BY <1>3, <1>9, <1>11, Zenon DEF Leads

(* Lemma: a reader of all events sees where they lead.                     *)
LEMMA WatchedEnd ==
  ASSUME NEW out, NEW end, Leads(CS!Unwatched, out, end)
  PROVE  CS!Watched(out) = end
<1>1. Len(out) \in Nat
  BY LenProperties DEF Leads
<1>2. PICK w : Watches(w, CS!Unwatched, out) /\ w[Len(out)] = end
  BY DEF Leads
<1> DEFINE Step(f) == [n \in 0..Len(out) |->
                          IF n = 0 THEN CS!Unwatched ELSE CS!Watch(f[n - 1], out[n])]
           seen == CHOOSE f : f = Step(f)
<1>3. w = Step(w)
  BY <1>1, <1>2 DEF Watches
<1>4. seen = Step(seen)
  BY <1>3, Zenon
<1>5. \A n \in 0..Len(out) : seen[n] = w[n]
  <2> DEFINE T == {n \in 0..Len(out) : seen[n] # w[n]}
  <2> SUFFICES ASSUME T # {} PROVE FALSE
    OBVIOUS
  <2>1. PICK n \in T : \A k \in T : n <= k
    <3>1. T \subseteq Nat
      BY <1>1
    <3> HIDE DEF T
    <3> QED
      BY <3>1, LeastExists
  <2>2. n \in 0..Len(out) /\ seen[n] # w[n]
    BY <2>1
  <2>3. n # 0 => seen[n - 1] = w[n - 1]
    <3> SUFFICES ASSUME n # 0, seen[n - 1] # w[n - 1] PROVE FALSE
      OBVIOUS
    <3>1. n - 1 \in 0..Len(out) /\ ~(n <= n - 1)
      BY <1>1, <2>2
    <3>2. n - 1 \in T
      BY <3>1
    <3> QED
      BY <2>1, <3>1, <3>2
  <2> HIDE DEF T, seen
  <2>4. seen[n] = IF n = 0 THEN CS!Unwatched ELSE CS!Watch(seen[n - 1], out[n])
    BY <1>4, <2>2
  <2>5. w[n] = IF n = 0 THEN CS!Unwatched ELSE CS!Watch(w[n - 1], out[n])
    BY <1>3, <2>2
  <2> QED
    BY <2>2, <2>3, <2>4, <2>5
<1>6. seen[Len(out)] = w[Len(out)]
  BY <1>1, <1>5
<1>7. CS!Watched(out) = seen[Len(out)]
  BY DEF CS!Watched
<1> QED
  BY <1>2, <1>6, <1>7

(* Lemmas: what a reader sees when a block begins, goes on and ends.       *)
LEMMA StartWatched ==
  ASSUME NEW i, NEW kind
  PROVE  CS!Watch(Sight("none", i, TRUE), CS!BlockStart(kind, i)) = Sight(kind, i, TRUE)
BY DEF CS!Watch, CS!BlockStart, CS!Event, Sight

LEMMA DeltaWatched ==
  ASSUME NEW block, NEW i, NEW begun, NEW kind, NEW size, CS!Fits(kind, block)
  PROVE  CS!Watch(Sight(block, i, begun), CS!Delta(kind, i, size)) = Sight(block, i, begun)
BY DEF CS!Watch, CS!Delta, CS!Event, Sight

LEMMA StopWatched ==
  ASSUME NEW block, NEW i, NEW begun, block # "none"
  PROVE  CS!Watch(Sight(block, i, begun), CS!BlockStop(i)) = Sight("none", i + 1, begun)
BY DEF CS!Watch, CS!BlockStop, CS!Event, Sight

(* Lemma: a state with its events; what follows them follows on.           *)
LEMMA NestsOn ==
  ASSUME NEW st, NEW next, NEW end, NEW x, NEW y,
         Nests(st, CS!Yield(next, x)), Nests(next, CS!Yield(end, y))
  PROVE  Nests(st, CS!Yield(end, x \o y))
BY LeadsOn DEF Nests, CS!Yield

(* Lemma: a result is its state and its events.                            *)
LEMMA YieldParts ==
  ASSUME NEW r, NEW st, NEW out, r = CS!Yield(st, out)
  PROVE  r.st = st /\ r.out = out /\ r = CS!Yield(r.st, r.out)
BY DEF CS!Yield

(* Lemma: no events, where the block and the index stay.                   *)
LEMMA NestsStill ==
  ASSUME NEW st, NEW next \in StreamStates, next.block = st.block, next.index = st.index,
         next.started = st.started
  PROVE  Nests(st, CS!Yield(next, <<>>))
BY LeadsNowhere DEF Nests, CS!Yield, SeenBy

(* Lemma: a block begins.                                                  *)
LEMMA StartNests ==
  ASSUME NEW st \in StreamStates, st.started, st.block = "none",
         NEW kind \in {"text", "thinking", "function"}
  PROVE  LET next == [st EXCEPT !.block = kind]
         IN  /\ Nests(st, CS!Yield(next, <<CS!BlockStart(kind, st.index)>>))
             /\ Same(st, next) /\ next.block = kind /\ next.trailing = st.trailing
<1> DEFINE next == [st EXCEPT !.block = kind]
<1>1. next \in StreamStates
  BY DEF StreamStates
<1>2. /\ next.block = kind /\ next.index = st.index /\ next.started = st.started
      /\ Same(st, next) /\ next.trailing = st.trailing
  BY DEF StreamStates, Same
<1>3. st.started = TRUE
  BY DEF StreamStates
<1>4. SeenBy(st) = Sight("none", st.index, TRUE) /\ SeenBy(next) = Sight(kind, st.index, TRUE)
  BY <1>2, <1>3 DEF SeenBy
<1>5. CS!Watch(SeenBy(st), CS!BlockStart(kind, st.index)) = SeenBy(next)
  BY <1>4, StartWatched
<1> HIDE DEF next
<1>6. Leads(SeenBy(st), <<CS!BlockStart(kind, st.index)>>, SeenBy(next))
  BY <1>5, LeadsOne
<1> QED
  BY <1>1, <1>2, <1>6 DEF Nests, CS!Yield, next

(* Lemma: a block goes on.                                                 *)
LEMMA DeltaNests ==
  ASSUME NEW st \in StreamStates, NEW kind, CS!Fits(kind, st.block), NEW size
  PROVE  Nests(st, CS!Yield(st, <<CS!Delta(kind, st.index, size)>>))
<1>1. CS!Watch(SeenBy(st), CS!Delta(kind, st.index, size)) = SeenBy(st)
  BY DeltaWatched DEF SeenBy
<1>2. Leads(SeenBy(st), <<CS!Delta(kind, st.index, size)>>, SeenBy(st))
  BY <1>1, LeadsOne
<1> QED
  BY <1>2 DEF Nests, CS!Yield

(* Lemma: end_block ends the block that is open.                           *)
LEMMA EndNests ==
  ASSUME NEW st \in StreamStates
  PROVE  LET r == CS!EndBlock(st)
         IN  /\ Nests(st, r) /\ r.st.block = "none" /\ Same(st, r.st)
             /\ r.st.trailing = st.trailing /\ r = CS!Yield(r.st, r.out)
<1> DEFINE r == CS!EndBlock(st)
<1>1. CASE st.block = "none"
  <2>1. r = CS!Yield(st, <<>>)
    BY <1>1 DEF CS!EndBlock
  <2> QED
    BY <1>1, <2>1, NestsStill DEF CS!Yield, Same
<1>2. CASE st.block # "none"
  <2> DEFINE signed == st.block = "thinking" /\ st.pending
             next == [st EXCEPT !.block = "none", !.index = @ + 1, !.pending = @ /\ ~signed]
             sigs == IF signed THEN <<CS!Delta("signature", st.index, 0)>> ELSE <<>>
             stop == <<CS!BlockStop(st.index)>>
  <2>1. r = CS!Yield(next, sigs \o stop)
    BY <1>2, Zenon DEF CS!EndBlock
  <2>2. next \in StreamStates
    <3> DEFINE i == st.index + 1
               left == st.pending /\ ~signed
    <3>1. i \in Nat
      BY DEF StreamStates
    <3>2. left \in BOOLEAN
      OBVIOUS
    <3> HIDE DEF i, left
    <3>3. [st EXCEPT !.block = "none", !.index = i, !.pending = left] \in StreamStates
      BY <3>1, <3>2 DEF StreamStates
    <3> QED
      BY <3>3 DEF i, left
  <2>3. /\ next.block = "none" /\ next.index = st.index + 1 /\ Same(st, next)
        /\ next.trailing = st.trailing /\ next.started = st.started
    BY DEF StreamStates, Same
  <2>4. Nests(st, CS!Yield(st, sigs))
    <3>1. CASE signed
      BY <3>1, DeltaNests DEF CS!Fits
    <3>2. CASE ~signed
      BY <3>2, NestsStill
    <3> QED
      BY <3>1, <3>2
  <2>5. Nests(st, CS!Yield(next, stop))
    <3>1. CS!Watch(SeenBy(st), CS!BlockStop(st.index))
             = Sight("none", st.index + 1, st.started)
      BY <1>2, StopWatched DEF SeenBy
    <3>2. SeenBy(next) = Sight("none", st.index + 1, st.started)
      BY <2>3 DEF SeenBy
    <3> HIDE DEF next
    <3> QED
      BY <2>2, <3>1, <3>2, LeadsOne DEF Nests, CS!Yield
  <2> HIDE DEF next, sigs, stop
  <2>6. Nests(st, r)
    BY <2>1, <2>4, <2>5, NestsOn
  <2> QED
    BY <2>1, <2>3, <2>6 DEF CS!Yield
<1> QED
  BY <1>1, <1>2

(* Lemma: start_block ends one block and begins another.                   *)
LEMMA StartBlockNests ==
  ASSUME NEW st \in StreamStates, st.started,
         NEW kind \in {"text", "thinking", "function"}
  PROVE  LET r == CS!StartBlock(st, kind)
         IN  /\ Nests(st, r) /\ r.st.block = kind /\ Same(st, r.st)
             /\ r.st.trailing = st.trailing /\ r = CS!Yield(r.st, r.out)
<1> DEFINE e == CS!EndBlock(st)
           next == [e.st EXCEPT !.block = kind]
           start == <<CS!BlockStart(kind, e.st.index)>>
<1>1. CS!StartBlock(st, kind) = CS!Yield(next, e.out \o start)
  BY DEF CS!StartBlock, CS!Then, CS!Yield
<1>2. /\ Nests(st, e) /\ e.st.block = "none" /\ Same(st, e.st)
      /\ e.st.trailing = st.trailing /\ e = CS!Yield(e.st, e.out)
  BY EndNests
<1> HIDE DEF e
<1>3. e.st \in StreamStates /\ e.st.started
  BY <1>2 DEF Nests, Same
<1>4. /\ Nests(e.st, CS!Yield(next, start))
      /\ Same(e.st, next) /\ next.block = kind /\ next.trailing = e.st.trailing
  BY <1>2, <1>3, StartNests
<1> HIDE DEF next, start
<1>5. Nests(st, CS!Yield(next, e.out \o start))
  BY <1>2, <1>4, NestsOn
<1>6. CS!StartBlock(st, kind).st = next /\ CS!StartBlock(st, kind).out = e.out \o start
  BY <1>1 DEF CS!Yield
<1>7. Same(st, next) /\ next.trailing = st.trailing
  BY <1>2, <1>4 DEF Same
<1> QED
  BY <1>1, <1>4, <1>5, <1>6, <1>7

(* Lemma: emit_trailing_signature hands out the signature kept, in a block *)
(* of its own, and does nothing without one.                               *)
LEMMA TrailingNests ==
  ASSUME NEW st \in StreamStates, st.trailing => st.started
  PROVE  LET r == CS!EmitTrailing(st)
         IN  /\ Nests(st, r) /\ Same(st, r.st) /\ r = CS!Yield(r.st, r.out)
             /\ ~r.st.trailing /\ (st.block = "none" => r.st.block = "none")
             /\ ~st.trailing => r = CS!Yield(st, <<>>)
<1> DEFINE r == CS!EmitTrailing(st)
<1>1. CASE ~st.trailing
  <2>1. r = CS!Yield(st, <<>>)
    BY <1>1 DEF CS!EmitTrailing
  <2> QED
    BY <1>1, <2>1, NestsStill DEF CS!Yield, Same
<1>2. CASE st.trailing
  <2> DEFINE e == CS!EndBlock(st)
             next == [e.st EXCEPT !.trailing = FALSE, !.block = "thinking"]
             start == <<CS!BlockStart("thinking", e.st.index)>>
             delta == <<CS!Delta("signature", e.st.index, 0)>>
             both == <<CS!BlockStart("thinking", e.st.index), CS!Delta("signature", e.st.index, 0)>>
             f == CS!EndBlock(next)
  <2>1. r = CS!Yield(f.st, (e.out \o both) \o f.out)
    BY <1>2 DEF CS!EmitTrailing, CS!Then, CS!Yield
  <2>2. /\ Nests(st, e) /\ e.st.block = "none" /\ Same(st, e.st) /\ e = CS!Yield(e.st, e.out)
    BY EndNests
  <2>3. both = start \o delta
    OBVIOUS
  <2> HIDE DEF e
  <2>4. e.st \in StreamStates /\ e.st.started
    BY <1>2, <2>2 DEF Nests, Same
  <2> DEFINE calm == [e.st EXCEPT !.trailing = FALSE]
  <2>5. calm \in StreamStates /\ Same(e.st, calm) /\ calm.block = "none"
        /\ calm.index = e.st.index /\ calm.started
    BY <2>2, <2>4 DEF StreamStates, Same
  <2>6. next = [calm EXCEPT !.block = "thinking"] /\ calm.trailing = FALSE
    BY <2>4 DEF StreamStates
  <2>7. Nests(e.st, CS!Yield(calm, <<>>))
    BY <2>2, <2>4, <2>5, NestsStill DEF Same
  <2> HIDE DEF calm, next
  <2>8. /\ Nests(calm, CS!Yield(next, start))
        /\ Same(calm, next) /\ next.block = "thinking" /\ next.trailing = FALSE
    BY <2>5, <2>6, StartNests
  <2>9. next.index = calm.index
    BY <2>5, <2>6 DEF StreamStates
  <2>10. next \in StreamStates
    BY <2>8 DEF Nests, CS!Yield
  <2>11. Nests(next, CS!Yield(next, delta))
    BY <2>5, <2>8, <2>9, <2>10, DeltaNests DEF CS!Fits
  <2>12. /\ Nests(next, f) /\ f.st.block = "none" /\ Same(next, f.st)
         /\ f.st.trailing = FALSE /\ f = CS!Yield(f.st, f.out)
    BY <2>8, <2>10, EndNests
  <2> HIDE DEF f, start, delta, both
  <2>13. Nests(calm, CS!Yield(next, start \o delta))
    BY <2>8, <2>11, NestsOn
  <2>14. Nests(st, CS!Yield(calm, e.out \o <<>>))
    BY <2>2, <2>7, NestsOn
  <2>15. e.out \o <<>> = e.out
    BY <2>2, ConcatEmptySeq DEF Nests, Leads
  <2>16. Nests(st, CS!Yield(next, e.out \o both))
    BY <2>3, <2>13, <2>14, <2>15, NestsOn
  <2>17. Nests(st, CS!Yield(f.st, (e.out \o both) \o f.out))
    BY <2>12, <2>16, NestsOn
  <2>18. Same(st, f.st)
    BY <2>2, <2>5, <2>8, <2>12 DEF Same
  <2>19. r.st = f.st /\ r = CS!Yield(r.st, r.out)
    BY <2>1 DEF CS!Yield
  <2> QED
    BY <1>2, <2>1, <2>12, <2>17, <2>18, <2>19
<1> QED
  BY <1>1, <1>2

(* Lemma: the block that takes a part is open, or begins.                  *)
LEMMA OpenNests ==
  ASSUME NEW st \in StreamStates, st.started, NEW kind \in {"text", "thinking"}
  PROVE  LET r == IF st.block = kind THEN CS!Yield(st, <<>>) ELSE CS!StartBlock(st, kind)
         IN  /\ Nests(st, r) /\ r.st.block = kind /\ Same(st, r.st)
             /\ r.st.trailing = st.trailing /\ r = CS!Yield(r.st, r.out)
<1>1. CASE st.block = kind
  <2>1. /\ Nests(st, CS!Yield(st, <<>>)) /\ CS!Yield(st, <<>>).st = st
        /\ CS!Yield(st, <<>>).out = <<>> /\ Same(st, st)
    BY NestsStill DEF CS!Yield, Same
  <2> QED
    BY <1>1, <2>1
<1>2. CASE st.block # kind
  BY <1>2, StartBlockNests
<1> QED
  BY <1>1, <1>2

(* Lemma: a function call is a block of its own.                           *)
LEMMA FunctionCallNests ==
  ASSUME NEW st \in StreamStates, st.started, NEW size
  PROVE  LET r == CS!ProcessFunctionCall(st, size)
         IN  /\ Nests(st, r) /\ r.st.block = "none" /\ Same(st, r.st)
             /\ r.st.trailing = st.trailing /\ r = CS!Yield(r.st, r.out)
<1> DEFINE used == [st EXCEPT !.tool = TRUE]
           b == CS!StartBlock(used, "function")
           delta == <<CS!Delta("input", b.st.index, size)>>
           f == CS!EndBlock(b.st)
           out == (b.out \o delta) \o f.out
<1>1. CS!ProcessFunctionCall(st, size) = CS!Yield(f.st, out)
  BY DEF CS!ProcessFunctionCall, CS!Then, CS!Yield
<1>2. /\ used \in StreamStates /\ used.started /\ Same(st, used) /\ used.block = st.block
      /\ used.index = st.index /\ used.trailing = st.trailing /\ used.started = st.started
  BY DEF StreamStates, Same
<1>3. Nests(st, CS!Yield(used, <<>>))
  BY <1>2, NestsStill
<1> HIDE DEF used
<1>4. /\ Nests(used, b) /\ b.st.block = "function" /\ Same(used, b.st)
      /\ b.st.trailing = used.trailing /\ b = CS!Yield(b.st, b.out)
  BY <1>2, StartBlockNests
<1> HIDE DEF b
<1>5. b.st \in StreamStates
  BY <1>4 DEF Nests
<1>6. Nests(b.st, CS!Yield(b.st, delta))
  BY <1>4, <1>5, DeltaNests DEF CS!Fits
<1>7. /\ Nests(b.st, f) /\ f.st.block = "none" /\ Same(b.st, f.st)
      /\ f.st.trailing = b.st.trailing /\ f = CS!Yield(f.st, f.out)
  BY <1>5, EndNests
<1> HIDE DEF f, delta
<1>8. Nests(st, CS!Yield(b.st, <<>> \o b.out))
  BY <1>3, <1>4, NestsOn
<1>9. <<>> \o b.out = b.out
  BY <1>4, ConcatEmptySeq DEF Nests, Leads
<1>10. Nests(st, CS!Yield(f.st, out))
  <2>1. Nests(st, CS!Yield(b.st, b.out))
    BY <1>8, <1>9
  <2>2. Nests(st, CS!Yield(b.st, b.out \o delta))
    BY <1>6, <2>1, NestsOn
  <2>3. Nests(b.st, CS!Yield(f.st, f.out))
    BY <1>7
  <2> QED
    BY <2>2, <2>3, NestsOn
<1> HIDE DEF out
<1>11. CS!ProcessFunctionCall(st, size).st = f.st /\ CS!ProcessFunctionCall(st, size).out = out
  BY <1>1, YieldParts
<1>12. Same(st, f.st) /\ f.st.trailing = st.trailing
  BY <1>2, <1>4, <1>7 DEF Same
<1> QED
  BY <1>1, <1>7, <1>10, <1>11, <1>12

(* Lemma: words go to a text block.                                        *)
LEMMA PlainTextNests ==
  ASSUME NEW st \in StreamStates, st.started, NEW size
  PROVE  LET r == CS!PlainText(st, size)
         IN  /\ Nests(st, r) /\ Same(st, r.st)
             /\ r.st.trailing = st.trailing /\ r = CS!Yield(r.st, r.out)
<1> DEFINE b == IF st.block = "text" THEN CS!Yield(st, <<>>) ELSE CS!StartBlock(st, "text")
           delta == <<CS!Delta("text", b.st.index, size)>>
<1>1. CS!PlainText(st, size) = CS!Yield(b.st, b.out \o delta)
  BY DEF CS!PlainText, CS!Then, CS!Yield
<1>2. /\ Nests(st, b) /\ b.st.block = "text" /\ Same(st, b.st)
      /\ b.st.trailing = st.trailing /\ b = CS!Yield(b.st, b.out)
  BY OpenNests
<1> HIDE DEF b
<1>3. b.st \in StreamStates
  BY <1>2 DEF Nests
<1>4. Nests(b.st, CS!Yield(b.st, delta))
  BY <1>2, <1>3, DeltaNests DEF CS!Fits
<1> HIDE DEF delta
<1>5. Nests(st, CS!Yield(b.st, b.out \o delta))
  BY <1>2, <1>4, NestsOn
<1>6. CS!PlainText(st, size).st = b.st /\ CS!PlainText(st, size).out = b.out \o delta
  BY <1>1 DEF CS!Yield
<1> QED
  BY <1>1, <1>2, <1>5, <1>6

(* Lemma: thoughts go to a thinking block.                                 *)
LEMMA ThinkingNests ==
  ASSUME NEW st \in StreamStates, st.started, NEW text, NEW sig \in BOOLEAN
  PROVE  LET r == CS!ProcessThinking(st, text, sig)
         IN  Nests(st, r) /\ Same(st, r.st) /\ r = CS!Yield(r.st, r.out)
<1> DEFINE t == CS!EmitTrailing(st)
           b == IF t.st.block = "thinking" THEN CS!Yield(t.st, <<>>)
                ELSE CS!StartBlock(t.st, "thinking")
           kept == b.st.pending \/ sig
           next == [b.st EXCEPT !.pending = kept]
           delta == IF text = <<>> THEN <<>> ELSE <<CS!Delta("thinking", b.st.index, Len(text))>>
           out == (t.out \o b.out) \o delta
<1>1. CS!ProcessThinking(st, text, sig) = CS!Yield(next, out)
  BY DEF CS!ProcessThinking, CS!Then, CS!Yield
<1>2. Nests(st, t) /\ Same(st, t.st) /\ t = CS!Yield(t.st, t.out)
  BY TrailingNests
<1> HIDE DEF t
<1>3. t.st \in StreamStates /\ t.st.started
  BY <1>2 DEF Nests, Same
<1>4. /\ Nests(t.st, b) /\ b.st.block = "thinking" /\ Same(t.st, b.st)
      /\ b = CS!Yield(b.st, b.out)
  BY <1>3, OpenNests
<1> HIDE DEF b
<1>5. b.st \in StreamStates /\ kept \in BOOLEAN
  BY <1>4 DEF Nests
<1> HIDE DEF kept
<1>6. /\ next \in StreamStates /\ next.block = b.st.block /\ next.index = b.st.index
      /\ next.started = b.st.started /\ Same(b.st, next)
  BY <1>5 DEF StreamStates, Same
<1> HIDE DEF next
<1>7. Nests(b.st, CS!Yield(b.st, delta))
  <2>1. CASE text = <<>>
    BY <1>5, <2>1, NestsStill
  <2>2. CASE text # <<>>
    BY <1>4, <1>5, <2>2, DeltaNests DEF CS!Fits
  <2> QED
    BY <2>1, <2>2
<1>8. Nests(b.st, CS!Yield(next, <<>>))
  BY <1>6, NestsStill
<1> HIDE DEF delta
<1>9. Nests(b.st, CS!Yield(next, delta))
  <2>1. Nests(b.st, CS!Yield(next, delta \o <<>>))
    BY <1>7, <1>8, NestsOn
  <2>2. delta \o <<>> = delta
    BY <1>7, ConcatEmptySeq DEF Nests, Leads, CS!Yield
  <2> QED
    BY <2>1, <2>2
<1>10. Nests(st, CS!Yield(next, out))
  <2>1. Nests(st, CS!Yield(b.st, t.out \o b.out))
    BY <1>2, <1>4, NestsOn
  <2> QED
    BY <1>9, <2>1, NestsOn
<1> HIDE DEF out
<1>11. CS!ProcessThinking(st, text, sig).st = next /\ CS!ProcessThinking(st, text, sig).out = out
  BY <1>1, YieldParts
<1>12. Same(st, next)
  BY <1>2, <1>4, <1>6 DEF Same
<1> QED
  BY <1>1, <1>10, <1>11, <1>12

(* Lemma: a call written as XML, with no words before it, is handed out    *)
(* before the words behind it.                                             *)
LEMMA XmlCallNests ==
  ASSUME NEW st \in StreamStates, st.started, Len(st.xml) >= 1, st.xml[1] = "o"
  PROVE  LET r == CS!CallFromXml(st)
         IN  /\ Nests(st, r) /\ r.st.trailing = st.trailing /\ r.st.started = st.started
             /\ r.st.stopped = st.stopped /\ r.st.grounding = st.grounding
<1> DEFINE opens == CS!SelectInSeq(st.xml, LAMBDA x : x = "o")
           closes == CS!SelectInSeq(st.xml, LAMBDA x : x = "c")
           size == closes - opens + 1
           call == CS!ProcessFunctionCall(st, size)
           cleared == [call.st EXCEPT !.xml = <<>>, !.inXml = FALSE]
           left == Len(st.xml) - closes
           suffix == IF left = 0 THEN CS!Yield(cleared, <<>>) ELSE CS!PlainText(cleared, left)
<1>1. opens = 1
  <2> DEFINE I == {i \in 1..Len(st.xml) : st.xml[i] = "o"}
  <2>1. Len(st.xml) \in Nat
    BY LenProperties DEF StreamStates
  <2>2. 1 \in I /\ \A i \in I : i \in Nat /\ 1 <= i
    BY <2>1
  <2>3. opens = CS!Min(I)
    BY <2>2 DEF CS!SelectInSeq
  <2> HIDE DEF I, opens
  <2>4. CS!Min(I) = 1
    BY <2>2 DEF CS!Min
  <2> QED
    BY <2>3, <2>4
<1> HIDE DEF opens, closes
<1>2. CS!CallFromXml(st) = CS!Yield(suffix.st, (<<>> \o call.out) \o suffix.out)
  <2>1. opens - 1 = 0
    BY <1>1
  <2> HIDE DEF size, left
  <2> QED
    BY <2>1 DEF CS!CallFromXml, CS!Yield, opens, closes, size, left
<1> HIDE DEF size
<1>3. /\ Nests(st, call) /\ call.st.block = "none" /\ Same(st, call.st)
      /\ call.st.trailing = st.trailing /\ call = CS!Yield(call.st, call.out)
  BY FunctionCallNests
<1> HIDE DEF call
<1>4. call.st \in StreamStates
  BY <1>3 DEF Nests
<1>5. /\ cleared \in StreamStates /\ cleared.block = call.st.block
      /\ cleared.index = call.st.index /\ cleared.started = call.st.started
      /\ cleared.stopped = call.st.stopped /\ cleared.trailing = call.st.trailing
      /\ cleared.grounding = call.st.grounding
  BY <1>4, EmptySeq DEF StreamStates
<1>6. cleared.started
  BY <1>3, <1>5 DEF Same
<1> HIDE DEF cleared, left
<1>7. /\ Nests(cleared, suffix) /\ Same(cleared, suffix.st)
      /\ suffix.st.trailing = cleared.trailing /\ suffix = CS!Yield(suffix.st, suffix.out)
  <2>1. CASE left = 0
    <3>1. /\ Nests(cleared, CS!Yield(cleared, <<>>)) /\ CS!Yield(cleared, <<>>).st = cleared
          /\ CS!Yield(cleared, <<>>).out = <<>> /\ Same(cleared, cleared)
      BY <1>5, NestsStill DEF CS!Yield, Same
    <3> QED
      BY <2>1, <3>1
  <2>2. CASE left # 0
    BY <1>5, <1>6, <2>2, PlainTextNests
  <2> QED
    BY <2>1, <2>2
<1> HIDE DEF suffix
<1>8. Nests(call.st, CS!Yield(cleared, <<>>))
  BY <1>5, NestsStill
<1>9. Nests(st, CS!Yield(cleared, call.out \o <<>>))
  BY <1>3, <1>8, NestsOn
<1>10. call.out \o <<>> = call.out /\ <<>> \o call.out = call.out
  BY <1>3, ConcatEmptySeq DEF Nests, Leads
<1>11. Nests(st, CS!Yield(suffix.st, (<<>> \o call.out) \o suffix.out))
  BY <1>7, <1>9, <1>10, NestsOn
<1>12. CS!CallFromXml(st).st = suffix.st
  BY <1>2 DEF CS!Yield
<1>13. /\ suffix.st.trailing = st.trailing /\ suffix.st.started = st.started
       /\ suffix.st.stopped = st.stopped /\ suffix.st.grounding = st.grounding
  BY <1>3, <1>5, <1>7 DEF Same
<1> QED
  BY <1>2, <1>11, <1>12, <1>13

(* What of a state its next steps rest on: nothing is kept before the      *)
(* message has begun.                                                      *)
Begun(st) ==
    /\ st \in StreamStates
    /\ ~st.started => st.block = "none" /\ ~st.trailing /\ ~st.grounding

(* Lemma: the texts are made of tokens.                                    *)
LEMMA TextTokens ==
  ASSUME NEW text \in CS!Texts
  PROVE  text \in Seq({"t", "o", "c"})
<1> DEFINE T == {"t", "o", "c"}
<1>1. <<>> \in Seq(T)
  BY EmptySeq
<1>2. \A x \in T : <<x>> \in Seq(T)
  OBVIOUS
<1>3. \A x, y \in T : <<x, y>> \in Seq(T)
  OBVIOUS
<1>4. <<"t", "o", "c", "t">> \in Seq(T)
  OBVIOUS
<1> QED
  BY <1>1, <1>2, <1>3, <1>4 DEF CS!Texts

(* Lemma: words, signed or written around a call.                          *)
LEMMA TextNests ==
  ASSUME NEW st \in StreamStates, st.started, NEW text \in CS!Texts, NEW sig \in BOOLEAN,
         text # <<>> /\ ~sig /\ (CS!Contains(text, "o") \/ st.inXml) =>
             IF CS!Contains(st.xml \o text, "c") THEN Head(st.xml \o text) = "o"
             ELSE ~st.trailing
  PROVE  LET r == CS!ProcessText(st, text, sig)
         IN  Nests(st, r) /\ r.st.started /\ r.st.stopped = st.stopped
<1> DEFINE t == CS!EmitTrailing(st)
<1>1. /\ Nests(st, t) /\ Same(st, t.st) /\ t = CS!Yield(t.st, t.out)
      /\ ~st.trailing => t = CS!Yield(st, <<>>)
  BY TrailingNests
<1>2. t.st \in StreamStates /\ t.st.started /\ t.st.stopped = st.stopped
  BY <1>1 DEF Nests, Same
<1>3. CASE text = <<>> /\ sig
  <2> DEFINE next == [t.st EXCEPT !.trailing = TRUE]
  <2>1. CS!ProcessText(st, text, sig) = CS!Yield(next, t.out \o <<>>)
    BY <1>3 DEF CS!ProcessText, CS!Then, CS!Yield
  <2> HIDE DEF t
  <2>2. /\ next \in StreamStates /\ next.block = t.st.block /\ next.index = t.st.index
        /\ next.started = t.st.started /\ next.stopped = t.st.stopped
    BY <1>2 DEF StreamStates
  <2> HIDE DEF next
  <2>3. Nests(t.st, CS!Yield(next, <<>>))
    BY <2>2, NestsStill
  <2>4. Nests(st, CS!Yield(next, t.out \o <<>>))
    BY <1>1, <2>3, NestsOn
  <2>5. CS!ProcessText(st, text, sig).st = next
    BY <2>1 DEF CS!Yield
  <2> QED
    BY <1>2, <2>1, <2>2, <2>4, <2>5
<1>4. CASE text = <<>> /\ ~sig
  <2>1. CS!ProcessText(st, text, sig) = CS!Yield(st, <<>>)
    BY <1>4 DEF CS!ProcessText
  <2>2. Nests(st, CS!Yield(st, <<>>)) /\ CS!Yield(st, <<>>).st = st
    BY NestsStill DEF CS!Yield
  <2> QED
    BY <2>1, <2>2
<1>5. CASE text # <<>> /\ sig
  <2> DEFINE b == CS!StartBlock(t.st, "text")
             delta == <<CS!Delta("text", b.st.index, Len(text))>>
             f == CS!EndBlock(b.st)
  <2>1. CS!ProcessText(st, text, sig) = CS!Yield(f.st, (t.out \o b.out) \o (delta \o f.out))
    BY <1>5 DEF CS!ProcessText, CS!Then, CS!Yield
  <2> HIDE DEF t
  <2>2. /\ Nests(t.st, b) /\ b.st.block = "text" /\ Same(t.st, b.st)
        /\ b = CS!Yield(b.st, b.out)
    BY <1>2, StartBlockNests
  <2> HIDE DEF b
  <2>3. b.st \in StreamStates
    BY <2>2 DEF Nests
  <2>4. Nests(b.st, CS!Yield(b.st, delta))
    BY <2>2, <2>3, DeltaNests DEF CS!Fits
  <2>5. /\ Nests(b.st, f) /\ Same(b.st, f.st) /\ f = CS!Yield(f.st, f.out)
    BY <2>3, EndNests
  <2> HIDE DEF f, delta
  <2>6. Nests(b.st, CS!Yield(f.st, delta \o f.out))
    BY <2>4, <2>5, NestsOn
  <2>7. Nests(st, CS!Yield(b.st, t.out \o b.out))
    BY <1>1, <2>2, NestsOn
  <2>8. Nests(st, CS!Yield(f.st, (t.out \o b.out) \o (delta \o f.out)))
    BY <2>6, <2>7, NestsOn
  <2>9. CS!ProcessText(st, text, sig).st = f.st
    BY <2>1 DEF CS!Yield
  <2>10. f.st.started /\ f.st.stopped = st.stopped
    BY <1>2, <2>2, <2>5 DEF Same
  <2> QED
    BY <2>1, <2>8, <2>9, <2>10
<1>6. CASE text # <<>> /\ ~sig /\ ~(CS!Contains(text, "o") \/ st.inXml)
  <2> DEFINE p == CS!PlainText(t.st, Len(text))
  <2>1. CS!ProcessText(st, text, sig) = CS!Yield(p.st, t.out \o p.out)
    BY <1>6 DEF CS!ProcessText, CS!Then, CS!Yield
  <2> HIDE DEF t
  <2>2. Nests(t.st, p) /\ Same(t.st, p.st) /\ p = CS!Yield(p.st, p.out)
    BY <1>2, PlainTextNests
  <2> HIDE DEF p
  <2>3. Nests(st, CS!Yield(p.st, t.out \o p.out))
    BY <1>1, <2>2, NestsOn
  <2>4. CS!ProcessText(st, text, sig).st = p.st
    BY <2>1 DEF CS!Yield
  <2> QED
    BY <1>2, <2>1, <2>2, <2>3, <2>4 DEF Same
<1>7. CASE text # <<>> /\ ~sig /\ (CS!Contains(text, "o") \/ st.inXml)
  <2> DEFINE buffered == [t.st EXCEPT !.inXml = TRUE, !.xml = t.st.xml \o text]
             c == CS!CallFromXml(buffered)
  <2>1. CS!ProcessText(st, text, sig) =
           IF CS!Contains(buffered.xml, "c") THEN CS!Yield(c.st, t.out \o c.out)
           ELSE CS!Yield(buffered, <<>>)
    <3>1. [t.st EXCEPT !.inXml = TRUE, !.xml = @ \o text] = buffered
      OBVIOUS
    <3> HIDE DEF buffered, t
    <3> QED
      BY <1>7, <3>1 DEF CS!ProcessText, CS!Then, CS!Yield, t
  <2> HIDE DEF t
  <2>2. /\ text \in Seq({"t", "o", "c"}) /\ Len(text) >= 1
        /\ t.st.xml \in Seq({"t", "o", "c"}) /\ t.st.xml = st.xml
    <3>1. text \in Seq({"t", "o", "c"})
      BY TextTokens
    <3>2. Len(text) \in Nat \ {0}
      BY <1>7, <3>1, EmptySeq
    <3> QED
      BY <1>1, <1>2, <3>1, <3>2 DEF StreamStates, Same
  <2> DEFINE all == st.xml \o text
  <2>3. all \in Seq({"t", "o", "c"}) /\ Len(all) >= 1
    BY <2>2, ConcatProperties, LenProperties
  <2>4. /\ buffered \in StreamStates /\ buffered.block = t.st.block /\ buffered.xml = all
        /\ buffered.index = t.st.index /\ buffered.started = t.st.started
        /\ buffered.stopped = t.st.stopped
    <3> HIDE DEF all
    <3> QED
      BY <1>2, <2>2, <2>3 DEF StreamStates, all
  <2> HIDE DEF buffered
  <2>5. Nests(t.st, CS!Yield(buffered, <<>>))
    BY <2>4, NestsStill
  <2>6. CASE CS!Contains(all, "c")
    <3>1. all[1] = "o"
      BY <1>7, <2>3, <2>6
    <3>2. Nests(buffered, c) /\ c.st.started = buffered.started /\ c.st.stopped = buffered.stopped
      BY <1>2, <2>3, <2>4, <3>1, XmlCallNests
    <3>3. Nests(st, CS!Yield(buffered, t.out))
      <4>1. Nests(st, CS!Yield(buffered, t.out \o <<>>))
        BY <1>1, <2>5, NestsOn
      <4>2. t.out \o <<>> = t.out
        BY <1>1, ConcatEmptySeq DEF Nests, Leads
      <4> QED
        BY <4>1, <4>2
    <3> HIDE DEF c
    <3>4. Nests(buffered, CS!Yield(c.st, c.out))
      BY <3>2 DEF Nests, CS!Yield
    <3>5. Nests(st, CS!Yield(c.st, t.out \o c.out))
      BY <3>3, <3>4, NestsOn
    <3>6. CS!ProcessText(st, text, sig) = CS!Yield(c.st, t.out \o c.out)
      BY <2>1, <2>4, <2>6
    <3>7. CS!ProcessText(st, text, sig).st = c.st
      BY <3>6 DEF CS!Yield
    <3> QED
      BY <1>2, <2>4, <3>2, <3>5, <3>6, <3>7
  <2>7. CASE ~CS!Contains(all, "c")
    <3>1. t.st = st
      BY <1>1, <1>7, <2>7 DEF CS!Yield
    <3>2. CS!ProcessText(st, text, sig) = CS!Yield(buffered, <<>>)
      BY <2>1, <2>4, <2>7
    <3>3. CS!ProcessText(st, text, sig).st = buffered
      BY <3>2 DEF CS!Yield
    <3> QED
      BY <1>2, <2>4, <2>5, <3>1, <3>2, <3>3
  <2> QED
    BY <2>6, <2>7
<1> QED
  BY <1>3, <1>4, <1>5, <1>6, <1>7

(* Lemma: a part of any kind.                                              *)
LEMMA PartNests ==
  ASSUME NEW st \in StreamStates, st.started, NEW part \in CS!Parts, part.kind # "error",
         part.kind = "text" /\ part.text # <<>> /\ ~part.sig
            /\ (CS!Contains(part.text, "o") \/ st.inXml) =>
             IF CS!Contains(st.xml \o part.text, "c") THEN Head(st.xml \o part.text) = "o"
             ELSE ~st.trailing
  PROVE  LET r == CS!ProcessPart(st, part)
         IN  Nests(st, r) /\ r.st.started /\ r.st.stopped = st.stopped
<1>1. CASE part.kind = "call"
  <2> DEFINE t == CS!EmitTrailing(st)
             c == CS!ProcessFunctionCall(t.st, 0)
  <2>1. CS!ProcessPart(st, part) = CS!Yield(c.st, t.out \o c.out)
    BY <1>1 DEF CS!ProcessPart, CS!Then, CS!Yield
  <2>2. Nests(st, t) /\ Same(st, t.st) /\ t = CS!Yield(t.st, t.out)
    BY TrailingNests
  <2> HIDE DEF t
  <2>3. t.st \in StreamStates /\ t.st.started
    BY <2>2 DEF Nests, Same
  <2>4. Nests(t.st, c) /\ Same(t.st, c.st) /\ c = CS!Yield(c.st, c.out)
    BY <2>3, FunctionCallNests
  <2> HIDE DEF c
  <2>5. Nests(st, CS!Yield(c.st, t.out \o c.out))
    BY <2>2, <2>4, NestsOn
  <2>6. CS!ProcessPart(st, part).st = c.st
    BY <2>1 DEF CS!Yield
  <2> QED
    BY <2>1, <2>2, <2>4, <2>5, <2>6 DEF Same
<1>2. CASE part.kind = "thinking"
  <2>1. CS!ProcessPart(st, part) = CS!ProcessThinking(st, part.text, part.sig)
    BY <1>2 DEF CS!ProcessPart
  <2>2. part.sig \in BOOLEAN
    BY DEF CS!Parts
  <2> QED
    BY <2>1, <2>2, ThinkingNests DEF Same
<1>3. CASE part.kind = "text"
  <2>1. CS!ProcessPart(st, part) = CS!ProcessText(st, part.text, part.sig)
    BY <1>3 DEF CS!ProcessPart
  <2>2. part.sig \in BOOLEAN /\ part.text \in CS!Texts
    BY <1>3 DEF CS!Parts
  <2>3. part.text # <<>> /\ ~part.sig /\ (CS!Contains(part.text, "o") \/ st.inXml) =>
             IF CS!Contains(st.xml \o part.text, "c") THEN Head(st.xml \o part.text) = "o"
             ELSE ~st.trailing
    BY <1>3
  <2>4. LET r == CS!ProcessText(st, part.text, part.sig)
        IN  Nests(st, r) /\ r.st.started /\ r.st.stopped = st.stopped
    BY <2>2, <2>3, TextNests
  <2> QED
    BY <2>1, <2>4
<1>4. CASE part.kind = "grounding"
  <2> DEFINE next == [st EXCEPT !.grounding = TRUE]
  <2>1. CS!ProcessPart(st, part) = CS!Yield(next, <<>>)
    BY <1>4 DEF CS!ProcessPart
  <2>2. /\ next \in StreamStates /\ next.block = st.block /\ next.index = st.index
        /\ next.started = st.started /\ next.stopped = st.stopped
    BY DEF StreamStates
  <2> HIDE DEF next
  <2>3. Nests(st, CS!Yield(next, <<>>)) /\ CS!Yield(next, <<>>).st = next
    BY <2>2, NestsStill DEF CS!Yield
  <2> QED
    BY <2>1, <2>2, <2>3
<1>5. part.kind \in {"call", "thinking", "text", "grounding"}
  BY DEF CS!Parts
<1> QED
  BY <1>1, <1>2, <1>3, <1>4, <1>5

(* Lemma: two events are one after another.                                *)
LEMMA OneByOne ==
  ASSUME NEW a, NEW b
  PROVE  <<a, b>> = <<a>> \o <<b>>
<1>1. <<a>> \in Seq({a, b}) /\ <<b>> \in Seq({a, b}) /\ <<a, b>> \in Seq({a, b})
  OBVIOUS
<1>2. Len(<<a>>) = 1 /\ Len(<<b>>) = 1 /\ Len(<<a, b>>) = 2
  OBVIOUS
<1>3. /\ <<a>> \o <<b>> \in Seq({a, b}) /\ Len(<<a>> \o <<b>>) = 2
      /\ \A i \in 1..2 : (<<a>> \o <<b>>)[i] = IF i <= 1 THEN <<a>>[i] ELSE <<b>>[i - 1]
  BY <1>1, <1>2, ConcatProperties
<1>4. \A i \in 1..2 : <<a, b>>[i] = (<<a>> \o <<b>>)[i]
  BY <1>3
<1> QED
  BY <1>1, <1>2, <1>3, <1>4, SeqEqual

(* Lemmas: what a reader sees when the message begins and ends, and when   *)
(* an error passes.                                                        *)
LEMMA BeginWatched ==
  ASSUME NEW block, NEW i
  PROVE  CS!Watch(Sight(block, i, FALSE), CS!Message("message_start", "start"))
            = Sight(block, i, TRUE)
BY DEF CS!Watch, CS!Message, CS!Event, Sight

LEMMA PassWatched ==
  ASSUME NEW seen, NEW name \in {"message_delta", "error"}, NEW what
  PROVE  CS!Watch(seen, CS!Message(name, what)) = seen
BY DEF CS!Watch, CS!Message, CS!Event

LEMMA CloseWatched ==
  ASSUME NEW i, NEW begun
  PROVE  CS!Watch(Sight("none", i, begun), CS!Message("message_stop", "stop"))
            = Sight("none", i, begun)
BY DEF CS!Watch, CS!Message, CS!Event, Sight

(* Lemma: the message begins once.                                         *)
LEMMA MessageNests ==
  ASSUME NEW st, Begun(st)
  PROVE  LET r == CS!MessageStart(st)
         IN  /\ Nests(st, r) /\ Begun(r.st) /\ r.st.started /\ r = CS!Yield(r.st, r.out)
             /\ r.st.xml = st.xml /\ r.st.inXml = st.inXml /\ r.st.trailing = st.trailing
             /\ r.st.stopped = st.stopped
<1>1. CASE st.started
  <2>1. CS!MessageStart(st) = CS!Yield(st, <<>>)
    BY <1>1 DEF CS!MessageStart
  <2>2. CS!MessageStart(st).st = st /\ CS!MessageStart(st).out = <<>>
    BY <2>1, YieldParts
  <2>3. Nests(st, CS!Yield(st, <<>>))
    BY NestsStill DEF Begun
  <2> QED
    BY <1>1, <2>1, <2>2, <2>3
<1>2. CASE ~st.started
  <2> DEFINE next == [st EXCEPT !.started = TRUE]
             out == <<CS!Message("message_start", "start")>>
  <2>1. CS!MessageStart(st) = CS!Yield(next, out)
    BY <1>2 DEF CS!MessageStart
  <2>2. /\ next \in StreamStates /\ next.started = TRUE /\ next.block = st.block
        /\ next.index = st.index /\ next.xml = st.xml /\ next.inXml = st.inXml
        /\ next.trailing = st.trailing /\ next.stopped = st.stopped
    BY DEF Begun, StreamStates
  <2> HIDE DEF next
  <2>3. st.started = FALSE
    BY <1>2 DEF Begun, StreamStates
  <2>4. /\ SeenBy(st) = Sight(st.block, st.index, FALSE)
        /\ SeenBy(next) = Sight(st.block, st.index, TRUE)
    BY <2>2, <2>3 DEF SeenBy
  <2>5. Leads(SeenBy(st), out, SeenBy(next))
    BY <2>4, BeginWatched, LeadsOne
  <2> HIDE DEF out
  <2>6. CS!MessageStart(st).st = next /\ CS!MessageStart(st).out = out
    BY <2>1, YieldParts
  <2> QED
    BY <2>1, <2>2, <2>5, <2>6 DEF Nests, Begun
<1> QED
  BY <1>1, <1>2

(* Lemma: the citations are a block of their own.                          *)
LEMMA GroundingNests ==
  ASSUME NEW st \in StreamStates, st.block = "none", st.grounding => st.started
  PROVE  LET r == CS!EmitGrounding(st)
         IN  /\ Nests(st, r) /\ r = CS!Yield(r.st, r.out) /\ r.st.block = "none"
             /\ r.st.started = st.started /\ r.st.trailing = st.trailing
             /\ r.st.grounding = st.grounding
<1>1. CASE ~st.grounding
  <2>1. CS!EmitGrounding(st) = CS!Yield(st, <<>>)
    BY <1>1 DEF CS!EmitGrounding
  <2>2. CS!EmitGrounding(st).st = st /\ CS!EmitGrounding(st).out = <<>>
    BY <2>1, YieldParts
  <2>3. Nests(st, CS!Yield(st, <<>>))
    BY NestsStill
  <2> QED
    BY <2>1, <2>2, <2>3
<1>2. CASE st.grounding
  <2> DEFINE i == st.index
             next == [st EXCEPT !.index = i + 1]
             start == CS!BlockStart("text", i)
             delta == CS!Delta("text", i, 1)
             stop == CS!BlockStop(i)
             first == <<start, delta>>
             out == first \o <<stop>>
  <2>1. CS!EmitGrounding(st) = CS!Yield(next, out)
    <3>1. <<start, delta, stop>> = out
      OBVIOUS
    <3> HIDE DEF out
    <3> QED
      BY <1>2, <3>1 DEF CS!EmitGrounding
  <2>2. /\ next \in StreamStates /\ next.block = "none" /\ next.index = i + 1
        /\ next.started = st.started /\ next.trailing = st.trailing
        /\ next.grounding = st.grounding
    BY DEF StreamStates
  <2> HIDE DEF next
  <2>3. st.started = TRUE
    BY <1>2 DEF StreamStates
  <2>4. SeenBy(st) = Sight("none", i, TRUE) /\ SeenBy(next) = Sight("none", i + 1, TRUE)
    BY <2>2, <2>3 DEF SeenBy
  <2>5. Leads(Sight("none", i, TRUE), <<start>>, Sight("text", i, TRUE))
    <3>1. CS!Watch(Sight("none", i, TRUE), start) = Sight("text", i, TRUE)
      BY StartWatched
    <3> QED
      BY <3>1, LeadsOne
  <2>6. Leads(Sight("text", i, TRUE), <<delta>>, Sight("text", i, TRUE))
    <3>1. CS!Watch(Sight("text", i, TRUE), delta) = Sight("text", i, TRUE)
      BY DeltaWatched DEF CS!Fits
    <3> QED
      BY <3>1, LeadsOne
  <2>7. Leads(Sight("text", i, TRUE), <<stop>>, Sight("none", i + 1, TRUE))
    <3>1. CS!Watch(Sight("text", i, TRUE), stop) = Sight("none", i + 1, TRUE)
      <4>1. \A block, n, begun : block # "none" =>
               CS!Watch(Sight(block, n, begun), CS!BlockStop(n)) = Sight("none", n + 1, begun)
        BY StopWatched
      <4>2. "text" # "none"
        OBVIOUS
      <4> HIDE DEF i
      <4> QED
        BY <4>1, <4>2, Zenon
    <3> QED
      BY <3>1, LeadsOne
  <2> HIDE DEF start, delta, stop
  <2>8. Leads(Sight("none", i, TRUE), first, Sight("text", i, TRUE))
    <3>1. Leads(Sight("none", i, TRUE), <<start>> \o <<delta>>, Sight("text", i, TRUE))
      BY <2>5, <2>6, LeadsOn
    <3> QED
      BY <3>1, OneByOne
  <2> HIDE DEF first
  <2>9. Leads(Sight("none", i, TRUE), out, Sight("none", i + 1, TRUE))
    BY <2>7, <2>8, LeadsOn
  <2> HIDE DEF out
  <2>11. CS!EmitGrounding(st).st = next /\ CS!EmitGrounding(st).out = out
    BY <2>1, YieldParts
  <2> QED
    BY <2>1, <2>2, <2>4, <2>9, <2>11 DEF Nests
<1> QED
  BY <1>1, <1>2

(* Lemma: emit_finish ends what is open and closes the message.            *)
LEMMA FinishNests ==
  ASSUME NEW st, Begun(st), NEW reason
  PROVE  LET r == CS!Finish(st, reason)
         IN  Nests(st, r) /\ Begun(r.st) /\ r.st.started = st.started
<1>1. CASE st.stopped
  <2>1. CS!Finish(st, reason) = CS!Yield(st, <<>>)
    BY <1>1 DEF CS!Finish
  <2>2. Nests(st, CS!Yield(st, <<>>)) /\ CS!Finish(st, reason).st = st
    BY <2>1, NestsStill, YieldParts DEF Begun
  <2> QED
    BY <2>1, <2>2
<1>2. CASE ~st.stopped
  <2> DEFINE e == CS!EndBlock(st)
             t == CS!EmitTrailing(e.st)
             g == CS!EmitGrounding(t.st)
             next == [g.st EXCEPT !.stopped = TRUE]
             last == CS!Message("message_delta", CS!StopReason(st, reason))
             stop == CS!Message("message_stop", "stop")
             out == ((e.out \o t.out) \o g.out) \o <<last, stop>>
  <2>1. CS!Finish(st, reason) = CS!Yield(next, out)
    BY <1>2 DEF CS!Finish, CS!Then, CS!Yield
  <2>2. /\ Nests(st, e) /\ e.st.block = "none" /\ Same(st, e.st) /\ e.st.trailing = st.trailing
        /\ e = CS!Yield(e.st, e.out)
    BY EndNests DEF Begun
  <2> HIDE DEF e
  <2>3. e.st \in StreamStates /\ (e.st.trailing => e.st.started)
        /\ e.st.started = st.started /\ e.st.grounding = st.grounding
    BY <2>2 DEF Begun, Nests, Same
  <2>4. /\ Nests(e.st, t) /\ Same(e.st, t.st) /\ t.st.block = "none" /\ ~t.st.trailing
        /\ t = CS!Yield(t.st, t.out)
    BY <2>2, <2>3, TrailingNests
  <2> HIDE DEF t
  <2>5. t.st \in StreamStates /\ (t.st.grounding => t.st.started)
        /\ t.st.started = st.started /\ t.st.grounding = st.grounding
    BY <2>3, <2>4 DEF Begun, Nests, Same
  <2>6. /\ Nests(t.st, g) /\ g = CS!Yield(g.st, g.out) /\ g.st.block = "none"
        /\ g.st.started = st.started /\ ~g.st.trailing /\ g.st.grounding = st.grounding
    BY <2>4, <2>5, GroundingNests
  <2> HIDE DEF g
  <2>7. g.st \in StreamStates
    BY <2>6 DEF Nests
  <2>8. /\ next \in StreamStates /\ next.block = "none" /\ next.index = g.st.index
        /\ next.started = g.st.started /\ next.trailing = g.st.trailing
        /\ next.grounding = g.st.grounding
    BY <2>6, <2>7 DEF StreamStates
  <2> HIDE DEF next
  <2>9. SeenBy(next) = SeenBy(g.st) /\ SeenBy(g.st) = Sight("none", g.st.index, g.st.started)
    BY <2>6, <2>8 DEF SeenBy
  <2>10. Leads(SeenBy(g.st), <<last>>, SeenBy(g.st))
    BY PassWatched, LeadsOne
  <2>11. Leads(SeenBy(g.st), <<stop>>, SeenBy(next))
    <3>1. CS!Watch(SeenBy(g.st), stop) = SeenBy(next)
      BY <2>9, CloseWatched
    <3> QED
      BY <3>1, LeadsOne
  <2> HIDE DEF last, stop
  <2>12. <<last, stop>> = <<last>> \o <<stop>>
    BY OneByOne
  <2>13. Leads(SeenBy(g.st), <<last, stop>>, SeenBy(next))
    <3>1. Leads(SeenBy(g.st), <<last>> \o <<stop>>, SeenBy(next))
      BY <2>10, <2>11, LeadsOn
    <3> QED
      BY <2>12, <3>1
  <2>14. Nests(g.st, CS!Yield(next, <<last, stop>>))
    BY <2>8, <2>13 DEF Nests, CS!Yield
  <2>15. Nests(st, CS!Yield(t.st, e.out \o t.out))
    BY <2>2, <2>4, NestsOn
  <2>16. Nests(st, CS!Yield(g.st, (e.out \o t.out) \o g.out))
    BY <2>6, <2>15, NestsOn
  <2>17. Nests(st, CS!Yield(next, out))
    BY <2>14, <2>16, NestsOn
  <2> HIDE DEF out
  <2>18. CS!Finish(st, reason).st = next
    BY <2>1, YieldParts
  <2> QED
    BY <2>1, <2>6, <2>8, <2>17, <2>18 DEF Begun
<1> QED
  BY <1>1, <1>2

(* The inductive invariant of a stream: the events lead a reader from the  *)
(* beginning to the state, with the handler's notice after them when the   *)
(* upstream broke. Nothing is claimed after the mishap.                    *)
Notice(i) == <<CS!BlockStart("text", i), CS!Delta("text", i, 1), CS!BlockStop(i)>>
StreamInv ==
    csMishap \/
    /\ Begun(csState)
    /\ csEnd # "aborted" => Leads(CS!Unwatched, csOut, SeenBy(csState))
    /\ csEnd = "aborted" =>
          \E own, i : csOut = own \o Notice(i) /\ Leads(CS!Unwatched, own, SeenBy(csState))


(* Lemma: a line of data, with a part or with a reason to finish.          *)
LEMMA LineStep ==
  ASSUME StreamInv, csEnd = "open",
         \/ \E part \in CS!Parts : CS!Receive(part)
         \/ \E reason \in {"STOP", "MAX_TOKENS"} : CS!ReceiveFinish(reason)
  PROVE  StreamInv'
<1>0. CASE csMishap'
  BY <1>0, Zenon DEF StreamInv
<1> SUFFICES ASSUME ~csMishap' PROVE StreamInv'
  BY <1>0, Zenon
<1>1. ~csMishap /\ csEnd' = "open"
  <2>1. ASSUME NEW part \in CS!Parts, CS!Receive(part) PROVE ~csMishap /\ csEnd' = "open"
    BY <2>1, Zenon DEF CS!Receive
  <2>2. ASSUME NEW reason, CS!ReceiveFinish(reason) PROVE ~csMishap /\ csEnd' = "open"
    BY <2>2, Zenon DEF CS!ReceiveFinish
  <2> QED
    BY <2>1, <2>2, Zenon
<1>2. Begun(csState) /\ Leads(CS!Unwatched, csOut, SeenBy(csState))
  BY <1>1 DEF StreamInv
<1> DEFINE m == CS!MessageStart(csState)
<1>3. /\ Nests(csState, m) /\ Begun(m.st) /\ m.st.started /\ m = CS!Yield(m.st, m.out)
      /\ m.st.xml = csState.xml /\ m.st.inXml = csState.inXml
      /\ m.st.trailing = csState.trailing /\ m.st.stopped = csState.stopped
  BY <1>2, MessageNests
<1>4. ASSUME NEW r, Nests(csState, r), r.st.started, csState' = r.st, csOut' = csOut \o r.out
      PROVE  StreamInv'
  <2>1. Leads(CS!Unwatched, csOut \o r.out, SeenBy(r.st))
    BY <1>2, <1>4, LeadsOn DEF Nests
  <2>2. Begun(r.st)
    BY <1>4 DEF Begun, Nests
  <2> QED
    BY <1>1, <1>4, <2>1, <2>2 DEF StreamInv
<1>5. ASSUME NEW q, Nests(m.st, q), q.st.started, CS!Emit(CS!Yield(q.st, m.out \o q.out))
      PROVE  StreamInv'
  <2> DEFINE out == m.out \o q.out
             r == CS!Yield(q.st, out)
  <2> HIDE DEF m
  <2>1. Nests(m.st, CS!Yield(q.st, q.out))
    BY <1>5, YieldParts DEF Nests
  <2>2. Nests(csState, r)
    BY <1>3, <2>1, NestsOn
  <2> HIDE DEF out
  <2>3. r.st = q.st /\ r.out = out
    BY YieldParts
  <2>4. csState' = r.st /\ csOut' = csOut \o r.out
    BY <1>5 DEF CS!Emit, out
  <2> HIDE DEF r
  <2> QED
    BY <1>4, <1>5, <2>2, <2>3, <2>4
<1>6. CASE \E part \in CS!Parts : CS!Receive(part)
  <2>1. PICK part \in CS!Parts : CS!Receive(part)
    BY <1>6
  <2>2. CASE part.kind = "error"
    <3> DEFINE last == CS!Message("error", "error")
    <3>1. csState' = csState /\ csOut' = csOut \o <<last>>
      BY <2>1, <2>2 DEF CS!Receive, CS!Emit, CS!Yield
    <3>2. Leads(SeenBy(csState), <<last>>, SeenBy(csState))
      BY PassWatched, LeadsOne
    <3> HIDE DEF last
    <3>3. Leads(CS!Unwatched, csOut \o <<last>>, SeenBy(csState))
      BY <1>2, <3>2, LeadsOn
    <3> QED
      BY <1>1, <1>2, <3>1, <3>3 DEF StreamInv
  <2>3. CASE part.kind # "error"
    <3> DEFINE q == CS!ProcessPart(m.st, part)
    <3>1. CS!Emit(CS!Yield(q.st, m.out \o q.out))
      BY <2>1, <2>3 DEF CS!Receive, CS!Then
    <3>2. part.kind = "text" /\ part.text # <<>> /\ ~part.sig
             /\ (CS!Contains(part.text, "o") \/ csState.inXml) =>
              IF CS!Contains(csState.xml \o part.text, "c")
              THEN Head(csState.xml \o part.text) = "o" ELSE ~csState.trailing
      BY <2>1 DEF CS!Receive, CS!Buffers
    <3> HIDE DEF m
    <3>3. m.st \in StreamStates
      BY <1>3 DEF Begun
    <3>4. part.kind = "text" /\ part.text # <<>> /\ ~part.sig
             /\ (CS!Contains(part.text, "o") \/ m.st.inXml) =>
              IF CS!Contains(m.st.xml \o part.text, "c")
              THEN Head(m.st.xml \o part.text) = "o" ELSE ~m.st.trailing
      BY <1>3, <3>2
    <3>5. Nests(m.st, q) /\ q.st.started
      BY <1>3, <2>3, <3>3, <3>4, PartNests
    <3> HIDE DEF q
    <3> QED
      BY <1>5, <3>1, <3>5
  <2> QED
    BY <2>2, <2>3
<1>7. CASE \E reason \in {"STOP", "MAX_TOKENS"} : CS!ReceiveFinish(reason)
  <2>1. PICK reason \in {"STOP", "MAX_TOKENS"} : CS!ReceiveFinish(reason)
    BY <1>7
  <2> DEFINE q == CS!Finish(m.st, reason)
  <2>2. CS!Emit(CS!Yield(q.st, m.out \o q.out))
    BY <2>1 DEF CS!ReceiveFinish, CS!Then
  <2> HIDE DEF m
  <2>3. Nests(m.st, q) /\ q.st.started
    BY <1>3, FinishNests
  <2> HIDE DEF q
  <2> QED
    BY <1>5, <2>2, <2>3
<1> QED
  BY <1>6, <1>7

(* Theorem: a reader of the stream sees what the state says.               *)
THEOREM StreamInvariance == CS!Spec => []StreamInv
<1>1. CS!Init => StreamInv
  <2> SUFFICES ASSUME CS!Init PROVE StreamInv
    OBVIOUS
  <2>1. csState \in StreamStates
    BY EmptySeq DEF CS!Init, StreamStates
  <2>2. Begun(csState)
    BY <2>1 DEF CS!Init, Begun
  <2>3. SeenBy(csState) = CS!Unwatched
    BY DEF CS!Init, SeenBy, Sight, CS!Unwatched
  <2>4. Leads(CS!Unwatched, csOut, SeenBy(csState))
    BY <2>3, LeadsNowhere DEF CS!Init
  <2> QED
    BY <2>2, <2>4 DEF CS!Init, StreamInv
<1>2. ASSUME StreamInv, [CS!Next]_CS!csVars PROVE StreamInv'
  <2>1. CASE \/ \E part \in CS!Parts : CS!Receive(part)
             \/ \E reason \in {"STOP", "MAX_TOKENS"} : CS!ReceiveFinish(reason)
    <3>1. csEnd = "open"
      BY <2>1 DEF CS!Receive, CS!ReceiveFinish
    <3> QED
      BY <1>2, <2>1, <3>1, LineStep
  <2>2. CASE CS!ForceStop
    <3> DEFINE q == CS!Finish(csState, "none")
    <3>1. /\ csEnd = "open" /\ csEnd' = "done" /\ csMishap' = csMishap
          /\ csState' = q.st /\ csOut' = csOut \o q.out
      BY <2>2 DEF CS!ForceStop, CS!Emit
    <3>2. CASE csMishap
      BY <3>1, <3>2 DEF StreamInv
    <3>3. CASE ~csMishap
      <4>1. Begun(csState) /\ Leads(CS!Unwatched, csOut, SeenBy(csState))
        BY <1>2, <3>1, <3>3 DEF StreamInv
      <4>2. Nests(csState, q) /\ Begun(q.st)
        BY <4>1, FinishNests
      <4> HIDE DEF q
      <4>3. Leads(CS!Unwatched, csOut \o q.out, SeenBy(q.st))
        BY <4>1, <4>2, LeadsOn DEF Nests
      <4> QED
        BY <3>1, <4>2, <4>3 DEF StreamInv
    <3> QED
      BY <3>2, <3>3
  <2>3. CASE CS!UpstreamBreaks
    <3>1. csEnd = "open" /\ UNCHANGED <<csState, csMishap>>
      BY <2>3 DEF CS!UpstreamBreaks
    <3>2. CASE csOut = <<>>
      BY <1>2, <2>3, <3>1, <3>2 DEF CS!UpstreamBreaks, StreamInv
    <3>3. CASE csOut # <<>>
      <4>1. csEnd' = "aborted" /\ csOut' = csOut \o Notice(CS!NextIndex)
        BY <2>3, <3>3 DEF CS!UpstreamBreaks, Notice
      <4> QED
        BY <1>2, <3>1, <4>1 DEF StreamInv
    <3> QED
      BY <3>2, <3>3
  <2>4. CASE UNCHANGED CS!csVars
    BY <1>2, <2>4 DEF CS!csVars, StreamInv
  <2> QED
    BY <1>2, <2>1, <2>2, <2>3, <2>4 DEF CS!Next
<1> QED
  BY <1>1, <1>2, PTL DEF CS!Spec

(* Theorem: what the client sees is a well-formed sequence of blocks.      *)
THEOREM BlocksAlwaysNest == CS!Spec => []BlocksNest
<1>1. StreamInv => BlocksNest
  <2> SUFFICES ASSUME StreamInv, ~csMishap
               PROVE  LET own == IF csEnd = "aborted" THEN SubSeq(csOut, 1, Len(csOut) - 3) ELSE csOut
                      IN  CS!Watched(own).ok
    BY DEF BlocksNest, CS!BlocksNest
  <2>1. ASSUME NEW own, Leads(CS!Unwatched, own, SeenBy(csState))
        PROVE  CS!Watched(own).ok
    BY <2>1, WatchedEnd DEF SeenBy, Sight
  <2>2. CASE csEnd # "aborted"
    BY <2>1, <2>2 DEF StreamInv
  <2>3. CASE csEnd = "aborted"
    <3>1. PICK own, i : csOut = own \o Notice(i) /\ Leads(CS!Unwatched, own, SeenBy(csState))
      BY <2>3 DEF StreamInv
    <3>2. PICK S : own \in Seq(S)
      BY <3>1 DEF Leads
    <3> DEFINE a == CS!BlockStart("text", i)
               b == CS!Delta("text", i, 1)
               c == CS!BlockStop(i)
               T == S \union {a, b, c}
    <3>3. own \in Seq(T)
      BY <3>2, SeqMonotonic
    <3>4. Notice(i) \in Seq(T) /\ Len(Notice(i)) = 3
      <4> HIDE DEF a, b, c
      <4>1. <<a, b, c>> \in Seq(T) /\ Len(<<a, b, c>>) = 3
        OBVIOUS
      <4> QED
        BY <4>1 DEF Notice, a, b, c
    <3> HIDE DEF T
    <3>5. /\ Len(own) \in Nat /\ csOut \in Seq(T) /\ Len(csOut) = Len(own) + 3
          /\ \A n \in 1..Len(own) : csOut[n] = own[n]
      <4> DEFINE tail == Notice(i)
      <4> HIDE DEF tail
      <4>1. tail \in Seq(T) /\ Len(tail) = 3 /\ csOut = own \o tail
        BY <3>1, <3>4 DEF tail
      <4>2. /\ own \o tail \in Seq(T) /\ Len(own \o tail) = Len(own) + Len(tail)
            /\ \A n \in 1..(Len(own) + Len(tail)) :
                  (own \o tail)[n] = IF n <= Len(own) THEN own[n] ELSE tail[n - Len(own)]
        BY <3>3, <4>1, ConcatProperties
      <4>3. Len(own) \in Nat
        BY <3>3, LenProperties
      <4> QED
        BY <4>1, <4>2, <4>3
    <3> DEFINE cut == SubSeq(csOut, 1, Len(csOut) - 3)
    <3>6. /\ cut \in Seq(T) /\ Len(cut) = Len(own)
          /\ \A n \in 1..Len(own) : cut[n] = csOut[n]
      <4>1. Len(csOut) - 3 = Len(own) /\ Len(own) \in Int /\ 1 \in Int
        BY <3>5
      <4>2. \A n \in 1..Len(own) : csOut[n] \in T
        BY <3>5, ElementOfSeq
      <4>3. /\ SubSeq(csOut, 1, Len(own)) \in Seq(T)
            /\ Len(SubSeq(csOut, 1, Len(own)))
                  = IF 1 <= Len(own) THEN Len(own) - 1 + 1 ELSE 0
            /\ \A n \in 1..(Len(own) - 1 + 1) :
                  SubSeq(csOut, 1, Len(own))[n] = csOut[1 + n - 1]
        BY <4>1, <4>2, SubSeqProperties
      <4> QED
        BY <3>5, <4>1, <4>3
    <3> HIDE DEF cut
    <3>7. cut = own
      BY <3>3, <3>5, <3>6, SeqEqual
    <3> QED
      BY <2>1, <2>3, <3>1, <3>7 DEF cut
  <2> QED
    BY <2>2, <2>3
<1> QED
  BY <1>1, StreamInvariance, PTL
=============================================================================
