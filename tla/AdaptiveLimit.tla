---------------------------- MODULE AdaptiveLimit ----------------------------
(***************************************************************************)
(* The adaptive request limit of one account (adaptive_limit/aimd.rs,      *)
(* tracker.rs, manager.rs). Requests are counted by atomics without a      *)
(* lock; the limit, its working threshold and the ceiling are rewritten    *)
(* under limit_update_lock. Arithmetic is the code's on integers: the f64  *)
(* products agree with it for every limit these bounds reach (the product  *)
(* by 0.7 rounds below an exact integer first at 90).                      *)
(***************************************************************************)
EXTENDS Naturals, FiniteSets

CONSTANTS MinLimit, MaxLimit,   \* AIMDController
          MaxRequests,          \* bound on the requests of a minute
          Recorders             \* requests recording a result at once

(* The bound leaves room for the two requests above the threshold that ask *)
(* for nothing and the ones each recorder may be holding.                  *)
AdaptiveLimitAssumption ==
    /\ MinLimit \in Nat /\ MaxLimit \in Nat /\ MinLimit <= MaxLimit
    /\ "none" \notin Recorders /\ IsFiniteSet(Recorders)
    /\ MaxRequests \in Nat /\ Cardinality(Recorders) + 2 <= MaxRequests

Larger(a, b) == IF a > b THEN a ELSE b
Smaller(a, b) == IF a < b THEN a ELSE b

Reward(x) == Smaller((x * 105 + 50) \div 100, MaxLimit)
\* Mutant of Penalize: the lower bound is forgotten.
PenalizeUnbounded(x) == (x * 7) \div 10
Penalize(x) == Larger((x * 7) \div 10, MinLimit)
Threshold(x) == (x * 85) \div 100
MaxCredit == 6            \* two raises
DefaultLimit == Smaller(Larger(MinLimit, 15), MaxLimit)

VARIABLES alLimit, alThreshold, alCeiling, alRequests, alAbove,
          alLock,       \* limit_update_lock: who holds it, or none
          alStep,       \* per recorder: idle, added, above, expand, punish
          alCredit      \* history: requests above the threshold not yet spent

alTracker == <<alLimit, alThreshold, alCeiling>>
alVars == <<alLimit, alThreshold, alCeiling, alRequests, alAbove, alLock, alStep, alCredit>>

Init == /\ alLimit = DefaultLimit /\ alThreshold = Threshold(DefaultLimit)
        /\ alCeiling = DefaultLimit
        /\ alRequests = 0 /\ alAbove = 0
        /\ alLock = "none" /\ alStep = [r \in Recorders |-> "idle"]
        /\ alCredit = 0

Go(r, s) == alStep' = [alStep EXCEPT ![r] = s]

-----------------------------------------------------------------------------
(* record_success: one more request; above the threshold one more in a     *)
(* row, and the third asks for the lock.                                   *)
AddRequest(r) ==
    /\ alStep[r] = "idle" /\ alRequests < MaxRequests
    /\ alRequests' = alRequests + 1
    /\ Go(r, IF alRequests + 1 > alThreshold THEN "added" ELSE "idle")
    /\ UNCHANGED <<alTracker, alAbove, alLock, alCredit>>

AddAbove(r) ==
    /\ alStep[r] = "added"
    /\ alAbove' = alAbove + 1
    /\ alCredit' = Smaller(alCredit + 1, MaxCredit)
    /\ Go(r, IF alAbove + 1 >= 3 THEN "above" ELSE "idle")
    /\ UNCHANGED <<alTracker, alRequests, alLock>>

(* Under the lock the count is read again: another recorder may have spent *)
(* it while this one waited.                                               *)
\* Mutant of StillDue: the count is not read again under the lock.
AlwaysDue == TRUE
StillDue == alAbove >= 3

EnterExpand(r) ==
    /\ alStep[r] = "above" /\ alLock = "none"
    /\ IF StillDue THEN alLock' = r /\ Go(r, "expand") ELSE UNCHANGED alLock /\ Go(r, "idle")
    /\ UNCHANGED <<alTracker, alRequests, alAbove, alCredit>>

Expand(r) ==
    /\ alStep[r] = "expand"
    /\ alLimit' = Reward(alLimit)
    /\ alThreshold' = Threshold(Reward(alLimit))
    /\ alCeiling' = Larger(alCeiling, Reward(alLimit))
    /\ alAbove' = 0
    /\ alLock' = "none" /\ Go(r, "idle")
    /\ alCredit' = IF alCredit < 3 THEN 0 ELSE alCredit - 3
    /\ UNCHANGED alRequests

-----------------------------------------------------------------------------
(* record_429, alone or through record_error, which resets the count first.*)
ResetAbove ==
    /\ alAbove' = 0
    /\ UNCHANGED <<alTracker, alRequests, alLock, alStep, alCredit>>

EnterPunish(r) ==
    /\ alStep[r] = "idle" /\ alLock = "none"
    /\ alLock' = r /\ Go(r, "punish")
    /\ UNCHANGED <<alTracker, alRequests, alAbove, alCredit>>

Punish(r) ==
    LET actual == Larger(alRequests, alLimit) IN
    /\ alStep[r] = "punish"
    /\ alLimit' = Penalize(actual)
    /\ alThreshold' = Threshold(Penalize(actual))
    /\ alCeiling' = actual
    /\ alAbove' = 0
    /\ alLock' = "none" /\ Go(r, "idle")
    /\ UNCHANGED <<alRequests, alCredit>>

(* maybe_reset_minute: whoever looks first after 60 s starts the count     *)
(* again.                                                                  *)
NewMinute ==
    /\ alRequests > 0
    /\ alRequests' = 0
    /\ UNCHANGED <<alTracker, alAbove, alLock, alStep, alCredit>>

(* load_persisted replaces the tracker by one rebuilt from the saved       *)
(* limit, trusted less with age; nothing is recording on the old one.      *)
LoadPersisted ==
    /\ \A r \in Recorders : alStep[r] = "idle"
    /\ \E percent \in {100, 90, 70, 50} :
          LET limit == Smaller(Larger((alLimit * percent) \div 100, MinLimit), MaxLimit) IN
          alLimit' = limit /\ alThreshold' = Threshold(limit)
    /\ alRequests' = 0 /\ alAbove' = 0 /\ alCredit' = 0
    /\ UNCHANGED <<alCeiling, alLock, alStep>>

Next == \/ \E r \in Recorders : \/ AddRequest(r) \/ AddAbove(r) \/ EnterExpand(r) \/ Expand(r)
                                \/ EnterPunish(r) \/ Punish(r)
        \/ ResetAbove \/ NewMinute \/ LoadPersisted

Spec == Init /\ [][Next]_alVars

-----------------------------------------------------------------------------
TypeOK ==
    /\ alLimit \in MinLimit .. Larger(MaxLimit, Penalize(MaxRequests))
    /\ alThreshold \in Nat /\ alCeiling \in Nat /\ alCredit \in 0 .. MaxCredit
    /\ alRequests \in 0 .. MaxRequests /\ alAbove \in 0 .. MaxRequests
    /\ alLock \in Recorders \union {"none"}
    /\ alStep \in [Recorders -> {"idle", "added", "above", "expand", "punish"}]

(* Each raise of the limit is paid for by three requests of its own above  *)
(* the threshold, however the recorders that passed the third together     *)
(* queue for the lock; and nobody raises it while another recorder is      *)
(* rewriting it (tracker.rs:166-175).                                      *)
RaiseIsPaid ==
    \A r \in Recorders : alStep[r] = "expand" /\ alStep'[r] = "idle" =>
        alCredit >= 3 /\ \A s \in Recorders \ {r} : alStep[s] \notin {"expand", "punish"}
=============================================================================
