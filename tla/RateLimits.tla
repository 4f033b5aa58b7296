----------------------------- MODULE RateLimits -----------------------------
(***************************************************************************)
(* The lockouts of one account (rate_limit/tracker.rs, lockout.rs,         *)
(* error_parsing.rs), the refinement of a lockout by the quota service     *)
(* (token_manager/rate_limiter.rs) and the callers in the handlers.        *)
(*                                                                         *)
(* A lockout is the time left, in steps that keep only the order of the    *)
(* code's durations: Short stands for 2 s to a minute, Long for five       *)
(* minutes or more, Day for the 24 h of a ban. Keys are Account and model  *)
(* names; the table is keyed by whatever name the caller passes, while     *)
(* selection asks for the standard id.                                     *)
(***************************************************************************)
EXTENDS Naturals, FiniteSets

CONSTANTS Names,      \* model names a client may send
          Standard,   \* normalize_to_standard_id on Names
          Calls       \* requests under way

Account == "account"
(* A standard id is again a name, and the key of the whole account is a    *)
(* variant of its own in the code, never the name of a model.              *)
RateLimitsAssumption == Standard \in [Names -> Names] /\ Account \notin Names
Keys == Names \union {Account}
Short == 1
Long == 2
Day == 3
Durations == Short .. Day
MaxFailures == 2      \* a count above it locks as long

VARIABLES rlLocks,    \* limits: the time left under each key, 0 when absent or lapsed
          rlFailures, \* failure_counts
          rlCalls,    \* what each request does: its state, its model, and whether
                      \* it was under way before the last ban (or was forced)
          rlBan,      \* history: the time a ban still has to run
          rlOut       \* history: standard ids marked out with no reason to return yet

rlVars == <<rlLocks, rlFailures, rlCalls, rlBan, rlOut>>

Idle == [at |-> "idle", model |-> "none", early |-> FALSE]

Init == /\ rlLocks = [k \in Keys |-> 0]
        /\ rlFailures = [k \in Keys |-> 0]
        /\ rlCalls = [c \in Calls |-> Idle]
        /\ rlBan = 0
        /\ rlOut = {}

\* Mutant of IsRateLimitedForModel: the account's own lock is not looked at.
IsModelLocked(m) == rlLocks[m] > 0
IsRateLimitedForModel(m) == rlLocks[Account] > 0 \/ rlLocks[m] > 0

(* The count after one more failure; after an hour of silence it restarts. *)
Counted(k) == {1, IF rlFailures[k] < MaxFailures THEN rlFailures[k] + 1 ELSE MaxFailures}

QuotaTier(n) == IF n = 1 THEN Short ELSE Long

Locked(k, d) == rlLocks' = [rlLocks EXCEPT ![k] = d]

-----------------------------------------------------------------------------
(* Selection offers the account for a model that is not locked; the forced *)
(* account of a test request asks for a key no lock is stored under.       *)
Start(c, m) ==
    /\ rlCalls[c].at = "idle"
    /\ ~IsRateLimitedForModel(Standard[m])
    /\ rlCalls' = [rlCalls EXCEPT ![c] = [at |-> "flying", model |-> m, early |-> FALSE]]
    /\ UNCHANGED <<rlLocks, rlFailures, rlBan, rlOut>>

StartForced(c, m) ==
    /\ rlCalls[c].at = "idle"
    /\ rlCalls' = [rlCalls EXCEPT ![c] = [at |-> "flying", model |-> m, early |-> TRUE]]
    /\ UNCHANGED <<rlLocks, rlFailures, rlBan, rlOut>>

Finish(c) == rlCalls' = [rlCalls EXCEPT ![c] = Idle]

(* A request that was under way before the ban may override it.            *)
Overrides(c) == rlBan' = IF rlCalls[c].early THEN 0 ELSE rlBan

MarkSuccess(c) ==
    /\ rlCalls[c].at = "flying"
    /\ rlLocks' = [rlLocks EXCEPT ![Account] = 0]
    /\ rlFailures' = [rlFailures EXCEPT ![Account] = 0]
    /\ Finish(c) /\ Overrides(c)
    /\ UNCHANGED rlOut

(* mark_rate_limited of the Gemini handler: the account's key, an explicit *)
(* time or one from the reason and the count of failures.                  *)
MarkRateLimited(c) ==
    /\ rlCalls[c].at = "flying"
    /\ \/ \E d \in {Short, Long} : Locked(Account, d) /\ UNCHANGED rlFailures
       \/ \E n \in Counted(Account) : \E d \in {Short, QuotaTier(n)} :
             Locked(Account, d) /\ rlFailures' = [rlFailures EXCEPT ![Account] = n]
    /\ Finish(c) /\ Overrides(c)
    /\ UNCHANGED rlOut

(* A 403: the ban of a day, the hour of a verification, or half a minute   *)
(* for the model under the name the handler holds.                         *)
Forbidden(c) ==
    /\ rlCalls[c].at = "flying"
    /\ \/ /\ Locked(Account, Day)
          /\ rlBan' = Day
          /\ rlCalls' = [d \in Calls |-> IF d = c THEN Idle
                           ELSE [rlCalls[d] EXCEPT !.early = rlCalls[d].at # "idle"]]
       \/ Locked(Account, Long) /\ Finish(c) /\ Overrides(c)
       \/ Locked(rlCalls[c].model, Short) /\ Finish(c) /\ UNCHANGED rlBan
    /\ UNCHANGED <<rlFailures, rlOut>>

-----------------------------------------------------------------------------
(* What the body of the refusal says (parse_rate_limit_reason).            *)
Reasons == {"quota", "rate", "capacity", "unknown"}

(* mark_rate_limited_async. The standard id is locked for 15 s at once; an *)
(* explicit time ends the call, otherwise a fallback is set and the quota  *)
(* service is asked.                                                       *)
MarkOut(s) == rlOut' = rlOut \union {s}

\* Mutant of LockName: the lock is stored under the name of the request.
RawName(c) == rlCalls[c].model
LockName(c) == Standard[rlCalls[c].model]

MarkExplicit(c) ==
    LET s == LockName(c) IN
    /\ rlCalls[c].at = "flying"
    /\ \/ \E d \in {Short, Long} : Locked(s, d) /\ UNCHANGED rlFailures
       \/ \E n \in Counted(s) : \E d \in {Short, QuotaTier(n)} :
             Locked(s, d) /\ rlFailures' = [rlFailures EXCEPT ![s] = n]
    /\ MarkOut(Standard[rlCalls[c].model])
    /\ Finish(c)
    /\ UNCHANGED rlBan

MarkAndAsk(c, reason) ==
    LET s == LockName(c) IN
    /\ rlCalls[c].at = "flying" /\ reason # "capacity"
    /\ \/ reason = "quota" /\ Locked(s, Long) /\ UNCHANGED rlFailures
       \/ reason # "quota" /\ \E n \in Counted(s) :
             Locked(s, Short) /\ rlFailures' = [rlFailures EXCEPT ![s] = n]
    /\ MarkOut(Standard[rlCalls[c].model])
    /\ rlCalls' = [rlCalls EXCEPT ![c].at = "asking"]
    /\ UNCHANGED rlBan

(* A model without capacity is no fault of the account's: nothing is locked.*)
CapacityExhausted(c) ==
    /\ rlCalls[c].at = "flying" /\ Finish(c)
    /\ UNCHANGED <<rlLocks, rlFailures, rlBan, rlOut>>

(* The quota service's earliest reset, which may lie in the past, replaces *)
(* the lock under the standard id.                                         *)
RealtimeReset(c) ==
    LET s == LockName(c) IN
    /\ rlCalls[c].at = "asking"
    /\ \E d \in {0, Short, Long} :
          /\ Locked(s, d)
          /\ rlOut' = IF d = 0 THEN rlOut \ {s} ELSE rlOut
    /\ Finish(c)
    /\ UNCHANGED <<rlFailures, rlBan>>

RealtimeFails(c) ==
    /\ rlCalls[c].at = "asking"
    /\ rlCalls' = [rlCalls EXCEPT ![c].at = "reading"]
    /\ UNCHANGED <<rlLocks, rlFailures, rlBan, rlOut>>

(* The reset time cached in the account's file is stored under the name    *)
(* the handler passed, standard or not.                                    *)
CachedReset(c) ==
    LET m == rlCalls[c].model IN
    /\ rlCalls[c].at = "reading"
    /\ \/ \E d \in {0, Short, Long} :
             /\ Locked(m, d)
             /\ rlOut' = IF d = 0 THEN rlOut \ {m} ELSE rlOut
       \/ UNCHANGED <<rlLocks, rlOut>>
    /\ Finish(c)
    /\ UNCHANGED <<rlFailures, rlBan>>

-----------------------------------------------------------------------------
Elapse ==
    /\ \E k \in Keys : rlLocks[k] > 0
    /\ rlLocks' = [k \in Keys |-> IF rlLocks[k] > 0 THEN rlLocks[k] - 1 ELSE 0]
    /\ rlBan' = IF rlBan > 0 THEN rlBan - 1 ELSE 0
    /\ rlOut' = {}
    /\ UNCHANGED <<rlFailures, rlCalls>>

(* Recovery's optimistic reset and the operator's two requests.            *)
ClearAll ==
    /\ rlLocks' = [k \in Keys |-> 0]
    /\ rlBan' = 0
    /\ rlOut' = {}
    /\ UNCHANGED <<rlFailures, rlCalls>>

Clear ==
    /\ Locked(Account, 0)
    /\ rlBan' = 0
    /\ UNCHANGED <<rlFailures, rlCalls, rlOut>>

Next == \/ \E c \in Calls : \/ \E m \in Names : Start(c, m) \/ StartForced(c, m)
                            \/ MarkSuccess(c) \/ MarkRateLimited(c) \/ Forbidden(c)
                            \/ MarkExplicit(c) \/ CapacityExhausted(c)
                            \/ \E reason \in Reasons : MarkAndAsk(c, reason)
                            \/ RealtimeReset(c) \/ RealtimeFails(c) \/ CachedReset(c)
        \/ Elapse \/ ClearAll \/ Clear

Spec == Init /\ [][Next]_rlVars

-----------------------------------------------------------------------------
TypeOK ==
    /\ rlLocks \in [Keys -> 0 .. Day]
    /\ rlFailures \in [Keys -> 0 .. MaxFailures]
    /\ rlCalls \in [Calls -> [at : {"idle", "flying", "asking", "reading"},
                              model : Names \union {"none"}, early : BOOLEAN]]
    /\ rlBan \in 0 .. Day
    /\ rlOut \subseteq Names

(* A banned account stays locked for its 24 h, whatever requests finish,   *)
(* unless one that was under way when the ban came (or was forced) ends    *)
(* later, or somebody clears the table: no request selected after the ban  *)
(* can lift it (tracker.rs:33, health.rs:11, tos_ban.rs:13).               *)
BanHolds == rlLocks[Account] >= rlBan

(* A model marked out is not offered again, under any name with the same   *)
(* standard id, before time passes, a reset time in the past arrives or    *)
(* the table is cleared: neither a success elsewhere on the account, a     *)
(* shorter time from a later failure, nor a time stored under another name *)
(* brings it back (rate_limiter.rs:206-270).                               *)
MarkedStaysOut == \A m \in Names : Standard[m] \in rlOut => IsRateLimitedForModel(Standard[m])

=============================================================================
