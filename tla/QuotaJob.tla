------------------------------- MODULE QuotaJob -------------------------------
(***************************************************************************)
(* The quota refresh job (scheduler/quota_refresh.rs). Every minute it     *)
(* fetches the quota of the enabled accounts that have none or whose quota *)
(* has been reset; once per interval it fetches that of all the others.    *)
(* Accounts are listed once per round, and change meanwhile.               *)
(***************************************************************************)
EXTENDS Naturals

CONSTANTS Accounts, Interval, MaxTime    \* interval and bound on the clock, in minutes

QuotaJobAssumption == Interval \in Nat /\ MaxTime \in Nat \ {0}

VARIABLES qjNow,
          qjEnabled,    \* accounts that are not disabled
          qjStale,      \* accounts with no quota, or one that has been reset
          qjLastFull,   \* last_full_refresh; 0: never
          qjStage,      \* "idle", "immediate", "full"
          qjStart,      \* when the round began
          qjList,       \* the accounts listed in it
          qjTodo,       \* those still to be fetched in this stage
          qjRefreshed,  \* already_refreshed
          qjTried       \* history: the accounts tried in this round, and how often with success

qjVars == <<qjNow, qjEnabled, qjStale, qjLastFull, qjStage, qjStart, qjList, qjTodo, qjRefreshed, qjTried>>

Untried == [a \in Accounts |-> "no"]
Init == /\ qjNow = 1 /\ qjEnabled = Accounts /\ qjStale \in SUBSET Accounts
        /\ qjLastFull = 0 /\ qjStage = "idle" /\ qjStart = 1
        /\ qjList = {} /\ qjTodo = {} /\ qjRefreshed = {} /\ qjTried = Untried

-----------------------------------------------------------------------------
Tick == /\ qjNow < MaxTime /\ qjNow' = qjNow + 1
        /\ UNCHANGED <<qjEnabled, qjStale, qjLastFull, qjStage, qjStart, qjList, qjTodo, qjRefreshed, qjTried>>

(* Others disable and enable accounts; quotas are reset with time.         *)
AccountChanges(a) ==
    /\ \/ qjEnabled' \in {qjEnabled \union {a}, qjEnabled \ {a}} /\ UNCHANGED qjStale
       \/ qjStale' = qjStale \union {a} /\ UNCHANGED qjEnabled
    /\ UNCHANGED <<qjNow, qjLastFull, qjStage, qjStart, qjList, qjTodo, qjRefreshed, qjTried>>

Listed == qjEnabled
NeedImmediate == Listed \intersect qjStale
BeginRound ==
    /\ qjStage = "idle"
    /\ qjStage' = "immediate" /\ qjStart' = qjNow
    /\ qjList' = Listed /\ qjTodo' = NeedImmediate
    /\ qjRefreshed' = {} /\ qjTried' = Untried
    /\ UNCHANGED <<qjNow, qjEnabled, qjStale, qjLastFull>>

(* A refused refresh token disables the account; a quota just fetched may  *)
(* itself be one that has been reset.                                      *)
Fetched(a) ==
    /\ qjTodo' = qjTodo \ {a}
    /\ qjTried' = [qjTried EXCEPT ![a] = IF @ = "with success" THEN "twice with success" ELSE "with success"]
    /\ qjStale' \in {qjStale \ {a}, qjStale \union {a}} /\ UNCHANGED qjEnabled
FetchFailed(a) ==
    /\ qjTodo' = qjTodo \ {a}
    /\ qjTried' = [qjTried EXCEPT ![a] = IF @ = "no" THEN "without success" ELSE @]
    /\ qjEnabled' \in {qjEnabled, qjEnabled \ {a}} /\ UNCHANGED qjStale

FetchImmediate(a) ==
    /\ qjStage = "immediate" /\ a \in qjTodo
    /\ \/ Fetched(a) /\ qjRefreshed' = qjRefreshed \union {a}
       \/ FetchFailed(a) /\ UNCHANGED qjRefreshed
    /\ UNCHANGED <<qjNow, qjLastFull, qjStage, qjStart, qjList>>

FullDue == qjLastFull = 0 \/ qjStart >= qjLastFull + Interval

(* Mutant of LeftForFull: all of the accounts listed.                      *)
AllForFull == qjList

LeftForFull == qjList \ qjRefreshed

BeginFull ==
    /\ qjStage = "immediate" /\ qjTodo = {} /\ FullDue
    /\ qjStage' = "full" /\ qjLastFull' = qjStart /\ qjTodo' = LeftForFull
    /\ UNCHANGED <<qjNow, qjEnabled, qjStale, qjStart, qjList, qjRefreshed, qjTried>>

FetchFull(a) ==
    /\ qjStage = "full" /\ a \in qjTodo
    /\ Fetched(a) \/ FetchFailed(a)
    /\ UNCHANGED <<qjNow, qjLastFull, qjStage, qjStart, qjList, qjRefreshed>>

EndRound ==
    /\ qjTodo = {} /\ (qjStage = "full" \/ (qjStage = "immediate" /\ ~FullDue))
    /\ qjStage' = "idle" /\ qjList' = {} /\ qjRefreshed' = {}
    /\ UNCHANGED <<qjNow, qjEnabled, qjStale, qjLastFull, qjStart, qjTodo, qjTried>>

Next == \/ Tick \/ BeginRound \/ BeginFull \/ EndRound
        \/ \E a \in Accounts : AccountChanges(a) \/ FetchImmediate(a) \/ FetchFull(a)

Spec == Init /\ [][Next]_qjVars

-----------------------------------------------------------------------------
TypeOK == /\ qjNow \in 1..MaxTime /\ qjLastFull \in 0..MaxTime /\ qjStart \in 1..MaxTime
          /\ qjStage \in {"idle", "immediate", "full"}
          /\ qjTodo \subseteq qjList /\ qjRefreshed \subseteq qjList /\ qjList \subseteq Accounts

(* When a full refresh ends, every account listed at the round's start has *)
(* been tried, and none fetched twice with success; the accounts that      *)
(* failed at once get a second try.                                        *)
FullCoversAll ==
    qjStage = "full" /\ qjStage' = "idle"
        => \A a \in qjList : qjTried[a] \notin {"no", "twice with success"}
=============================================================================
