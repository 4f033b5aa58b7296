----------------------------- MODULE Components -----------------------------
(***************************************************************************)
(* The components that modules ComponentProofs and StoreProofs prove       *)
(* theorems about, side by side: what a request meets (rate limits, the    *)
(* health monitor, the adaptive limit, the endpoints, the circuit breaker, *)
(* the proxy pool, the stream of the answer), the background jobs, what is *)
(* stored of an account by fetches, users, requests and logins, the files  *)
(* it is stored in, their migration, and the switch of the IDE. Each is an *)
(* instance of its own module; they share no state.                        *)
(***************************************************************************)
EXTENDS Naturals

CONSTANTS Names, Standard, RateCalls
VARIABLES rlLocks, rlFailures, rlCalls, rlBan, rlOut
RL == INSTANCE RateLimits WITH Calls <- RateCalls

CONSTANTS ErrorThreshold, Reporters
VARIABLES hmDisabled, hmErrors, hmSince, hmReporter, hmEnable, hmRaced
HM == INSTANCE HealthMonitor

CONSTANTS MinLimit, MaxLimit, MaxRequests, Recorders
VARIABLES alLimit, alThreshold, alCeiling, alRequests, alAbove, alLock, alStep, alCredit
AL == INSTANCE AdaptiveLimit

CONSTANTS EndpointCount, SkipAfter, UpstreamCalls
VARIABLES efFailures, efRecent, efCall, efSeen
EF == INSTANCE EndpointFallback

CONSTANTS FailureThreshold, SuccessThreshold, BreakerCalls
VARIABLES cbState, cbFailures, cbSuccesses, cbDue, cbProbe, cbCalls, cbAbandoned
CB == INSTANCE CircuitBreaker

CONSTANTS Emails, WarmUpInterval, Cooldown, KeepFor, WarmUpTime
VARIABLES wuNow, wuLast, wuHistory, wuFile, wuScan, wuTodo, wuSaving, wuWarmed, wuForgot
WU == INSTANCE WarmUpJob WITH Interval <- WarmUpInterval, MaxTime <- WarmUpTime

CONSTANTS Accounts, QuotaInterval, QuotaTime
VARIABLES qjNow, qjEnabled, qjStale, qjLastFull, qjStage, qjStart, qjList, qjTodo,
          qjRefreshed, qjTried
QJ == INSTANCE QuotaJob WITH Interval <- QuotaInterval, MaxTime <- QuotaTime

CONSTANTS Parties, Casts
VARIABLES arMode, arCast, arStore, arParty, arMeant, arSince, arLost
AR == INSTANCE AccountRecord

CONSTANTS Logins, ProxyUrls, MaxStates, ValidFor, LoginTime
VARIABLES lfMode, lfNow, lfPending, lfIssued, lfHandler, lfFile, lfRow, lfExchanged,
          lfBrought
LF == INSTANCE LoginFlow WITH MaxTime <- LoginTime

CONSTANTS ProxyConfigs, FirstConfig, OwnProxies, ProxyCalls, PlainCalls, HashOf, CounterCycle
VARIABLES ppConfig, ppCounter, ppClients, ppUpdate, ppCall, ppNamed, ppServed,
          ppOrderly
PP == INSTANCE ProxyPool

CONSTANTS Threads, MaxOps, MaxCrashes
VARIABLES acIndex, acFiles, acLock, acThread, acSaving, acMade, acKept, acCut, acCrossed,
          acOps, acCrashes
AC == INSTANCE AccountStore

CONSTANTS Instances, IndexFiles, CurrentEmail, MaxCred, MaxIds, MigrationCrashes
VARIABLES mgRow, mgFile, mgMarker, mgCurrent, mgRun, mgIds, mgCrashes, mgWant, mgFault,
          mgTouched, mgSwitched
MG == INSTANCE Migration WITH Files <- IndexFiles, Current <- CurrentEmail,
                              MaxCrashes <- MigrationCrashes

CONSTANTS Switches, IdeProcs, IdeConfigs, IdeStarts, IdeUsers, MaxUser
VARIABLES isConfig, isAlive, isTermed, isCall, isSince, isLeft, isDb, isCurrent, isUser
IS == INSTANCE IdeSwitch WITH Calls <- Switches, Procs <- IdeProcs, Configs <- IdeConfigs,
                              Starts <- IdeStarts, Users <- IdeUsers

CONSTANT MaxParts
VARIABLES csState, csOut, csParts, csMishap, csEnd
CS == INSTANCE ClaudeStream

(* What each component's module assumes of its constants.                  *)
ASSUME ComponentsAssumption ==
    /\ RL!RateLimitsAssumption
    /\ HM!HealthMonitorAssumption
    /\ AL!AdaptiveLimitAssumption
    /\ EF!EndpointFallbackAssumption
    /\ CB!CircuitBreakerAssumption
    /\ WU!WarmUpAssumption
    /\ QJ!QuotaJobAssumption
    /\ AR!AccountRecordAssumption
    /\ LF!LoginFlowAssumption
    /\ PP!ProxyPoolAssumption
    /\ AC!AccountStoreAssumption
    /\ MG!MigrationAssumption
    /\ IS!IdeSwitchAssumption

-----------------------------------------------------------------------------
(* An account locked for a day after a 403 is offered to no request        *)
(* selected after the ban, whatever the requests under way store meanwhile *)
(* (candidate_filter.rs, mark_success).                                    *)
BanHolds == RL!BanHolds

(* A model that mark_rate_limited_async locked is not offered again, under *)
(* any name with the same standard id, before time passes or the table is  *)
(* cleared.                                                                *)
MarkedStaysOut == RL!MarkedStaysOut

(* An account the health monitor disabled has, or is about to get, the     *)
(* instant from which the recovery task counts its cooldown; the exception *)
(* is an error that crosses a recovery (record_error, check_and_recover).  *)
DisabledCanRecover == HM!DisabledCanRecover

(* An upstream call that fails has lost an answer only behind a later      *)
(* endpoint that failed or was skipped, and has judged every endpoint once *)
(* (request_executor.rs).                                                  *)
AnswerLostOnlyToLaterFailure == EF!AnswerLostOnlyToLaterFailure

(* While the half-open breaker's probe slot is taken, a probe is still to  *)
(* report, unless one was abandoned (circuit_breaker/mod.rs,               *)
(* recording.rs).                                                          *)
ProbeIsHeld == CB!ProbeIsHeld

(* The newest value saved of each field of an account stays, unless a      *)
(* writer that read the account before that save wrote all of it back;     *)
(* with PostgreSQL no fetch does (account/fetch.rs,                        *)
(* account_pg_targeted.rs).                                                *)
FetchUndoesNothing == AR!FetchUndoesNothing

(* A login's code is exchanged once, although the browser's callback and   *)
(* the pasted code bring the same state, and on files its token is kept    *)
(* with the proxy it came through (api/oauth.rs, api/accounts.rs).         *)
LoginsSound == LF!LoginsSound

(* A call goes out only by a proxy, or directly, as was configured at some *)
(* moment of that call: a pool without proxies is never passed by          *)
(* (proxy_pool.rs).                                                        *)
ProxyHonoured == PP!ProxyHonoured

(* In round robin each proxy carries a request before one carries a second *)
(* (proxy_pool.rs:4).                                                      *)
EvenlyDistributed == PP!EvenlyDistributed

(* Accounts stay listed once and readable through crashes                  *)
(* (account/crud.rs, index.rs); the migration keeps edits, flags and the   *)
(* current account (json_migration.rs); a switch of the account closes     *)
(* nothing but the IDE, writes only while it is closed and leaves index    *)
(* and database with one account (account/switch.rs, modules/process).     *)
StoreSound == AC!StoreSound /\ MG!MigrationSound /\ IS!SwitchSound

(* The events of a Claude stream are blocks that follow one another with   *)
(* indices 0, 1, ..., each opened, filled with what fits it and closed     *)
(* before the next, unless words preceded a call written as XML            *)
(* (streaming/state.rs, part_processor.rs).                                *)
BlocksNest == CS!BlocksNest

(* The adaptive limit is raised only by the recorder that rewrites it, and *)
(* for three requests above the threshold of its own (tracker.rs); warm-   *)
(* ups of an account are a cooldown apart unless a crash forgot the first  *)
(* (scheduler/warmup.rs); a full refresh tries every account and fetches   *)
(* none twice with success (scheduler/quota_refresh.rs).                   *)
StepsPaced ==
    /\ [][AL!RaiseIsPaid]_(AL!alVars)
    /\ [][WU!WarmedApart]_(WU!wuVars)
    /\ [][QJ!FullCoversAll]_(QJ!qjVars)
=============================================================================
