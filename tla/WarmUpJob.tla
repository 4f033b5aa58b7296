------------------------------ MODULE WarmUpJob ------------------------------
(***************************************************************************)
(* The warm-up scheduler (scheduler/warmup.rs, state.rs): every interval   *)
(* it lists the accounts whose quota asks for a warm-up, leaves out those  *)
(* warmed up within the cooldown, and fetches the quota of the others one  *)
(* by one. When an account was warmed up is kept in memory and in a file,  *)
(* written at the start of a scan and at its end. The process may crash at *)
(* any step, also while the file is written: it is then read as empty.     *)
(***************************************************************************)
EXTENDS Naturals

CONSTANTS Emails,
          Interval, Cooldown, KeepFor,     \* in the same unit
          MaxTime                          \* bound on the clock

(* An entry is kept at least as long as it keeps its account from being   *)
(* warmed up again.                                                        *)
WarmUpAssumption ==
    /\ Interval \in Nat /\ Cooldown \in Nat /\ KeepFor \in Nat /\ Cooldown <= KeepFor
    /\ MaxTime \in Nat \ {0}

Never == 0
NoEntries == [e \in Emails |-> Never]

VARIABLES wuNow,
          wuLast,       \* last_warmup_check
          wuHistory,    \* the entries in memory: the scan's time, or Never
          wuFile,       \* the entries in the file
          wuScan,       \* the time of the scan under way, or Never
          wuTodo,       \* accounts still to be warmed up in it
          wuSaving,     \* the file is being written
          wuWarmed,     \* history: the scan in which each was last warmed up
          wuForgot      \* history: accounts whose last warm-up a crash forgot

wuVars == <<wuNow, wuLast, wuHistory, wuFile, wuScan, wuTodo, wuSaving, wuWarmed, wuForgot>>

Init == /\ wuNow = 1 /\ wuLast = Never /\ wuHistory = NoEntries /\ wuFile = NoEntries
        /\ wuScan = Never /\ wuTodo = {} /\ wuSaving = FALSE
        /\ wuWarmed = NoEntries /\ wuForgot = {}

-----------------------------------------------------------------------------
Tick == /\ wuNow < MaxTime /\ wuNow' = wuNow + 1
        /\ UNCHANGED <<wuLast, wuHistory, wuFile, wuScan, wuTodo, wuSaving, wuWarmed, wuForgot>>

ScanDue == wuScan = Never /\ (wuLast = Never \/ wuNow >= wuLast + Interval)
InCooldown(e) == wuHistory[e] # Never /\ wuNow < wuHistory[e] + Cooldown

(* Mutant of CleanedUp: only entries of this very moment are kept.         *)
CleanedOut == [e \in Emails |-> IF wuHistory[e] >= wuNow THEN wuHistory[e] ELSE Never]

CleanedUp == [e \in Emails |-> IF wuHistory[e] + KeepFor > wuNow THEN wuHistory[e] ELSE Never]

(* due: enabled accounts with a model of the configured ones at 100 % (or  *)
(* below 50 %, as configured).                                             *)
Scan(due) ==
    /\ ScanDue
    /\ wuLast' = wuNow /\ wuScan' = wuNow
    /\ wuTodo' = {e \in due : ~InCooldown(e)}
    /\ wuHistory' = CleanedUp /\ wuSaving' = TRUE
    /\ UNCHANGED <<wuNow, wuFile, wuWarmed, wuForgot>>

(* The accounts cannot be listed: the next try is an interval away.        *)
ScanFails ==
    /\ ScanDue /\ wuLast' = wuNow
    /\ UNCHANGED <<wuNow, wuHistory, wuFile, wuScan, wuTodo, wuSaving, wuWarmed, wuForgot>>

(* save_history_async: written, or an error that is only logged. A scan    *)
(* without accounts saves once, one with accounts again at its end.        *)
SaveHistory ==
    /\ wuSaving /\ wuFile' \in {wuHistory, wuFile}
    /\ wuSaving' = FALSE
    /\ wuScan' = IF wuTodo = {} THEN Never ELSE wuScan
    /\ UNCHANGED <<wuNow, wuLast, wuHistory, wuTodo, wuWarmed, wuForgot>>

WarmUp(e, ok) ==
    /\ e \in wuTodo /\ ~wuSaving
    /\ wuTodo' = wuTodo \ {e} /\ wuSaving' = (wuTodo' = {})
    /\ IF ok THEN /\ wuHistory' = [wuHistory EXCEPT ![e] = wuScan]
                  /\ wuWarmed' = [wuWarmed EXCEPT ![e] = wuScan]
                  /\ wuForgot' = wuForgot \ {e}
             ELSE UNCHANGED <<wuHistory, wuWarmed, wuForgot>>
    /\ UNCHANGED <<wuNow, wuLast, wuFile, wuScan>>

(* The process stops; the next one reads the file.                         *)
Crash ==
    /\ wuFile' \in IF wuSaving THEN {wuFile, NoEntries} ELSE {wuFile}
    /\ wuHistory' = wuFile' /\ wuLast' = Never
    /\ wuScan' = Never /\ wuTodo' = {} /\ wuSaving' = FALSE
    /\ wuForgot' = wuForgot \union {e \in Emails : wuFile'[e] # wuWarmed[e]}
    /\ UNCHANGED <<wuNow, wuWarmed>>

Next == \/ Tick \/ ScanFails \/ SaveHistory \/ Crash
        \/ \E due \in SUBSET Emails : Scan(due)
        \/ \E e \in Emails, ok \in BOOLEAN : WarmUp(e, ok)

Spec == Init /\ [][Next]_wuVars

-----------------------------------------------------------------------------
TypeOK == /\ wuHistory \in [Emails -> Never..MaxTime] /\ wuFile \in [Emails -> Never..MaxTime]
          /\ wuTodo \subseteq Emails /\ wuScan \in Never..MaxTime

(* No account is warmed up in two scans less than a cooldown apart, unless *)
(* a crash forgot the first (state.rs: COOLDOWN_SECONDS). The cleanup      *)
(* never drops an entry that still counts.                                 *)
WarmedApart ==
    \A e \in Emails : wuWarmed'[e] # wuWarmed[e] /\ wuWarmed[e] # Never
        => wuWarmed'[e] >= wuWarmed[e] + Cooldown \/ e \in wuForgot
=============================================================================
