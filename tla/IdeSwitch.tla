------------------------------- MODULE IdeSwitch -------------------------------
(***************************************************************************)
(* Switching the desktop IDE to another account (modules/account/switch.rs)*)
(* as a Linux host does it: the processes of the IDE are found by name and *)
(* path and closed (modules/process), the token is written into the IDE's  *)
(* database (modules/vscode.rs), the index is saved and the IDE started    *)
(* again. Nothing is locked over the whole: users and other calls come     *)
(* between any two steps.                                                  *)
(***************************************************************************)
EXTENDS Naturals, FiniteSets

CONSTANTS Calls, Accounts,
          Procs,        \* by process: name ("antigravity", "like" for a longer name with that in it,
                        \* "tools" or "other"), exe ("ide", "manual", "own" or "other"), helper ("no",
                        \* "yes" or "server"), family (of the server), db it uses, guarded (of another user)
          Configs,      \* [manual : an executable is configured, dir : a data directory is, portable : it has data beside it]
          Starts,       \* sets of processes there may be at first
          Users,        \* processes users start
          MaxUser       \* bound on how often they do

VARIABLES isConfig, isAlive,
          isTermed,     \* processes that were sent SIGTERM
          isCall,       \* by call: at, account, pids, db, alone (history: no other call and no user came between)
          isSince,      \* history, by call: processes started since the call last looked
          isLeft,       \* history, by call: what a failed close found running
          isDb,         \* by database: whose token it has
          isCurrent,    \* current_account_id of the index
          isUser

isVars == <<isConfig, isAlive, isTermed, isCall, isSince, isLeft, isDb, isCurrent, isUser>>

ProcNames == DOMAIN Procs
Databases == {"custom", "portable", "standard"}
None == "none"
(* What runs is known to Procs, with the database it would use.            *)
IdeSwitchAssumption ==
    /\ Starts \subseteq SUBSET ProcNames /\ Users \subseteq ProcNames /\ MaxUser \in Nat
    /\ \A p \in ProcNames : Procs[p].db \in Databases

Init == /\ isConfig \in Configs /\ isAlive \in Starts /\ isTermed = {}
        /\ isCall = [c \in Calls |-> [at |-> "idle", account |-> None, pids |-> {}, db |-> None, alone |-> TRUE]]
        /\ isSince = [c \in Calls |-> {}] /\ isLeft = [c \in Calls |-> {}]
        /\ isDb = [d \in Databases |-> None] /\ isCurrent = None /\ isUser = 0

-----------------------------------------------------------------------------
(* The three ways to tell an IDE: is it running, what is to be closed, what*)
(* can be learnt from it. Only the first takes any name with "antigravity" *)
(* in it; only the second leaves out the family of the server.             *)
Manual(p) == isConfig.manual /\ Procs[p].exe = "manual"
Own(p) == Procs[p].exe = "own"
Family(p) == Procs[p].family    \* parents and children of the server
IsHelper(p) == Procs[p].helper = "yes"
Looks(p, names) == (Procs[p].name \in names \/ Procs[p].exe = "ide") /\ Procs[p].name # "tools" /\ ~IsHelper(p)
Running == {p \in isAlive : ~Own(p) /\ (Manual(p) \/ Looks(p, {"antigravity", "like"}))}
\* Mutant of Closable: the family of the server is not left out.
ClosableAll == {p \in isAlive : ~Own(p) /\ (Manual(p) \/ Looks(p, {"antigravity"}))}
Closable == {p \in isAlive : /\ ~Own(p) /\ ~Family(p) /\ Procs[p].name # "tools"
                             /\ Manual(p) \/ Looks(p, {"antigravity"})}
Telling == {p \in isAlive : ~Own(p) /\ Looks(p, {"antigravity"})}

(* find_main_process_linux: the configured executable, else any process    *)
(* that is no helper. The processes come in no order.                      *)
NoHelper(p) == Procs[p].helper = "no"
Mains(pids) == LET main == {p \in pids : NoHelper(p) /\ p \in isAlive}
                   chosen == {p \in main : Manual(p)}
               IN  IF chosen # {} THEN chosen ELSE main

-----------------------------------------------------------------------------
At(c, step) == isCall[c].at = step
Goes(c, step) == isCall' = [isCall EXCEPT ![c].at = step]
Processes == UNCHANGED <<isConfig, isAlive, isTermed, isUser>>
Stored == UNCHANGED <<isDb, isCurrent>>
Looked(c) == isSince' = [isSince EXCEPT ![c] = {}]
Seen == UNCHANGED <<isSince, isLeft>>

(* The account is loaded and its token made fresh, or the call fails.      *)
Begin(c) ==
    /\ At(c, "idle")
    /\ \E account \in Accounts, at \in {"check", "failed"} :
           isCall' = [d \in Calls |->
               IF d = c THEN [isCall[c] EXCEPT !.at = at, !.account = account,
                                               !.alone = \A e \in Calls \ {c} : isCall[e].at \in {"idle", "failed", "done"}]
               ELSE [isCall[d] EXCEPT !.alone = @ /\ isCall[d].at \in {"idle", "failed", "done"}]]
    /\ Processes /\ Stored /\ Seen

Check(c) == /\ At(c, "check") /\ Goes(c, IF Running # {} THEN "collect" ELSE "locate")
            /\ Looked(c) /\ Processes /\ Stored /\ UNCHANGED isLeft

Collect(c) ==
    /\ At(c, "collect")
    /\ isCall' = [isCall EXCEPT ![c].pids = Closable, ![c].at = IF Closable = {} THEN "recheck" ELSE "ask"]
    /\ Looked(c) /\ Processes /\ Stored /\ UNCHANGED isLeft

(* SIGTERM to the main process, to all of them if there is none; then up to*)
(* 70 % of the timeout is waited, until nothing runs.                      *)
Ask(c) ==
    /\ At(c, "ask")
    /\ \E asked \in (IF Mains(isCall[c].pids) = {} THEN {isCall[c].pids} ELSE {{p} : p \in Mains(isCall[c].pids)}) :
           isTermed' = isTermed \union (asked \cap isAlive)
    /\ isCall' = [isCall EXCEPT ![c].at = "wait", ![c].pids = {}] /\ UNCHANGED <<isConfig, isAlive, isUser>> /\ Stored /\ Seen
Wait(c) == At(c, "wait") /\ Goes(c, "force") /\ Processes /\ Stored /\ Seen

(* What still runs is collected again and killed.                          *)
Force(c) ==
    /\ At(c, "force")
    /\ isCall' = [isCall EXCEPT ![c].at = "kill", ![c].pids = IF Running # {} THEN Closable ELSE {}]
    /\ Looked(c) /\ Processes /\ Stored /\ UNCHANGED isLeft
Killed(c) == {p \in isCall[c].pids : ~Procs[p].guarded}
Kill(c) ==
    /\ At(c, "kill")
    /\ isAlive' = isAlive \ Killed(c) /\ isTermed' = isTermed \ Killed(c)
    /\ isCall' = [isCall EXCEPT ![c].at = "recheck", ![c].pids = {}]
    /\ Stored /\ Seen /\ UNCHANGED <<isConfig, isUser>>

Recheck(c) ==
    /\ At(c, "recheck")
    /\ Goes(c, IF Running # {} THEN "failed" ELSE "locate")
    /\ isLeft' = [isLeft EXCEPT ![c] = Running]
    /\ isSince' = [isSince EXCEPT ![c] = IF Running # {} THEN @ ELSE {}]
    /\ Processes /\ Stored

-----------------------------------------------------------------------------
(* get_vscode_db_path: the data directory that is configured, or the one of*)
(* the running IDE that is found first; else the data beside the program.  *)
Beside(p) == IF isConfig.manual THEN (IF isConfig.portable THEN "portable" ELSE "standard") ELSE Procs[p].db
Restarts == IF isConfig.dir THEN "custom"
            ELSE IF isConfig.manual /\ isConfig.portable THEN "portable" ELSE "standard"
Directory(p) == IF Procs[p].db = "custom" THEN "custom" ELSE Beside(p)
Located == CASE isConfig.dir -> {"custom"}
             [] ~isConfig.dir /\ Telling # {} -> {Directory(p) : p \in Telling}
             [] OTHER -> {Restarts}
(* The database is found and copied for a backup, which may fail.          *)
Locate(c) ==
    /\ At(c, "locate")
    /\ \E db \in Located, at \in {"inject", "failed"} : isCall' = [isCall EXCEPT ![c].db = db, ![c].at = at]
    /\ Processes /\ Stored /\ Seen

Fails(c) == At(c, "inject") \/ At(c, "index") \/ At(c, "used") \/ At(c, "start")
Fail(c) == Fails(c) /\ Goes(c, "failed") /\ Processes /\ Stored /\ Seen
Inject(c) == /\ At(c, "inject") /\ Goes(c, "index")
             /\ isDb' = [isDb EXCEPT ![isCall[c].db] = isCall[c].account]
             /\ Processes /\ Seen /\ UNCHANGED isCurrent
Index(c) == /\ At(c, "index") /\ Goes(c, "used")
            /\ isCurrent' = isCall[c].account
            /\ Processes /\ Seen /\ UNCHANGED isDb
Use(c) == At(c, "used") /\ Goes(c, "start") /\ Processes /\ Stored /\ Seen

(* The IDE is spawned, a child of the server or one that has detached.     *)
Started(p) == /\ isAlive' = isAlive \union {p} /\ UNCHANGED isTermed
              /\ isSince' = [d \in Calls |-> isSince[d] \union {p}]
Start(c) ==
    /\ At(c, "start") /\ Goes(c, "done")
    /\ \E p \in ProcNames \ isAlive : /\ Procs[p].exe = (IF isConfig.manual THEN "manual" ELSE "ide")
                                      /\ Looks(p, {"antigravity"}) \/ Manual(p)
                                      /\ ~Procs[p].guarded /\ Started(p)
    /\ Stored /\ UNCHANGED <<isConfig, isUser, isLeft>>

(* External: processes that were asked to leave, and helpers without their *)
(* main process; users.                                                    *)
Exit(p) ==
    /\ p \in isAlive
    /\ p \in isTermed \/ (IsHelper(p) /\ \A q \in isAlive : Procs[q].exe # "ide" \/ IsHelper(q))
    /\ isAlive' = isAlive \ {p} /\ isTermed' = isTermed \ {p}
    /\ Stored /\ Seen /\ UNCHANGED <<isConfig, isUser, isCall>>
UserStarts(p) ==
    /\ p \notin isAlive /\ isUser < MaxUser /\ isUser' = isUser + 1
    /\ Started(p)
    /\ isCall' = [c \in Calls |-> [isCall[c] EXCEPT !.alone = @ /\ isCall[c].at \in {"idle", "failed", "done"}]]
    /\ Stored /\ UNCHANGED <<isConfig, isLeft>>

Ended == \A c \in Calls : At(c, "done") \/ At(c, "failed")
Next == \/ \E c \in Calls : \/ Begin(c) \/ Check(c) \/ Collect(c) \/ Ask(c) \/ Wait(c) \/ Force(c) \/ Kill(c) \/ Recheck(c)
                            \/ Locate(c) \/ Fail(c) \/ Inject(c) \/ Index(c) \/ Use(c) \/ Start(c)
        \/ \E p \in ProcNames : Exit(p)
        \/ \E p \in Users : UserStarts(p)
        \/ Ended /\ UNCHANGED isVars

Spec == Init /\ [][Next]_isVars

-----------------------------------------------------------------------------
Steps == {"idle", "check", "collect", "ask", "wait", "force", "kill", "recheck", "locate", "inject", "index", "used",
          "start", "done", "failed"}
TypeOK ==
    /\ isConfig \in Configs /\ isUser \in 0..MaxUser /\ isCurrent \in Accounts \union {None}
    /\ isAlive \subseteq ProcNames /\ isTermed \subseteq ProcNames
    /\ isCall \in [Calls -> [at : Steps, account : Accounts \union {None}, pids : SUBSET ProcNames,
                             db : Databases \union {None}, alone : BOOLEAN]]
    /\ isDb \in [Databases -> Accounts \union {None}]

(* Closing the IDE never signals the server, its launcher or its children, *)
(* another instance of the server, or the tools (pid_collection.rs:10-57).  *)
SparesOwn == \A c \in Calls : \A p \in isCall[c].pids : ~Own(p) /\ ~Procs[p].family /\ Procs[p].name # "tools"

(* The token is written only while no IDE runs that ran when the call last *)
(* looked: a running one would write its own state over it when it exits.  *)
WrittenWhenClosed == \A c \in Calls : At(c, "inject") => Running \subseteq isSince[c]

(* A close that fails found something running that it may not signal, that *)
(* is not told as the IDE by the other tests (detection.rs:120 against     *)
(* pid_collection.rs:177), that cannot be killed, or that came since.      *)
CloseFailsForReason ==
    \A c \in Calls : \A p \in isLeft[c] :
        Procs[p].family \/ Procs[p].guarded \/ Procs[p].name \in {"like", "tools"} \/ p \in isSince[c]

(* A call that ran alone has written the token where the IDE it starts     *)
(* reads it, and the index names the account of that token.                *)
SwitchedAsOne ==
    \A c \in Calls : isCall[c].alone /\ At(c, "done") /\ (\A d \in Calls \ {c} : At(d, "idle")) =>
        /\ isDb[Restarts] = isCall[c].account /\ isCurrent = isCall[c].account

SwitchSound == SparesOwn /\ WrittenWhenClosed /\ CloseFailsForReason /\ SwitchedAsOne
=============================================================================
