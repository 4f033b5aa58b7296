------------------------------ MODULE RequestLog ------------------------------
(***************************************************************************)
(* What the server notes of every request (middleware/monitor.rs,          *)
(* proxy/monitor.rs, account_pg_events.rs): the middleware hands a         *)
(* streamed or JSON answer on through a task of its own, which reads the   *)
(* token usage from it and logs the request when the answer has ended or   *)
(* the client has left. log_request counts, then starts the insert into    *)
(* the database, then stores the entry in memory: other requests run       *)
(* between the three.                                                      *)
(*                                                                         *)
(* A chunk is a sequence of units: "u" for a line with the usage, "x" for  *)
(* anything else. TailSize and MaxBody stand for 8192 and 524288 bytes.    *)
(***************************************************************************)
EXTENDS Naturals, Sequences, SequencesExt, FiniteSets, FiniteSetsExt

CONSTANTS Requests, Accounts,
          Chunks, Answers,     \* Answers: by request, [kind : "stream", "json" or "other", ok, account,
                               \* long (a content length above MaxBody)]
          TailSize, MaxBody,
          CutSize,      \* an error body longer than this is cut: 16384 bytes
          MaxLogs,      \* max_logs, 1000 in the code
          MaxChunks, MaxClears     \* bounds

VARIABLES rqTask,       \* by request: stage, kind, ok (a status below 400), account,
                        \* tail (last_few_bytes or buffer), failed (failed_to_buffer),
                        \* cut (the upstream broke),
                        \* error (log.error), usage (tokens were read), row (db_context)
          rqFrom,       \* by request: the chunks of the upstream
          rqSent,       \* by request: the chunks handed to the client
          rqGone,       \* clients that left
          rqStats,      \* ProxyStats: total, success, errors, usage
          rqLogs,       \* the entries in memory
          rqLoaded,     \* accounts that are loaded
          rqJobs, rqRows,  \* inserts begun, rows of requests
          rqStored, rqClears \* history: the entries stored since the last clear; the clears

rqVars == <<rqTask, rqFrom, rqSent, rqGone, rqStats, rqLogs, rqLoaded, rqJobs, rqRows, rqStored, rqClears>>

NoAccount == "none"
RequestLogAssumption ==
    /\ IsFiniteSet(Requests) /\ MaxLogs \in Nat \ {0} /\ TailSize \in Nat /\ MaxBody \in Nat
    /\ NoAccount \notin Accounts /\ Chunks \subseteq Seq({"u", "x"})
    /\ Answers \in [Requests -> SUBSET [kind : {"stream", "json", "other"}, ok : BOOLEAN, long : BOOLEAN,
                                       account : Accounts \union {NoAccount}]]

Init ==
    /\ rqTask = [r \in Requests |-> [stage |-> "new", kind |-> "none", ok |-> TRUE, account |-> NoAccount,
                                     tail |-> <<>>, failed |-> FALSE, cut |-> FALSE, error |-> FALSE, usage |-> FALSE, row |-> NoAccount]]
    /\ rqFrom = [r \in Requests |-> <<>>] /\ rqSent = [r \in Requests |-> <<>>] /\ rqGone = {}
    /\ rqStats = [total |-> 0, success |-> 0, errors |-> 0, usage |-> 0]
    /\ rqLogs = <<>> /\ rqLoaded = Accounts /\ rqJobs = {} /\ rqRows = {} /\ rqStored = <<>> /\ rqClears = 0

At(r, stage) == rqTask[r].stage = stage
Becomes(r, task) == rqTask' = [rqTask EXCEPT ![r] = task]
Moves(r, stage) == Becomes(r, [rqTask[r] EXCEPT !.stage = stage])
Quiet == UNCHANGED <<rqStats, rqLogs, rqJobs, rqRows, rqStored, rqClears>>
Forwarding == UNCHANGED <<rqFrom, rqSent>>

-----------------------------------------------------------------------------
(* monitor_middleware: requests of the event log pass unseen, a body of    *)
(* the declared size that cannot be read is refused and leaves no trace.   *)
Begin(r) ==
    /\ At(r, "new")
    /\ \E stage \in {"passed", "refused", "run"} : Moves(r, stage)
    /\ Quiet /\ Forwarding /\ UNCHANGED <<rqGone, rqLoaded>>

(* extract_db_context: the account of the answer if it is loaded now.      *)
Row(account) == IF account \in rqLoaded THEN account ELSE NoAccount
Closing(task) == [task EXCEPT !.stage = "count", !.row = Row(task.account)]

(* A JSON answer said to be too long, and an answer of another type, are   *)
(* logged before they are handed on; the others get a task.                *)
Answer(r, answer) ==
    /\ At(r, "run")
    /\ LET task == [rqTask[r] EXCEPT !.kind = answer.kind, !.ok = answer.ok, !.account = answer.account]
           json == answer.kind = "json"
       IN  IF answer.kind = "other" \/ (json /\ answer.long)
           THEN Becomes(r, Closing([task EXCEPT !.kind = "other", !.error = json /\ ~answer.ok]))
           ELSE Becomes(r, [task EXCEPT !.stage = "forward"])
    /\ Quiet /\ Forwarding /\ UNCHANGED <<rqGone, rqLoaded>>

LastN(s, n) == IF Len(s) <= n THEN s ELSE SubSeq(s, Len(s) - n + 1, Len(s))
\* Mutant of Tail8K: a chunk takes the place of what came before it.
LastChunkOnly(tail, chunk) == LastN(chunk, TailSize)
(* The last bytes of a stream: of a chunk that is longer than they are, or *)
(* of what was kept with the chunk behind it.                              *)
Tail8K(tail, chunk) ==
    IF Len(chunk) > TailSize THEN LastN(chunk, TailSize) ELSE LastN(tail \o chunk, TailSize)

(* The body of a JSON answer, dropped for good when it grows too long.     *)
Buffered(task, chunk) ==
    IF task.failed THEN task
    ELSE IF Len(task.tail) + Len(chunk) <= MaxBody THEN [task EXCEPT !.tail = @ \o chunk]
    ELSE [task EXCEPT !.failed = TRUE, !.tail = <<>>]

Kept(task, chunk) ==
    IF task.kind = "stream" THEN [task EXCEPT !.tail = Tail8K(@, chunk)] ELSE Buffered(task, chunk)

(* A chunk is kept, then sent: a client that left is noticed by the send.  *)
Forward(r, chunk) ==
    /\ At(r, "forward") /\ Len(rqFrom[r]) < MaxChunks
    /\ rqFrom' = [rqFrom EXCEPT ![r] = Append(@, chunk)]
    /\ LET task == Kept(rqTask[r], chunk)
       IN  IF r \in rqGone
           THEN Becomes(r, [task EXCEPT !.stage = "ended"]) /\ UNCHANGED rqSent
           ELSE Becomes(r, task) /\ rqSent' = [rqSent EXCEPT ![r] = Append(@, chunk)]
    /\ Quiet /\ UNCHANGED <<rqGone, rqLoaded>>

(* The upstream breaks: a stream notes the error, a JSON answer does not.  *)
Break(r) ==
    /\ At(r, "forward")
    /\ Becomes(r, [rqTask[r] EXCEPT !.stage = "ended", !.error = rqTask[r].kind = "stream", !.cut = TRUE])
    /\ Quiet /\ Forwarding /\ UNCHANGED <<rqGone, rqLoaded>>
Complete(r) ==
    /\ At(r, "forward") /\ Len(rqFrom[r]) > 0
    /\ Moves(r, "ended")
    /\ Quiet /\ Forwarding /\ UNCHANGED <<rqGone, rqLoaded>>
Leave(r) ==
    /\ At(r, "forward") /\ r \notin rqGone
    /\ rqGone' = rqGone \union {r}
    /\ Quiet /\ Forwarding /\ UNCHANGED <<rqTask, rqLoaded>>

(* The usage: in a stream the last line that has one, in a JSON answer of  *)
(* the whole body, which a break of the upstream cuts and a client that    *)
(* left cuts too, unless the chunk that found it gone was the last.        *)
Whole(r, last) == ~rqTask[r].failed /\ ~rqTask[r].cut /\ (rqSent[r] = rqFrom[r] \/ last)
UsageRead(r, last) == Contains(rqTask[r].tail, "u") /\ (rqTask[r].kind = "stream" \/ Whole(r, last))
Sum(r, last) ==
    /\ At(r, "ended")
    /\ Becomes(r, Closing([rqTask[r] EXCEPT !.usage = UsageRead(r, last), !.error = @ \/ ~rqTask[r].ok]))
    /\ Quiet /\ Forwarding /\ UNCHANGED <<rqGone, rqLoaded>>

(* The cut of a long error body falls within a character: the task panics, *)
(* and the request is not logged.                                          *)
Panic(r) ==
    /\ At(r, "ended") /\ rqTask[r].kind = "json" /\ ~rqTask[r].ok
    /\ ~rqTask[r].failed /\ Len(rqTask[r].tail) > CutSize
    /\ Moves(r, "lost")
    /\ Quiet /\ Forwarding /\ UNCHANGED <<rqGone, rqLoaded>>

(* ProxyMonitor::log_request, under the lock of the statistics, then under *)
(* the one of the entries.                                                 *)
Counted(stats, task) ==
    [total |-> stats.total + 1, success |-> stats.success + (IF task.ok THEN 1 ELSE 0),
     errors |-> stats.errors + (IF task.ok THEN 0 ELSE 1), usage |-> stats.usage + (IF task.usage THEN 1 ELSE 0)]
Count(r) ==
    /\ At(r, "count")
    /\ rqStats' = Counted(rqStats, rqTask[r])
    /\ rqJobs' = IF rqTask[r].row = NoAccount THEN rqJobs ELSE rqJobs \union {r}
    /\ Moves(r, "store")
    /\ Forwarding /\ UNCHANGED <<rqGone, rqLoaded, rqLogs, rqRows, rqStored, rqClears>>

\* Mutant of Pushed: one entry too many is kept.
PushedLate(logs, r) ==
    Append(IF Len(logs) > MaxLogs THEN SubSeq(logs, Len(logs) - MaxLogs + 1, Len(logs)) ELSE logs, r)
Pushed(logs, r) ==
    Append(IF Len(logs) >= MaxLogs THEN SubSeq(logs, Len(logs) - MaxLogs + 2, Len(logs)) ELSE logs, r)
Store(r) ==
    /\ At(r, "store")
    /\ rqLogs' = Pushed(rqLogs, r)
    /\ rqStored' = Append(rqStored, r)
    /\ Moves(r, "done")
    /\ Forwarding /\ UNCHANGED <<rqGone, rqLoaded, rqStats, rqJobs, rqRows, rqClears>>

(* The insert runs beside; a failure is only warned of.                    *)
Insert(r, works) ==
    /\ r \in rqJobs
    /\ rqJobs' = rqJobs \ {r}
    /\ rqRows' = IF works THEN rqRows \union {r} ELSE rqRows
    /\ Forwarding /\ UNCHANGED <<rqTask, rqGone, rqLoaded, rqStats, rqLogs, rqStored, rqClears>>

ClearLogs ==
    /\ rqClears < MaxClears
    /\ rqLogs' = <<>> /\ rqStored' = <<>> /\ rqClears' = rqClears + 1
    /\ Forwarding /\ UNCHANGED <<rqTask, rqGone, rqLoaded, rqStats, rqJobs, rqRows>>
Unload(a) ==
    /\ a \in rqLoaded
    /\ rqLoaded' = rqLoaded \ {a}
    /\ Quiet /\ Forwarding /\ UNCHANGED <<rqTask, rqGone>>

Finished == {r \in Requests : rqTask[r].stage \in {"passed", "refused", "lost", "done"}}
Next ==
    \/ \E r \in Requests :
          \/ Begin(r) \/ Break(r) \/ Complete(r) \/ Leave(r) \/ Panic(r) \/ Count(r) \/ Store(r)
          \/ \E answer \in Answers[r] : Answer(r, answer)
          \/ \E chunk \in Chunks : Forward(r, chunk)
          \/ \E last \in BOOLEAN : Sum(r, last)
          \/ \E works \in BOOLEAN : Insert(r, works)
    \/ ClearLogs \/ \E a \in Accounts : Unload(a)
    \/ Finished = Requests /\ UNCHANGED rqVars
Spec == Init /\ [][Next]_rqVars

-----------------------------------------------------------------------------
Tasks == [stage : {"new", "passed", "refused", "run", "forward", "ended", "lost", "count", "store", "done"},
          kind : {"none", "stream", "json", "other"}, ok : BOOLEAN, account : Accounts \union {NoAccount},
          tail : Seq({"u", "x"}), failed : BOOLEAN, cut : BOOLEAN, error : BOOLEAN, usage : BOOLEAN,
          row : Accounts \union {NoAccount}]
TypeOK ==
    /\ rqTask \in [Requests -> Tasks]
    /\ rqFrom \in [Requests -> Seq(Chunks)] /\ rqSent \in [Requests -> Seq(Chunks)]
    /\ rqGone \subseteq Requests /\ rqJobs \union rqRows \subseteq Requests /\ rqLoaded \subseteq Accounts
    /\ rqStored \in Seq(Requests)

(* The statistics count every request that was logged once, whatever ran   *)
(* in between, and so do the entries in memory: they are the last ones     *)
(* stored since they were cleared. A row is of a request that was logged   *)
(* and of an account that was known.                                       *)
Logged == {r \in Requests : rqTask[r].stage \in {"store", "done"}}
LogsSound ==
    /\ rqStats = [total |-> Cardinality(Logged), success |-> Cardinality({r \in Logged : rqTask[r].ok}),
                  errors |-> Cardinality({r \in Logged : ~rqTask[r].ok}),
                  usage |-> Cardinality({r \in Logged : rqTask[r].usage})]
    /\ rqLogs = LastN(rqStored, MaxLogs)
    /\ rqRows \union rqJobs \subseteq {r \in Logged : rqTask[r].row # NoAccount}

(* Logging does not touch the answer: the client has every chunk in order, *)
(* up to the one that found it gone.                                       *)
AnswerForwarded ==
    \A r \in Requests : \/ rqSent[r] = rqFrom[r]
                        \/ r \in rqGone /\ rqSent[r] = SubSeq(rqFrom[r], 1, Len(rqFrom[r]) - 1)

(* The usage counts: of a stream when it is among the last bytes read, of  *)
(* a JSON answer when all of it was read and is short enough.              *)
UsageCounted ==
    \A r \in Requests :
        LET all == FlattenSeq(rqFrom[r])
        IN  /\ At(r, "done") /\ rqTask[r].kind = "stream" =>
                  (rqTask[r].usage <=> Contains(LastN(all, TailSize), "u"))
            /\ At(r, "done") /\ rqTask[r].kind = "json" /\ rqTask[r].usage =>
                  Contains(all, "u") /\ Len(all) <= MaxBody
=============================================================================
