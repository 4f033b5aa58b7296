-------------------------------- MODULE MCComponents --------------------------------
(***************************************************************************)
(* The components of module Components, and beside them the OpenAI         *)
(* streams, the whole answers, the first chunks of a stream and the log.   *)
(* They share no state, so each behaviour exercises one of them (part) and *)
(* leaves the others where they start: their interleavings would add       *)
(* states and no behaviour.                                                *)
(***************************************************************************)
EXTENDS Components, Integers, Sequences, FiniteSets

CONSTANTS c1, c2, c3, Exercised  \* the parts that are run

VARIABLES part,
          osForm, osParts, osFinished, osLines, osUsage, osSeen, osThinking, osSigned, osOut, osEnd,
          waDoc, waChoice, waParts, waReason, waEnd,
          rqTask, rqFrom, rqSent, rqGone, rqStats, rqLogs, rqLoaded, rqJobs, rqRows, rqStored, rqClears,
          spCase, spPhase, spTry, spUp, spQueue, spHalf, spBeats, spIdle, spTotal, spLost, spClient, spEnd

rlVars == <<rlLocks, rlFailures, rlCalls, rlBan, rlOut>>
hmVars == <<hmDisabled, hmErrors, hmSince, hmReporter, hmEnable, hmRaced>>
alVars == <<alLimit, alThreshold, alCeiling, alRequests, alAbove, alLock, alStep, alCredit>>
efVars == <<efFailures, efRecent, efCall, efSeen>>
cbVars == <<cbState, cbFailures, cbSuccesses, cbDue, cbProbe, cbCalls, cbAbandoned>>
wuVars == <<wuNow, wuLast, wuHistory, wuFile, wuScan, wuTodo, wuSaving, wuWarmed, wuForgot>>
qjVars == <<qjNow, qjEnabled, qjStale, qjLastFull, qjStage, qjStart, qjList, qjTodo, qjRefreshed, qjTried>>
arVars == <<arMode, arCast, arStore, arParty, arMeant, arSince, arLost>>
lfVars == <<lfMode, lfNow, lfPending, lfIssued, lfHandler, lfFile, lfRow, lfExchanged, lfBrought>>
ppVars == <<ppConfig, ppCounter, ppClients, ppUpdate, ppCall, ppNamed, ppServed, ppOrderly>>
acVars == <<acIndex, acFiles, acLock, acThread, acSaving, acMade, acKept, acCut, acCrossed, acOps, acCrashes>>
mgVars == <<mgRow, mgFile, mgMarker, mgCurrent, mgRun, mgIds, mgCrashes, mgWant, mgFault, mgTouched, mgSwitched>>
isVars == <<isConfig, isAlive, isTermed, isCall, isSince, isLeft, isDb, isCurrent, isUser>>
csVars == <<csState, csOut, csParts, csMishap, csEnd>>
osVars == <<osForm, osParts, osFinished, osLines, osUsage, osSeen, osThinking, osSigned, osOut, osEnd>>
waVars == <<waDoc, waChoice, waParts, waReason, waEnd>>
rqVars == <<rqTask, rqFrom, rqSent, rqGone, rqStats, rqLogs, rqLoaded, rqJobs, rqRows, rqStored, rqClears>>
spVars == <<spCase, spPhase, spTry, spUp, spQueue, spHalf, spBeats, spIdle, spTotal, spLost, spClient, spEnd>>
vars == <<part, rlVars, hmVars, alVars, efVars, cbVars, wuVars, qjVars, arVars, lfVars,
            ppVars, acVars, mgVars, isVars, csVars, osVars, waVars, rqVars, spVars>>

ToStandard == [m \in {"pro", "pro-high"} |-> "pro-high"]
Cast(a, b, c) == [p \in {c1, c2, c3} |-> CASE p = c1 -> a [] p = c2 -> b [] p = c3 -> c]
TwoCasts == {Cast("fetch", "fetch", "absent"), Cast("fetch", "user", "request")}
Pool(mode, strategy, urls, custom) ==
    [mode |-> mode, strategy |-> strategy, urls |-> urls, custom |-> custom, enforce |-> FALSE]
PairRoundRobin == Pool("pool", "roundRobin", <<"url1", "url2">>, "no url")
PoolConfigs == {PairRoundRobin,
                Pool("pool", "perAccount", <<"url2">>, "no url"),
                Pool("pool", "random", <<>>, "no url"),
                Pool("custom", "random", <<"url2">>, "url1"),
                Pool("custom", "perAccount", <<>>, "no url"),
                Pool("direct", "random", <<>>, "no url"),
                [Pool("direct", "random", <<>>, "no url") EXCEPT !.enforce = TRUE]}
CallHash == [c \in {c1, c2} |-> IF c = c1 THEN 0 ELSE 1]
TwoFiles ==
    LET F(e, kind, off) == [email |-> e, kind |-> kind, off |-> off]
    IN  <<F("b", "missing", FALSE), F("a", "ok", TRUE)>>
HostProcs ==
    LET P(name, exe, helper, family, db) ==
            [name |-> name, exe |-> exe, helper |-> helper, family |-> family, db |-> db, guarded |-> FALSE]
    IN  [p \in {"main", "child", "helper", "launcher", "peer", "tools", "picked", "chosen", "guarded"} |->
            CASE p = "main" -> P("antigravity", "ide", "no", FALSE, "custom")
              [] p = "child" -> P("antigravity", "ide", "no", TRUE, "standard")
              [] p = "helper" -> P("antigravity", "ide", "yes", FALSE, "standard")
              [] p = "launcher" -> P("like", "other", "no", TRUE, "standard")
              [] p = "peer" -> P("like", "own", "no", FALSE, "standard")
              [] p = "tools" -> P("tools", "ide", "no", FALSE, "standard")
              [] p = "picked" -> P("tools", "manual", "no", FALSE, "standard")
              [] p = "chosen" -> P("other", "manual", "server", FALSE, "standard")
              [] p = "guarded" -> [P("antigravity", "ide", "no", FALSE, "standard") EXCEPT !.guarded = TRUE]]
HostConfigs == {[manual |-> m, dir |-> d, portable |-> q] : m \in {FALSE}, d \in BOOLEAN, q \in {FALSE}}
              \union {[manual |-> TRUE, dir |-> FALSE, portable |-> TRUE]}
HostStarts == {{"peer"}, {"main", "helper", "launcher"}, {"chosen", "tools", "guarded"}, {"picked"}}
WholeParts ==
    LET P(kind, text, tool, args, sig) ==
            [kind |-> kind, text |-> text, tool |-> tool, args |-> args, sig |-> sig]
        Given(names, paths) == [n \in names |-> IF n = "paths" THEN paths ELSE n]
        Plain(kind, text, sig) == P(kind, text, "none", Given({}, "none"), sig)
        Call(tool, names, paths) == P("call", <<>>, tool, Given(names, paths), TRUE)
    IN  {Plain("text", <<"t">>, sig) : sig \in BOOLEAN}
        \union {Plain("text", text, FALSE) : text \in {<<"o">>, <<"t", "o">>, <<"c", "t">>, <<"o", "c">>}}
        \union {Plain("thought", text, sig) : text \in {<<>>, <<"t">>}, sig \in BOOLEAN}
        \union {Plain("text", <<>>, TRUE), Plain("image", <<"i">>, TRUE), Plain("image", <<>>, FALSE)}
        \union {Call("search", {"query", "description"}, "one"), Call("Glob", {"query", "paths"}, "many"),
                Call("Grep", {"pattern", "description", "paths"}, "string"), Call("Read", {"path"}, "one"),
                Call("Read", {"path", "file_path"}, "one"), Call("LS", {}, "one"), Call("edit", {"paths"}, "one"),
                Call("Glob", {"path", "paths"}, "one"), Call("Grep", {"paths"}, "empty"),
                Call("edit", {"paths"}, "many"), Call("EnterPlanMode", {"query"}, "one")}
LogChunks == {<<"u">>, <<"x">>, <<"u", "x", "x">>}
LogAnswers ==
    LET A(kind, ok, account, long) == [kind |-> kind, ok |-> ok, account |-> account, long |-> long]
    IN  [r \in {"r1", "r2"} |->
            IF r = "r1" THEN {A("stream", TRUE, "a", FALSE), A("json", FALSE, "a", FALSE)}
            ELSE {A("json", FALSE, "a", TRUE), A("other", TRUE, "none", FALSE)}]
PeekCases == [proto : {"gemini", "completions"}, stream : {TRUE}] \union [proto : {"claude", "chat"}, stream : BOOLEAN]
PeekLimits == [p \in {"gemini", "claude", "chat", "completions"} |->
    CASE p = "claude" -> [beats |-> 20, single |-> 4, total |-> 8]
      [] OTHER -> [beats |-> 2, single |-> 2, total |-> 3]]
OS == INSTANCE OpenAIStream WITH MaxLines <- 2
WA == INSTANCE WholeAnswer WITH Parts <- WholeParts, MaxParts <- 3
RQ == INSTANCE RequestLog WITH Requests <- {"r1", "r2"}, Accounts <- {"a"}, Chunks <- LogChunks,
        Answers <- LogAnswers, TailSize <- 2, MaxBody <- 3, CutSize <- 1, MaxLogs <- 1, MaxChunks <- 2, MaxClears <- 1
PK == INSTANCE StreamPeek WITH Cases <- PeekCases, Limits <- PeekLimits, MaxBuffer <- 2, MaxTries <- 2, MaxChunks <- 3

(* A part that does not run starts in one state only.                       *)
Init == /\ part \in Exercised
        /\ RL!Init /\ HM!Init /\ AL!Init /\ EF!Init /\ CB!Init /\ WU!Init /\ QJ!Init /\ AR!Init /\ LF!Init /\ PP!Init /\ AC!Init /\ MG!Init /\ IS!Init /\ CS!Init /\ OS!Init /\ WA!Init /\ RQ!Init /\ PK!Init
        /\ part # "quota" => qjStale = {}
        /\ part # "login" => lfMode = "file"
        /\ part # "record" => arMode = "file" /\ arCast[c2] = "fetch"
        /\ part # "ide" => isConfig = [manual |-> FALSE, dir |-> FALSE, portable |-> FALSE] /\ isAlive = {"peer"}
        /\ part # "chunks" => osForm = "chat"
        /\ part # "peeks" => spPhase = "new"

(* What the steps of a part leave alone.                                   *)
OnlyRL == part = "limits" /\ UNCHANGED <<part, hmVars, alVars, efVars, cbVars, wuVars, qjVars, arVars, lfVars, ppVars,
                    acVars, mgVars, isVars, csVars, osVars, waVars, rqVars, spVars>>
OnlyHM == part = "health" /\ UNCHANGED <<part, rlVars, alVars, efVars, cbVars, wuVars, qjVars, arVars, lfVars, ppVars,
                    acVars, mgVars, isVars, csVars, osVars, waVars, rqVars, spVars>>
OnlyAL == part = "adaptive" /\ UNCHANGED <<part, rlVars, hmVars, efVars, cbVars, wuVars, qjVars, arVars, lfVars, ppVars,
                    acVars, mgVars, isVars, csVars, osVars, waVars, rqVars, spVars>>
OnlyEF == part = "endpoints" /\ UNCHANGED <<part, rlVars, hmVars, alVars, cbVars, wuVars, qjVars, arVars, lfVars, ppVars,
                    acVars, mgVars, isVars, csVars, osVars, waVars, rqVars, spVars>>
OnlyCB == part = "breaker" /\ UNCHANGED <<part, rlVars, hmVars, alVars, efVars, wuVars, qjVars, arVars, lfVars, ppVars,
                    acVars, mgVars, isVars, csVars, osVars, waVars, rqVars, spVars>>
OnlyWU == part = "warm-up" /\ UNCHANGED <<part, rlVars, hmVars, alVars, efVars, cbVars, qjVars, arVars, lfVars, ppVars,
                    acVars, mgVars, isVars, csVars, osVars, waVars, rqVars, spVars>>
OnlyQJ == part = "quota" /\ UNCHANGED <<part, rlVars, hmVars, alVars, efVars, cbVars, wuVars, arVars, lfVars, ppVars,
                    acVars, mgVars, isVars, csVars, osVars, waVars, rqVars, spVars>>
OnlyAR == part = "record" /\ UNCHANGED <<part, rlVars, hmVars, alVars, efVars, cbVars, wuVars, qjVars, lfVars, ppVars,
                    acVars, mgVars, isVars, csVars, osVars, waVars, rqVars, spVars>>
OnlyLF == part = "login" /\ UNCHANGED <<part, rlVars, hmVars, alVars, efVars, cbVars, wuVars, qjVars, arVars, ppVars,
                    acVars, mgVars, isVars, csVars, osVars, waVars, rqVars, spVars>>
OnlyPP == part = "pool" /\ UNCHANGED <<part, rlVars, hmVars, alVars, efVars, cbVars, wuVars, qjVars, arVars, lfVars,
                    acVars, mgVars, isVars, csVars, osVars, waVars, rqVars, spVars>>
OnlyAC == part = "store" /\ UNCHANGED <<part, rlVars, hmVars, alVars, efVars, cbVars, wuVars, qjVars, arVars, lfVars,
                    ppVars, mgVars, isVars, csVars, osVars, waVars, rqVars, spVars>>
OnlyMG == part = "migration" /\ UNCHANGED <<part, rlVars, hmVars, alVars, efVars, cbVars, wuVars, qjVars, arVars, lfVars,
                    ppVars, acVars, isVars, csVars, osVars, waVars, rqVars, spVars>>
OnlyIS == part = "ide" /\ UNCHANGED <<part, rlVars, hmVars, alVars, efVars, cbVars, wuVars, qjVars, arVars, lfVars,
                    ppVars, acVars, mgVars, csVars, osVars, waVars, rqVars, spVars>>
OnlyCS == part = "stream" /\ UNCHANGED <<part, rlVars, hmVars, alVars, efVars, cbVars, wuVars, qjVars, arVars, lfVars,
                    ppVars, acVars, mgVars, isVars, osVars, waVars, rqVars, spVars>>
OnlyOS == part = "chunks" /\ UNCHANGED <<part, rlVars, hmVars, alVars, efVars, cbVars, wuVars, qjVars, arVars, lfVars,
                    ppVars, acVars, mgVars, isVars, csVars, waVars, rqVars, spVars>>
OnlyWA == part = "whole" /\ UNCHANGED <<part, rlVars, hmVars, alVars, efVars, cbVars, wuVars, qjVars, arVars, lfVars,
                    ppVars, acVars, mgVars, isVars, csVars, osVars, rqVars, spVars>>
OnlyRQ == part = "logs" /\ UNCHANGED <<part, rlVars, hmVars, alVars, efVars, cbVars, wuVars, qjVars, arVars, lfVars,
                    ppVars, acVars, mgVars, isVars, csVars, osVars, waVars, spVars>>
OnlyPK == part = "peeks" /\ UNCHANGED <<part, rlVars, hmVars, alVars, efVars, cbVars, wuVars, qjVars, arVars, lfVars,
                    ppVars, acVars, mgVars, isVars, csVars, osVars, waVars, rqVars>>

Next ==
    \/ OnlyRL /\ RL!Next
    \/ OnlyHM /\ HM!Next
    \/ OnlyAL /\ AL!Next
    \/ OnlyEF /\ EF!Next
    \/ OnlyCB /\ CB!Next
    \/ OnlyWU /\ WU!Next
    \/ OnlyQJ /\ QJ!Next
    \/ OnlyAR /\ AR!Next
    \/ OnlyLF /\ LF!Next
    \/ OnlyPP /\ PP!Next
    \/ OnlyAC /\ AC!Next
    \/ OnlyMG /\ MG!Next
    \/ OnlyIS /\ IS!Next
    \/ OnlyCS /\ CS!Next
    \/ OnlyOS /\ OS!Next
    \/ OnlyWA /\ WA!Next
    \/ OnlyRQ /\ RQ!Next
    \/ OnlyPK /\ PK!Next

(* What the theorem of RequestProofs about the log assumes of constants.   *)
ASSUME LogsAssumption == RQ!RequestLogAssumption

Spec == Init /\ [][Next]_vars

(* Every part keeps to its types.                                          *)
TypeOK ==
    /\ part = "limits" => RL!TypeOK
    /\ part = "health" => HM!TypeOK
    /\ part = "adaptive" => AL!TypeOK
    /\ part = "endpoints" => EF!TypeOK
    /\ part = "breaker" => CB!TypeOK
    /\ part = "warm-up" => WU!TypeOK
    /\ part = "quota" => QJ!TypeOK
    /\ part = "record" => AR!TypeOK
    /\ part = "login" => LF!TypeOK
    /\ part = "pool" => PP!TypeOK
    /\ part = "store" => AC!TypeOK
    /\ part = "migration" => MG!TypeOK
    /\ part = "ide" => IS!TypeOK
    /\ part = "stream" => CS!TypeOK
    /\ part = "chunks" => OS!TypeOK
    /\ part = "whole" => WA!TypeOK
    /\ part = "logs" => RQ!TypeOK
    /\ part = "peeks" => PK!TypeOK

(* What the upstream answered reaches the client, in a Claude stream, an   *)
(* OpenAI stream and the answers collected or transformed as a whole,      *)
(* which keep the last signature; an answer that was peeked at, retried    *)
(* or cut is never mixed or told as complete; and the log counts each      *)
(* request once and leaves its answer alone.                               *)
AnswerComplete == 
    /\ part = "stream" => CS!AnswerComplete
    /\ part = "chunks" => OS!OpenAIAnswerKept
    /\ part = "whole" => WA!MessageKept
    /\ part = "whole" => WA!FormatsAgree
    /\ part = "whole" => WA!CallsAsStreamed
    /\ part = "whole" => WA!LastSignatureKept
    /\ part = "logs" => RQ!LogsSound
    /\ part = "logs" => RQ!AnswerForwarded
    /\ part = "logs" => RQ!UsageCounted
    /\ part = "peeks" => PK!PeekSound
=============================================================================
