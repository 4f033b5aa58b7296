---------------------------- MODULE TokenReports ----------------------------
(***************************************************************************)
(* What the program says of tokens. To the client of the Claude API it     *)
(* reports a prompt smaller than it is (claude/token_scaling.rs), turn     *)
(* after turn of a conversation; of its own estimates it keeps a factor    *)
(* that the answers correct (estimation_calibrator.rs), several of them at *)
(* once. The two share nothing; a behaviour shows one of them (tkShows).   *)
(* Ratios are counted in hundredths.                                       *)
(***************************************************************************)
EXTENDS Integers, Sequences, FiniteSets

CONSTANTS Models,       \* their context limits
          Prompts,      \* prompt_token_count of a turn, in order of the turns
          Answers,      \* requests whose answers are recorded
          Requests,     \* what they ask: texts (system, tools), messages of blocks, budget
          Actuals,      \* prompt and answer tokens the API says they had
          MaxRecords    \* bound on the records made

Blocks == [kind : {"text", "thinking", "call", "result", "image"}, ascii : Nat, other : Nat]
TokenReportsAssumption ==
    /\ Models # {} /\ \A m \in Models : m \in Nat /\ 50000 <= m /\ m <= 9000000
    /\ Prompts \subseteq Nat /\ Actuals \subseteq Nat /\ IsFiniteSet(Answers)
    /\ Requests \subseteq [texts : Seq(Blocks), messages : Seq(Seq(Blocks)), budget : Nat]

VARIABLES tkShows, tkModel, tkScaling,  \* get_context_limit_for_model, enable_usage_scaling
          tkPrompt, tkReport,           \* the last turn's prompt and usage
          tkStep,                       \* answer -> how far its record has come
          tkEstimate, tkActual,         \* answer -> estimated_tokens, what came
          tkTotalEstimated, tkTotalActual, tkCount, tkFactor,   \* the calibrator
          tkUpdates                     \* history: calls of update_calibration

tkTurn == <<tkPrompt, tkReport>>
tkCalibrator == <<tkTotalEstimated, tkTotalActual, tkCount, tkFactor, tkUpdates>>
tkRecords == <<tkStep, tkEstimate, tkActual, tkCalibrator>>
tkFixed == <<tkShows, tkModel, tkScaling>>
tkVars == <<tkShows, tkModel, tkScaling, tkPrompt, tkReport, tkStep, tkEstimate, tkActual,
            tkTotalEstimated, tkTotalActual, tkCount, tkFactor, tkUpdates>>

Init == /\ tkShows \in {"reports", "calibrator"} /\ tkModel \in Models /\ tkScaling \in BOOLEAN
        /\ tkShows = "calibrator" => tkModel = (CHOOSE m \in Models : TRUE) /\ ~tkScaling
        /\ tkPrompt = 0 /\ tkReport = [input |-> 0, cache |-> 0]
        /\ tkStep = [a \in Answers |-> "idle"] /\ tkEstimate = [a \in Answers |-> 0]
        /\ tkActual = [a \in Answers |-> 0]
        /\ tkTotalEstimated = 0 /\ tkTotalActual = 0 /\ tkCount = 0 /\ tkFactor = 200 /\ tkUpdates = 0

-----------------------------------------------------------------------------
(* to_claude_usage.                                                        *)
IsRoot(r, unit, n) == (unit * r) * (unit * r) <= n /\ n < (unit * (r + 1)) * (unit * (r + 1))
SquareRoot(n) ==            \* below 2^16, by its high byte
    LET high == CHOOSE r \in 0..255 : IsRoot(r, 256, n)
    IN  CHOOSE r \in (256 * high)..(256 * high + 255) : IsRoot(r, 1, n)
Threshold == 30000
TargetMax == 195000
PerceptionStart == (tkModel \div 100) * 70 + ((tkModel % 100) * 70) \div 100
Compressed(n) == Threshold + SquareRoot(625 * (n - Threshold))
RegressionFromThreshold(n) ==
    Threshold + ((TargetMax - Threshold) * ((n - PerceptionStart) \div 1000))
                \div ((tkModel - PerceptionStart) \div 1000)
Regression(n) ==
    LET start == Compressed(PerceptionStart) IN
    start + ((TargetMax - start) * ((n - PerceptionStart) \div 1000))
            \div ((tkModel - PerceptionStart) \div 1000)
Scaled(n) == IF ~tkScaling \/ n <= Threshold THEN n
             ELSE IF n <= PerceptionStart THEN Compressed(n)
             ELSE Regression(n)
Usage(n, cached) == LET share == (Scaled(n) * cached) \div 100
                    IN  [input |-> Scaled(n) - share, cache |-> share]

Turn(n, cached) ==
    /\ tkShows = "reports" /\ n > tkPrompt
    /\ tkPrompt' = n /\ tkReport' = Usage(n, cached)
    /\ UNCHANGED <<tkFixed, tkRecords>>

-----------------------------------------------------------------------------
(* The estimate a streamed answer carries (handlers/claude/messages.rs)    *)
(* and the record made when it ends (streaming/state_finish.rs).           *)
TokensOf(text) == (((text.ascii + 3) \div 4 + (2 * text.other + 2) \div 3) * 115 + 99) \div 100
BlockTokens(b) ==
    CASE b.kind = "text" -> TokensOf(b) [] b.kind = "thinking" -> TokensOf(b) + 100
      [] b.kind = "call" -> TokensOf(b) + 20 [] b.kind = "result" -> TokensOf(b) + 10
      [] b.kind = "image" -> 0
SumOf(numbers) ==
    LET sum[i \in 0..Len(numbers)] == IF i = 0 THEN 0 ELSE sum[i - 1] + numbers[i]
    IN  sum[Len(numbers)]
MessageTokens(m) == 4 + SumOf([i \in DOMAIN m |-> BlockTokens(m[i])])
RawEstimate(r) == r.budget + SumOf([i \in DOMAIN r.texts |-> TokensOf(r.texts[i])])
                           + SumOf([i \in DOMAIN r.messages |-> MessageTokens(r.messages[i])])
Calibrated(raw) == (raw * tkFactor + 99) \div 100
Steps(a, from, to) == tkStep[a] = from /\ tkStep' = [tkStep EXCEPT ![a] = to]
Drop(f, a, gone) == IF gone THEN [f EXCEPT ![a] = 0] ELSE f

Estimate(a, request) ==
    /\ tkShows = "calibrator" /\ Steps(a, "idle", "asked")
    /\ tkEstimate' = [tkEstimate EXCEPT ![a] = Calibrated(RawEstimate(request))]
    /\ UNCHANGED <<tkFixed, tkTurn, tkActual, tkCalibrator>>
Answered(a, actual) ==
    LET ignored == actual = 0 \/ tkEstimate[a] = 0 IN
    /\ tkCount < MaxRecords /\ Steps(a, "asked", IF ignored THEN "idle" ELSE "answered")
    /\ tkActual' = [tkActual EXCEPT ![a] = IF ignored THEN 0 ELSE actual]
    /\ tkEstimate' = Drop(tkEstimate, a, ignored)
    /\ UNCHANGED <<tkFixed, tkTurn, tkCalibrator>>
AddEstimated(a) ==
    /\ Steps(a, "answered", "added")
    /\ tkTotalEstimated' = tkTotalEstimated + tkEstimate[a] /\ tkEstimate' = Drop(tkEstimate, a, TRUE)
    /\ UNCHANGED <<tkFixed, tkTurn, tkActual, tkTotalActual, tkCount, tkFactor, tkUpdates>>
AddActual(a) ==
    /\ Steps(a, "added", "counts")
    /\ tkTotalActual' = tkTotalActual + tkActual[a] /\ tkActual' = Drop(tkActual, a, TRUE)
    /\ UNCHANGED <<tkFixed, tkTurn, tkEstimate, tkTotalEstimated, tkCount, tkFactor, tkUpdates>>
AfterCount(count) == IF count % 5 = 0 THEN "updates" ELSE "idle"
Counted(a) == tkCount' = tkCount + 1 /\ Steps(a, "counts", AfterCount(tkCount + 1))
Count(a) ==
    /\ Counted(a)
    /\ UNCHANGED <<tkFixed, tkTurn, tkEstimate, tkActual, tkTotalEstimated, tkTotalActual, tkFactor, tkUpdates>>

(* update_calibration reads one total, then the other.                     *)
ReadEstimated(a) ==
    /\ Steps(a, "updates", "reads")
    /\ tkEstimate' = [tkEstimate EXCEPT ![a] = tkTotalEstimated]
    /\ UNCHANGED <<tkFixed, tkTurn, tkActual, tkCalibrator>>
NoClamp(f) == f
Clamp(f) == IF f < 80 THEN 80 ELSE IF f > 400 THEN 400 ELSE f
Update(a) ==
    /\ Steps(a, "reads", "idle")
    /\ tkFactor' = (tkFactor * 6 + Clamp((tkTotalActual * 100) \div tkEstimate[a]) * 4) \div 10
    /\ tkUpdates' = tkUpdates + 1 /\ tkEstimate' = Drop(tkEstimate, a, TRUE)
    /\ UNCHANGED <<tkFixed, tkTurn, tkActual, tkTotalEstimated, tkTotalActual, tkCount>>

Record(a) == AddEstimated(a) \/ AddActual(a) \/ Count(a) \/ ReadEstimated(a) \/ Update(a)
Next == \/ \E n \in Prompts, cached \in {0, 50, 100} : Turn(n, cached)
        \/ \E a \in Answers : (\E r \in Requests : Estimate(a, r)) \/ (\E n \in Actuals : Answered(a, n)) \/ Record(a)
        \/ tkShows = "reports" /\ (\A n \in Prompts : n <= tkPrompt) /\ UNCHANGED tkVars
        \/ tkShows = "calibrator" /\ tkCount >= MaxRecords /\ UNCHANGED tkVars
Spec == Init /\ [][Next]_tkVars

-----------------------------------------------------------------------------
TypeOK == /\ tkPrompt \in Prompts \cup {0} /\ tkReport \in [input : Nat, cache : Nat]
          /\ tkStep \in [Answers -> {"idle", "asked", "answered", "added", "counts", "updates", "reads"}]
          /\ tkEstimate \in [Answers -> Nat] /\ tkActual \in [Answers -> Nat]
          /\ {tkTotalEstimated, tkTotalActual, tkCount, tkUpdates} \subseteq Nat

(* What is reported of a prompt never shrinks while the prompt grows, so   *)
(* that a client counting on it still meets the 195,000 of TargetMax when  *)
(* the model's context is full, and never before.                          *)
Total(report) == report.input + report.cache
ReportsGrow == tkPrompt' # tkPrompt =>
    /\ Total(tkReport') >= Total(tkReport)
    /\ tkScaling /\ tkPrompt' < tkModel => Total(tkReport') <= TargetMax
    /\ tkScaling /\ tkPrompt' >= tkModel => Total(tkReport') >= TargetMax - 1

(* However records interleave, each fifth one corrects the factor once,    *)
(* and the factor stays where estimates remain usable.                     *)
CalibratorSound == /\ tkFactor \in 80..400
                   /\ (\A a \in Answers : tkStep[a] = "idle") => tkUpdates = tkCount \div 5
=============================================================================
