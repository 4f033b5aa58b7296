---------------------------- MODULE ThinkingBudget ----------------------------
(***************************************************************************)
(* What the three mappers make of a client's thinking settings: the mode   *)
(* of the instance (proxy/common/thinking_config.rs, hot reloaded), the    *)
(* request and the mapped model give the thinking budget and the limit of  *)
(* output tokens that are sent upstream (mappers/claude/request, openai/   *)
(* request, gemini/wrapper.rs).                                            *)
(***************************************************************************)
EXTENDS Integers

CONSTANTS Budgets, Limits     \* budgets and output limits of clients and of the mode "custom"
ThinkingBudgetAssumption == Budgets \subseteq Nat \union {-1} /\ Limits \subseteq Nat

None == -2                    \* a field that is not there; -1 is Gemini's dynamic budget
DefaultBudget == 16000
Overhead == 32768
MinOverhead == 8192
FlashBudget == 24576
ClaudeCeiling == 64000
AdaptiveLimit == 131072

Modes == {"auto", "adaptive", "passthrough", "custom"}
Claude == {"claude-sonnet", "claude-opus-thinking"}
Gemini3 == {"gemini-3-pro", "gemini-3-flash", "gemini-3-pro-image"}
Gemini2 == {"gemini-2.5-flash", "gemini-2.0-pro"}
Models == Claude \union Gemini3 \union Gemini2
Flash == {"gemini-3-flash", "gemini-2.5-flash"}
NoThinking == {"gemini-2.0-pro"}                         \* for the Claude mapper
OpenAIThinking == {"claude-opus-thinking", "gemini-3-pro", "gemini-2.0-pro"}

(* thinking: the client's switch; budget, max: its numbers; effort: its    *)
(* output_config; search: a web search tool; special: what the model's name*)
(* (opus: thinking by default; flash) or the history (thoughts without a   *)
(* signature) adds.                                                        *)
Requests ==
    {r \in [protocol : {"claude", "openai", "gemini"}, model : Models, thinking : {"absent", "disabled", "enabled"},
            budget : Budgets \union {None}, max : Limits \union {None}, effort : {"none", "high", "medium"},
            search : BOOLEAN, special : BOOLEAN] :
        /\ r.thinking = "absent" => r.budget = None
        /\ r.protocol = "openai" => r.thinking = "absent"
        /\ r.protocol # "claude" => r.effort = "none" /\ ~r.search
        /\ r.protocol = "gemini" => ~r.special
        /\ r.protocol # "gemini" => r.budget # -1}

Body(budget, level, max) == [budget |-> budget, level |-> level, max |-> max]

VARIABLES tbMode, tbCustom,   \* the configuration (thinking.rs)
          tbRequest, tbSent   \* the request being sent, if any, and what it became

tbVars == <<tbMode, tbCustom, tbRequest, tbSent>>

Init == /\ tbMode = "adaptive" /\ tbCustom = FlashBudget
        /\ tbRequest = {} /\ tbSent = Body(None, "none", None)

-----------------------------------------------------------------------------
Configured == IF tbMode = "custom" THEN tbCustom ELSE DefaultBudget
Smaller(a, b) == IF a <= b THEN a ELSE b
\* Mutant of LeavesNoRoom: a limit that equals the budget is kept.
IsBelow(max, budget) == max < budget
LeavesNoRoom(max, budget) == max <= budget
(* Image models get no thinking configuration.                             *)
WithoutThoughtsFor(model, body) ==
    IF model = "gemini-3-pro-image" THEN [body EXCEPT !.budget = None, !.level = "none"] ELSE body

(* build_generation_config of the Claude mapper.                           *)
ClaudeModel(r) == IF r.search THEN "gemini-2.5-flash" ELSE r.model
ClaudeThinks(r) ==
    /\ ClaudeModel(r) \notin NoThinking
    /\ \/ r.thinking = "enabled"
       \/ r.thinking = "absent" /\ r.special
       \/ ClaudeModel(r) = "claude-opus-thinking"
ClaudeBudget(r) ==
    IF ~ClaudeThinks(r) THEN None
    ELSE IF r.thinking = "absent" THEN Configured
    ELSE LET asked == IF r.budget = None \/ tbMode = "custom" THEN Configured
                      ELSE IF tbMode # "passthrough" /\ (r.search \/ r.special)
                      THEN Smaller(r.budget, FlashBudget) ELSE r.budget
         IN  IF asked > 0 THEN asked ELSE None
ClaudeMax(r, budget) ==
    LET current == IF r.max = None THEN 0 ELSE r.max
        bumped == IF budget # None /\ LeavesNoRoom(current, budget) THEN budget + Overhead ELSE r.max
    IN  IF ClaudeModel(r) \in Claude THEN Smaller(bumped, ClaudeCeiling) ELSE bumped
ClaudeEffort(r, body) ==
    IF r.effort = "none" \/ ~ClaudeThinks(r) \/ ClaudeModel(r) \in Claude THEN body
    ELSE IF ClaudeModel(r) \in Gemini3
    THEN [body EXCEPT !.budget = None,
                      !.level = IF r.effort = "medium" /\ ClaudeModel(r) # "gemini-3-flash" THEN "low" ELSE r.effort]
    ELSE [body EXCEPT !.budget = IF r.effort = "high" THEN -1 ELSE 2048]
FromClaude(r) ==
    LET budget == ClaudeBudget(r)
    IN  WithoutThoughtsFor(ClaudeModel(r), ClaudeEffort(r, Body(budget, "none", ClaudeMax(r, budget))))

(* build_generation_config of the OpenAI mapper.                           *)
OpenAIThinks(r) == r.model \in OpenAIThinking /\ ~(r.model \in Claude /\ r.special)
FromOpenAI(r) ==
    IF ~OpenAIThinks(r) THEN Body(None, "none", r.max)
    ELSE Body(Configured, "none",
              IF tbMode = "adaptive" \/ r.max = None THEN Configured + Overhead
              ELSE IF LeavesNoRoom(r.max, Configured) THEN Configured + MinOverhead ELSE r.max)

(* wrap_request of the Gemini protocol: the client's own configuration.    *)
ThoughtsOfGemini(r) ==
    LET body == Body(r.budget, "none", r.max)
    IN  IF tbMode # "adaptive" \/ r.thinking = "absent" THEN body
        ELSE IF r.model \in Gemini3 THEN [body EXCEPT !.budget = None, !.level = "high"]
        ELSE IF r.budget = -1 THEN [body EXCEPT !.budget = DefaultBudget] ELSE body
FlashCapped(r, body) ==
    IF r.model \in Flash THEN [body EXCEPT !.budget = Smaller(@, FlashBudget)] ELSE body
FromGemini(r) ==
    LET capped == FlashCapped(r, ThoughtsOfGemini(r))
        configured == r.thinking # "absent" \/ r.max # None
        body == IF tbMode = "adaptive" /\ configured THEN [capped EXCEPT !.max = AdaptiveLimit] ELSE capped
    IN  WithoutThoughtsFor(r.model, body)

-----------------------------------------------------------------------------
Map == /\ tbRequest = {}
       /\ \E r \in Requests :
            /\ tbRequest' = {r}
            /\ tbSent' = CASE r.protocol = "claude" -> FromClaude(r)
                           [] r.protocol = "openai" -> FromOpenAI(r)
                           [] r.protocol = "gemini" -> FromGemini(r)
       /\ UNCHANGED <<tbMode, tbCustom>>

(* update_thinking_budget_config; a mapper reads the configuration once.   *)
Reload(mode, custom) ==
    /\ tbRequest = {}
    /\ tbMode' = mode /\ tbCustom' = custom
    /\ UNCHANGED <<tbRequest, tbSent>>

Sent == /\ tbRequest # {} /\ tbRequest' = {} /\ tbSent' = Body(None, "none", None)
        /\ UNCHANGED <<tbMode, tbCustom>>

Next == \/ Map
        \/ Sent
        \/ \E mode \in Modes, custom \in Budgets \ {-1} : Reload(mode, custom)

Spec == Init /\ [][Next]_tbVars

-----------------------------------------------------------------------------
TypeOK == /\ tbMode \in Modes /\ tbCustom \in Nat /\ tbRequest \subseteq Requests
          /\ tbSent.budget \in Int /\ tbSent.max \in Nat \union {None}

(* Upstream refuses a limit that leaves no room after the thoughts. No     *)
(* request gets one, but where a later step of the mapper undoes the       *)
(* balance: the ceiling of Claude models, the effort of a Gemini 2 model   *)
(* and what a client of the Gemini protocol asked for itself.              *)
Unbalanced(r) ==
    \/ r.protocol = "claude" /\ ClaudeModel(r) \in Claude /\ tbSent.budget >= ClaudeCeiling
    \/ r.protocol = "claude" /\ ClaudeModel(r) \in Gemini2 /\ r.effort = "medium"
    \/ r.protocol = "gemini" /\ (r.max <= r.budget \/ r.budget >= AdaptiveLimit)
BudgetFits ==
    \A r \in tbRequest :
        tbSent.budget > 0 => \/ tbSent.max > tbSent.budget
                             \/ tbSent.max = None /\ r.protocol = "gemini"
                             \/ Unbalanced(r)
=============================================================================
