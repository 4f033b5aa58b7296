---------------------------- MODULE ModelRoutes ----------------------------
(***************************************************************************)
(* From the model a client names to the model that is asked: the custom    *)
(* mapping and the built-in table, the account that is picked for the      *)
(* result, the translation that decides once more, and the model an        *)
(* exhausted answer is blamed on (handlers/claude, openai, gemini;         *)
(* common/model_mapping.rs; mappers/request_config). The table is a sample *)
(* with one name for each way through it; the order among accounts is in   *)
(* TokenSelection, the locks' times in RateLimits, the retries' bookkeeping*)
(* in RetryLoop.                                                           *)
(***************************************************************************)
EXTENDS Naturals, Sequences, FiniteSets

CONSTANTS
    Accounts,       \* the accounts of the pool
    Names,          \* what a model may be called
    Reported,       \* the names the accounts report as available
    Mappings,       \* the custom mappings the user may set, each a sequence of
                    \* <<name or pattern, target>> in the map's own order
    Requests,       \* [proto, model, tool, words] the clients may send
    MaxServed, MaxChanges

VARIABLES moMapping, moChanges, moServed, moPhase, moReq, moAccount, moRouted,
          moChosen, moMapped, moSent, moMoved, moTried, moAttempt, moLocks, moRefused
moVars == <<moMapping, moChanges, moServed, moPhase, moReq, moAccount, moRouted,
            moChosen, moMapped, moSent, moMoved, moTried, moAttempt, moLocks, moRefused>>

Search == "gemini-2.5-flash"
Lite == "gemini-2.5-flash-lite"
Image == "gemini-3-pro-image"

OwnNames == {"claude-opus-4-5-thinking", "claude-sonnet-4-5", "gemini-3-pro-preview", "gemini-3-flash",
             Search, Lite, Image}
Aliases == {"claude-opus-4-5", "claude-haiku-4-5", "gpt-4", "gemini-3-pro-high", "gemini-3-flash-preview"}
Table ==
    [m \in OwnNames \union Aliases |->
        IF m = "claude-opus-4-5" THEN "claude-opus-4-5-thinking"
        ELSE IF m = "gpt-4" THEN Search
        ELSE IF m = "gemini-3-pro-high" THEN "gemini-3-pro-preview"
        ELSE IF m \in {"claude-haiku-4-5", "gemini-3-flash-preview"} THEN "gemini-3-flash"
        ELSE m]

(* A size, a ratio, or both behind the name of the model for images.       *)
ImageVariants ==
    {Image, "gemini-3-pro-image-1x1", "gemini-3-pro-image-4x3", "gemini-3-pro-image-3x4",
     "gemini-3-pro-image-16x9", "gemini-3-pro-image-9x16", "gemini-3-pro-image-21x9",
     "gemini-3-pro-image-2k", "gemini-3-pro-image-2k-1x1", "gemini-3-pro-image-2k-4x3",
     "gemini-3-pro-image-2k-3x4", "gemini-3-pro-image-2k-16x9", "gemini-3-pro-image-2k-9x16",
     "gemini-3-pro-image-2k-21x9", "gemini-3-pro-image-4k", "gemini-3-pro-image-4k-1x1",
     "gemini-3-pro-image-4k-4x3", "gemini-3-pro-image-4k-3x4", "gemini-3-pro-image-4k-16x9",
     "gemini-3-pro-image-4k-9x16", "gemini-3-pro-image-4k-21x9"}

(* Names outside the table that begin with "gemini-" or hold "thinking",   *)
(* and names that end with "-online".                                      *)
PassThrough == ImageVariants \union {"gemini-3-flash-online", "gemini-3-flash"}
Online == {"gemini-3-flash-online", "fast-online"}
WithoutOnline(m) == IF m = "gemini-3-flash-online" THEN "gemini-3-flash"
                    ELSE IF m = "fast-online" THEN "fast" ELSE m

(* The patterns of custom mappings and what they match.                    *)
Matches(pattern, m) ==
    \/ pattern = "gpt-*" /\ m \in {"gpt-4", "gpt-oss"}
    \/ pattern = "*" /\ m # "*"

(* map_claude_model_to_gemini: a set of at most one name.                  *)
BuiltIn(m) == IF m \in DOMAIN Table THEN {Table[m]} ELSE {m} \intersect PassThrough

(* resolve_model_route: the entry for the name, else the first pattern     *)
(* that matches in the order the map happens to have, else the table.      *)
Route(m, mapping) ==
    LET exact == {i \in DOMAIN mapping : mapping[i][1] = m}
        matching == {i \in DOMAIN mapping : Matches(mapping[i][1], m)}
    IN  IF exact # {} THEN {mapping[i][2] : i \in exact}
        ELSE IF matching # {} THEN {mapping[CHOOSE i \in matching : \A j \in matching : i <= j][2]}
        ELSE BuiltIn(m)

(* collect_all_model_ids.                                                  *)
Listed(mapping) == 
    Reported \union DOMAIN Table \union {mapping[i][1] : i \in DOMAIN mapping} \union ImageVariants

(* normalize_to_standard_id, or the name itself: what locks go by.         *)
Family(m) ==
    IF m \in {"gemini-3-flash", "gemini-3-flash-online"} THEN "gemini-3-flash"
    ELSE IF m \in {"gemini-3-pro-preview", "gemini-3-pro-high"} \union ImageVariants THEN "gemini-3-pro-high"
    ELSE IF m \in {"claude-opus-4-5-thinking", "claude-opus-next"} THEN "claude-opus-4-5-thinking"
    ELSE IF m = "claude-sonnet-4-5" THEN "claude-sonnet-4-5" ELSE "none"
InTable(m) == IF m \in DOMAIN Table THEN Table[m] ELSE m
LockName(m) ==
    LET n == InTable(InTable(InTable(InTable(InTable(m)))))
    IN  IF InTable(n) = n /\ Family(n) # "none" THEN Family(n) ELSE m

(* Which of a request's tools count as a search, and where: the handlers   *)
(* see the functions of a Gemini request without their wrapping, the       *)
(* wrapper sees them in it; a bare tool does not pass the bridge to Claude.*)
IsSearch(tool, how) == tool = "named" \/ (tool \in {"bare", "dated"} /\ how = "flat")

(* resolve_request_config: the model to ask.                               *)
FinalModel(original, mapped, searching) ==
    IF mapped \in ImageVariants THEN Image
    ELSE IF original \in Online \/ searching THEN Search
    ELSE IF WithoutOnline(mapped) = "gemini-3-pro-preview" THEN "gemini-3-pro-high"
    ELSE IF WithoutOnline(mapped) = "gemini-3-flash-preview" THEN "gemini-3-flash"
    ELSE WithoutOnline(mapped)

(* transform_claude_request_in goes through the table again, with the      *)
(* mapped name in the place of the client's.                               *)
ClaudeSent(mapped, searching) ==
    {FinalModel(mapped, m, searching) : m \in (IF searching THEN {Search} ELSE BuiltIn(mapped))}

IsClaude(m) == m \in {"claude-opus-4-5", "claude-opus-4-5-thinking", "claude-sonnet-4-5", "claude-haiku-4-5",
                      "claude-opus-next"}

(* What the last turn may say or look like.                                *)
Words == {"warm-up", "long", "system", "title", "summary", "short", "suggest", "probe"}

(* detect_background_task_type: what the words of the last turn that counts*)
(* say it is for. The words of the client's own reminders come first; a    *)
(* long turn is the user's.                                                *)
Task(words) ==
    IF "long" \in words THEN "user"
    ELSE IF "system" \in words THEN "system"
    ELSE IF "title" \in words THEN "title"
    ELSE IF "summary" \in words THEN (IF "short" \in words THEN "summary" ELSE "condense")
    ELSE IF words \intersect {"suggest", "probe"} # {} THEN "probe" ELSE "user"
BackgroundModel(task) == IF task = "condense" THEN Search ELSE Lite
Own(req) == Task(req.words) # "user"

(* How the translation to the mapped name sees the tools.                  *)
SeenAs(req, mapped) ==
    IF req.proto = "gemini" THEN "nested"
    ELSE IF req.proto = "chat" /\ IsClaude(mapped) THEN "bridged" ELSE "flat"

(* The models to ask for the mapped name: none if it cannot be translated. *)
Translated(req, mapped) ==
    LET searching == IsSearch(req.tool, SeenAs(req, mapped))
    IN  IF req.proto = "claude" THEN ClaudeSent(mapped, searching /\ ~Own(req))
        ELSE IF req.proto = "chat" /\ IsClaude(mapped) THEN ClaudeSent(mapped, searching)
        ELSE IF req.proto = "gemini" THEN {FinalModel(mapped, mapped, searching)}
        ELSE {FinalModel(req.model, mapped, searching)}

(* A mapping has one entry for each name. A name outside the sample stands *)
(* for names that no table, family or suffix knows.                        *)
ModelRoutesAssumption ==
    /\ IsFiniteSet(Accounts) /\ MaxServed \in Nat /\ MaxChanges \in Nat
    /\ Aliases \union OwnNames \union PassThrough \union {"fast"} \subseteq Names
    /\ \A mapping \in Mappings :
            /\ mapping \in Seq(Names \X Names)
            /\ \A i, j \in DOMAIN mapping : mapping[i][1] = mapping[j][1] => i = j
    /\ Requests \subseteq [proto : {"claude", "chat", "completions", "gemini"}, model : Names,
                           tool : {"none", "named", "bare", "dated"}, words : SUBSET Words]

NoRequest == [proto |-> "none", model |-> "none", tool |-> "none", words |-> {}]
Forgotten ==
    /\ moReq' = NoRequest /\ moAccount' = "none" /\ moRouted' = "none" /\ moChosen' = "none"
    /\ moMapped' = "none" /\ moSent' = "none" /\ moMoved' = FALSE
    /\ moTried' = {} /\ moAttempt' = 0

Init ==
    /\ moMapping \in Mappings /\ moChanges = 0 /\ moServed = 0 /\ moPhase = "idle"
    /\ moReq = NoRequest /\ moAccount = "none" /\ moRouted = "none" /\ moChosen = "none"
    /\ moMapped = "none" /\ moSent = "none" /\ moMoved = FALSE /\ moTried = {} /\ moAttempt = 0
    /\ moLocks = {} /\ moRefused = {}

(* The user changes the mapping while requests are served.                 *)
ChangeMapping ==
    /\ moChanges < MaxChanges
    /\ \E m \in Mappings \ {moMapping} : moMapping' = m
    /\ moChanges' = moChanges + 1 /\ moMoved' = (moMoved \/ moPhase \in {"acquire", "prepare"})
    /\ UNCHANGED <<moServed, moPhase, moReq, moAccount, moRouted, moChosen, moMapped, moSent, moTried,
                   moAttempt, moLocks, moRefused>>

(* A request arrives; a warm-up in Claude's protocol is answered at once.  *)
Receive(r) ==
    /\ moPhase = "idle" /\ moServed < MaxServed
    /\ moServed' = moServed + 1
    /\ IF r.proto = "claude" /\ "warm-up" \in r.words THEN UNCHANGED <<moPhase, moReq>>
       ELSE moPhase' = "route" /\ moReq' = r
    /\ UNCHANGED <<moMapping, moChanges, moAccount, moRouted, moChosen, moMapped, moSent, moMoved, moTried,
                   moAttempt, moLocks, moRefused>>

(* The request ends: answered, refused as unknown, or out of accounts.     *)
End ==
    /\ moPhase' = "idle" /\ Forgotten
    /\ UNCHANGED <<moMapping, moChanges, moServed, moLocks, moRefused>>

Unknown == moPhase = "route" /\ Route(moReq.model, moMapping) = {} /\ End

Resolve ==
    /\ moPhase = "route" /\ moPhase' = "acquire"
    /\ \E m \in Route(moReq.model, moMapping) :
            /\ moRouted' = m
            /\ moChosen' = FinalModel(moReq.model, m, IsSearch(moReq.tool, "flat"))
    /\ moMoved' = FALSE
    /\ UNCHANGED <<moMapping, moChanges, moServed, moReq, moAccount, moMapped, moSent, moTried,
                   moAttempt, moLocks, moRefused>>

(* An account that is neither tried nor locked for the model.              *)
Usable == {a \in Accounts \ moTried : {<<a, "any">>, <<a, LockName(moChosen)>>} \intersect moLocks = {}}

NoAccount == moPhase = "acquire" /\ Usable = {} /\ End

Acquire ==
    /\ moPhase = "acquire" /\ moPhase' = "prepare"
    /\ \E a \in Usable : moAccount' = a
    /\ UNCHANGED <<moMapping, moChanges, moServed, moReq, moRouted, moChosen, moMapped, moSent, moMoved, moTried,
                   moAttempt, moLocks, moRefused>>

(* The body is made: Claude's handler resolves the name once more, and     *)
(* puts a cheap model in its place when the turn is the client's own.      *)
MappedNow ==
    IF moReq.proto # "claude" THEN {moRouted}
    ELSE IF ~Own(moReq) \/ Route(moReq.model, moMapping) = {} THEN Route(moReq.model, moMapping)
    ELSE {BackgroundModel(Task(moReq.words))}

NotPrepared ==
    /\ moPhase = "prepare"
    /\ \/ MappedNow = {}
       \/ \E m \in MappedNow : Translated(moReq, m) = {}
    /\ End

Prepare ==
    /\ moPhase = "prepare" /\ moPhase' = "sent"
    /\ \E m \in MappedNow : moMapped' = m /\ \E s \in Translated(moReq, m) : moSent' = s
    /\ UNCHANGED <<moMapping, moChanges, moServed, moReq, moAccount, moRouted, moChosen, moMoved, moTried,
                   moAttempt, moLocks, moRefused>>

Answered == moPhase = "sent" /\ End

(* A bug for the checks: the name the client used is locked.               *)
BlamedAsNamed == IF moReq.proto = "gemini" THEN "any" ELSE LockName(moReq.model)

(* What an exhausted answer locks.                                         *)
Blamed == IF moReq.proto = "gemini" THEN "any"
          ELSE LockName(IF moReq.proto = "chat" THEN moChosen ELSE moMapped)

(* The ways in which the two decisions come apart: the mapping changed     *)
(* between them, the turn is the client's own and goes to a cheap model,   *)
(* an "-online" is lost or gained with the name, a tool counts as a search *)
(* in one place only, or as an image in the other (transform_claude_request*)
(* _in asks the model for searches before it looks for images), or a custom*)
(* target is itself a name of the table.                                   *)
ComesApart ==
    \/ moMoved \/ Own(moReq)
    \/ (moReq.model \in Online) # (moRouted \in Online)
    \/ IsSearch(moReq.tool, SeenAs(moReq, moRouted)) # IsSearch(moReq.tool, "flat")
    \/ moReq.proto = "claude" /\ moReq.tool # "none" /\ moRouted \in ImageVariants
    \/ BuiltIn(moRouted) # {moRouted}
Searching == moReq.tool # "none" \/ moReq.model \in Online

(* The account is exhausted for the model: it is locked, and the request   *)
(* tries another one. Completions do not remember whom they tried.         *)
Exhausted ==
    /\ moPhase = "sent"
    /\ moRefused' = moRefused \union (IF ComesApart \/ Searching THEN {} ELSE {<<moAccount, LockName(moSent)>>})
    /\ moLocks' = moLocks \union {<<moAccount, Blamed>>}
    /\ IF moAttempt + 1 = Cardinality(Accounts) THEN moPhase' = "idle" /\ Forgotten
       ELSE /\ moPhase' = "route" /\ moAttempt' = moAttempt + 1 /\ moMoved' = FALSE
            /\ moTried' = IF moReq.proto = "completions" THEN {} ELSE moTried \union {moAccount}
            /\ moAccount' = "none" /\ moRouted' = "none" /\ moChosen' = "none"
            /\ moMapped' = "none" /\ moSent' = "none" /\ UNCHANGED moReq
    /\ UNCHANGED <<moMapping, moChanges, moServed>>

Finished == moPhase = "idle" /\ moServed = MaxServed /\ UNCHANGED moVars

Next ==
    \/ ChangeMapping
    \/ \E r \in Requests : Receive(r)
    \/ Unknown \/ Resolve \/ NoAccount \/ Acquire
    \/ NotPrepared \/ Prepare \/ Answered \/ Exhausted \/ Finished

Spec == Init /\ [][Next]_moVars

TypeOK ==
    /\ moMapping \in Mappings /\ moChanges \in 0..MaxChanges /\ moServed \in 0..MaxServed
    /\ moPhase \in {"idle", "route", "acquire", "prepare", "sent"}
    /\ moReq \in Requests \union {NoRequest} /\ moAccount \in Accounts \union {"none"}
    /\ {moRouted, moChosen, moMapped, moSent} \subseteq Names \union {"none"} /\ moMoved \in BOOLEAN
    /\ moTried \subseteq Accounts /\ moAttempt \in 0..Cardinality(Accounts)
    /\ moLocks \subseteq Accounts \X (Names \union {"any"}) /\ moRefused \subseteq Accounts \X Names

(* Except for these, the model that is asked is the model the account was  *)
(* chosen for, as far as locks tell them apart.                            *)
SentAsChosen == moPhase = "sent" /\ ~ComesApart => LockName(moSent) = LockName(moChosen)

(* Nor is an account asked again for a model it was found exhausted for,   *)
(* by another request or another protocol: searches apart, whose lock is   *)
(* put on the name they were mapped to, what an answer is blamed on is     *)
(* what the next choice looks at.                                          *)
NotAskedAgain ==
    moPhase = "sent" /\ ~ComesApart /\ ~Searching => <<moAccount, LockName(moSent)>> \notin moRefused

(* The turns of Claude's client for its own housekeeping never reach the   *)
(* model the client named nor the one it is mapped to, on any attempt and  *)
(* under any mapping.                                                      *)
OwnTurnsCheap ==
    moPhase = "sent" /\ moReq.proto = "claude" /\ Own(moReq) => moSent \in {Lite, Search}

(* Whenever a request is routed, every name in the list of models has a    *)
(* route under the mapping of that moment, but for those that only the     *)
(* accounts report: these are listed without being served.                 *)
ListedServed == moPhase = "route" => \A m \in Listed(moMapping) \ Reported : Route(m, moMapping) # {}

RoutesSound == SentAsChosen /\ NotAskedAgain /\ OwnTurnsCheap /\ ListedServed
=============================================================================
