----------------------------- MODULE ClaudeRequest -----------------------------
(***************************************************************************)
(* A conversation in Claude's format turned into Gemini contents           *)
(* (mappers/claude/request/): what the Claude handler does to the messages *)
(* first (handlers/claude/messages.rs, request_preparation.rs), what       *)
(* transform_claude_request_in makes of them for a Gemini or a Claude      *)
(* target, and the repair tried when upstream rejects a signature          *)
(* (handlers/claude/error_recovery.rs).                                    *)
(*                                                                         *)
(* A block and a part are a kind, an id (the tool call; for words, which   *)
(* words, "" for white space, "nothing" for "(no content)") and a          *)
(* signature.                                                              *)
(***************************************************************************)
EXTENDS Naturals, Sequences, SequencesExt, FiniteSets

CONSTANTS MaxMessages,  \* bound on the length of the conversation
          RetainTurns   \* ANTIGRAVITY_IMAGE_RETENTION_TURNS

Item(kind, id, sig) == [kind |-> kind, id |-> id, sig |-> sig]
Words(id) == Item("text", id, "none")
NoWords(b) == b.kind = "text" /\ b.id \in {"", "nothing"}

UserBlocks ==
    {<<Words("go")>>, <<Words("")>>, <<Words("nothing")>>, <<Item("image", "", "none")>>,
     <<Item("result", "a", "none")>>, <<Item("picture result", "a", "none"), Item("result", "b", "none")>>,
     <<Item("result", "b", "none"), Words("go")>>}
AssistantBlocks ==
    {<<Words("done")>>, <<Item("thinking", "why", "short"), Words("")>>,
     <<Item("thinking", "why", "valid"), Item("call", "a", "none"), Words("done")>>,
     <<Item("thinking", "", "none"), Item("call", "a", "valid"), Item("call", "b", "short")>>,
     <<Words("done"), Item("redacted", "why", "none"), Item("thinking", "why", "none"), Item("call", "b", "none")>>}

Settings ==
    {s \in [origin : {"claude", "openai", "background"}, target : {"gemini", "claude"}, thinking : BOOLEAN,
            cached : {{}, {"session"}, {"tool"}, {"content"}}, recovery : BOOLEAN] :
        /\ s.origin = "background" => s.target = "gemini" /\ ~s.thinking
        /\ s.origin = "openai" => ~s.recovery}

VARIABLES crMessages,   \* the conversation as the client sent it
          crSettings,   \* once sent: entry point, target family, thinking mode, what the signature cache holds
          crSent,       \* whether the request was refused, and the contents sent upstream
          crRetried     \* retried_without_thinking

crVars == <<crMessages, crSettings, crSent, crRetried>>

Init == /\ crMessages = <<>> /\ crSettings = <<>> /\ crSent = [refused |-> FALSE, contents |-> <<>>] /\ crRetried = FALSE

-----------------------------------------------------------------------------
(* Messages before they are transformed.                                   *)
MapBlocks(F(_), message) ==
    [message EXCEPT !.blocks = [i \in DOMAIN message.blocks |-> F(message.blocks[i])]]
MapMessages(F(_), messages) == [i \in DOMAIN messages |-> F(messages[i])]
HasKind(message, kind) == \E b \in Range(message.blocks) : b.kind = kind

(* merge_consecutive_messages                                              *)
Merge(messages) ==
    FoldLeft(LAMBDA acc, m : IF acc # <<>> /\ Last(acc).role = m.role
                             THEN Append(Front(acc), [m EXCEPT !.blocks = Last(acc).blocks \o m.blocks])
                             ELSE Append(acc, m),
             <<>>, messages)

(* filter_invalid_thinking_blocks_with_family, apply_user_request_cleanup: *)
(* a thought without a signature long enough gets the dummy one.           *)
SignThoughts(messages) ==
    LET Sign(b) == IF b.kind = "thinking" /\ b.sig \in {"none", "short"} THEN [b EXCEPT !.sig = "dummy"] ELSE b
    IN  MapMessages(LAMBDA m : IF m.role = "assistant" THEN MapBlocks(Sign, m) ELSE m, messages)

(* handle_thinking_signature_error: calls without a signature get one too. *)
SignCalls(messages) ==
    LET Sign(b) == IF b.kind = "call" /\ b.sig = "none" THEN [b EXCEPT !.sig = "dummy"] ELSE b
    IN  MapMessages(LAMBDA m : MapBlocks(Sign, m), SignThoughts(messages))

(* close_tool_loop_for_thinking: a loop whose calls came without a signed  *)
(* thought is closed after its results, or before the user's words.        *)
CloseLoop(messages) ==
    LET turns == {i \in DOMAIN messages : messages[i].role = "assistant"}
        last == CHOOSE i \in turns : \A j \in turns : j <= i
        signed == \E b \in Range(messages[last].blocks) : b.kind = "thinking" /\ b.id # "" /\ b.sig = "valid"
        Says(role, id) == [role |-> role, blocks |-> <<Words(id)>>]
    IN  CASE turns = {} \/ Last(messages).role # "user" -> messages
          [] ~HasKind(messages[last], "call") \/ signed -> messages
          [] HasKind(Last(messages), "result") \/ HasKind(Last(messages), "picture result") ->
                 messages \o <<Says("assistant", "closed"), Says("user", "closed")>>
          [] OTHER -> InsertAt(messages, last + 1, Says("assistant", "closed"))

(* sort_thinking_blocks_first                                              *)
SortBlocks(message) ==
    LET Only(Test(_)) == SelectSeq(message.blocks, Test)
    IN  IF message.role # "assistant" \/ Len(message.blocks) <= 1 THEN message
        ELSE [message EXCEPT !.blocks = Only(LAMBDA b : b.kind \in {"thinking", "redacted"})
                                        \o Only(LAMBDA b : b.kind = "text" /\ ~NoWords(b))
                                        \o Only(LAMBDA b : b.kind \in {"image", "result", "picture result"})
                                        \o Only(LAMBDA b : b.kind = "call")]

(* What the entry point does before the transformation: OpenAI chats are   *)
(* converted only; background tasks lose their thoughts.                   *)
Prepared(messages, s) ==
    LET filtered == SignThoughts(Merge(messages))
        closed == IF s.recovery THEN CloseLoop(filtered) ELSE filtered
        Spoken(b) == b.kind \notin {"thinking", "redacted"}
    IN  CASE s.origin = "openai" -> messages
          [] s.origin = "claude" -> closed
          [] s.origin = "background" ->
                 MapMessages(LAMBDA m : [m EXCEPT !.blocks = SelectSeq(@, Spoken)], closed)

-----------------------------------------------------------------------------
(* build_contents: the blocks of a message, one after the other. The carry *)
(* holds the parts so far and what passes from message to message.         *)
Add(c, part) == [c EXCEPT !.parts = Append(@, part)]
Dummy(s) == IF s.target = "claude" THEN "none" ELSE "dummy"

(* "(no content)" is skipped, and so are words of the user that repeat the *)
(* task after a tool's answer: an echo. White space is kept.               *)
AddWords(c, b, role) ==
    IF b.id = "nothing" \/ (role = "user" /\ c.answered /\ b.id # "" /\ b.id = c.task) THEN c
    ELSE [Add(c, b) EXCEPT !.task = IF role = "user" THEN b.id ELSE @, !.answered = FALSE]

(* validate_thinking_signature, for a first, full thought with thinking on *)
AddFirstThought(c, b, s, retry) ==
    LET sig == IF b.sig = "none" /\ "content" \in s.cached /\ ~retry THEN "valid" ELSE b.sig
        kept == IF sig = "valid" THEN sig ELSE Dummy(s)
    IN  [Add(c, Item("thought", b.id, kept)) EXCEPT !.last = IF kept = "none" THEN @ ELSE kept]

AddThought(c, b, s, retry) ==
    CASE c.parts # <<>> /\ b.id # "" -> Add(c, Item("thought", b.id, IF b.sig = "valid" THEN b.sig ELSE Dummy(s)))
      [] c.parts = <<>> /\ s.thinking /\ b.id # "" -> AddFirstThought(c, b, s, retry)
      [] c.parts = <<>> /\ (s.thinking # (b.id # "")) -> Add(c, Item("thought", b.id, Dummy(s)))
      [] OTHER -> c

(* resolve_tool_signature, should_use_tool_signature                       *)
CallSignatureFound(c, b, s) ==
    CASE b.sig # "none" -> b.sig
      [] b.sig = "none" /\ c.last # "none" -> c.last
      [] OTHER -> IF s.cached \intersect {"session", "tool"} # {} THEN "valid" ELSE "none"
\* Mutant of CallSignature: a call that nothing signs stays unsigned.
CallSignatureOrNone(c, b, s) ==
    LET found == CallSignatureFound(c, b, s) IN IF found = "short" THEN "none" ELSE found
CallSignature(c, b, s) ==
    LET found == CallSignatureFound(c, b, s)
    IN  CASE found \in {"valid", "dummy"} -> found
          [] OTHER -> IF s.thinking THEN "dummy" ELSE "none"

AddCall(c, b, role, s) ==
    [Add(c, Item("call", b.id, CallSignature(c, b, s)))
        EXCEPT !.pending = IF role = "assistant" THEN Append(@, b.id) ELSE @]

(* build_tool_result_part: the pictures follow the answer.                 *)
AddResult(c, b) ==
    LET picture == IF b.kind = "picture result" THEN <<Item("data", "", "none")>> ELSE <<>>
    IN  [c EXCEPT !.parts = @ \o <<Item("response", b.id, c.last)>> \o picture,
                  !.results = @ \union {b.id}, !.answered = TRUE]

AddBlock(c, b, role, s, retry) ==
    CASE b.kind = "text" -> AddWords(c, b, role)
      [] b.kind = "thinking" -> AddThought(c, b, s, retry)
      [] b.kind = "redacted" -> Add(c, Words(b.id))
      [] b.kind = "image" -> Add(c, Item("data", "", "none"))
      [] b.kind = "call" -> AddCall(c, b, role, s)
      [] b.kind \in {"result", "picture result"} -> AddResult(c, b)

(* inject_missing_tool_results: calls the user's message leaves open are   *)
(* answered in front of it.                                                *)
\* Mutant of InjectMissing: the calls stay open.
InjectNothing(c) == [c EXCEPT !.pending = <<>>]
InjectMissing(c) ==
    LET missing == SelectSeq(c.pending, LAMBDA id : id \notin c.results)
    IN  [c EXCEPT !.pending = <<>>,
                  !.parts = [i \in DOMAIN missing |-> Item("response", missing[i], "none")] \o @]

(* reorder_gemini_parts: among other parts, words that say nothing go.     *)
\* Mutant of Reorder: the parts keep the order of the client's blocks.
ReorderNothing(parts) == parts
Reorder(parts) ==
    LET Only(kinds) == SelectSeq(parts, LAMBDA p : p.kind \in kinds)
    IN  IF Len(parts) <= 1 THEN parts
        ELSE Only({"thought"}) \o Only({"response"})
             \o SelectSeq(Only({"text"}), LAMBDA p : ~NoWords(p)) \o Only({"data"}) \o Only({"call"})

(* build_google_content: a message that leaves no part is dropped, before  *)
(* the parts are put in order; one of white space only may then have none. *)
(* The branch for an assistant after open calls needs two assistants in a  *)
(* row, which Merge excludes.                                              *)
AddMessage(c, m, s, retry) ==
    LET built == FoldLeft(LAMBDA acc, b : AddBlock(acc, b, m.role, s, retry),
                          [c EXCEPT !.parts = <<>>, !.results = {}], m.blocks)
        full == IF m.role = "user" /\ built.pending # <<>> THEN InjectMissing(built) ELSE built
    IN  IF full.parts = <<>> THEN full
        ELSE [full EXCEPT !.contents = Append(@, [role |-> m.role, parts |-> Reorder(full.parts)])]

(* merge_adjacent_roles                                                    *)
\* Mutant of MergeRoles: a message that left no part leaves two in a row.
MergeNothing(contents) == contents
MergeRoles(contents) ==
    FoldLeft(LAMBDA acc, c : IF acc # <<>> /\ Last(acc).role = c.role
                             THEN Append(Front(acc), [c EXCEPT !.parts = Reorder(Last(acc).parts \o c.parts)])
                             ELSE Append(acc, c),
             <<>>, contents)

(* build_google_contents; clean_thinking_fields_recursive if thinking is   *)
(* off, which leaves a thought as plain words.                             *)
Contents(messages, s, retry) ==
    LET start == [contents |-> <<>>, parts |-> <<>>, results |-> {}, pending |-> <<>>,
                  last |-> "none", task |-> "", answered |-> FALSE]
        merged == MergeRoles(FoldLeft(LAMBDA c, m : AddMessage(c, m, s, retry), start, messages).contents)
        Plain(p) == Item(IF p.kind = "thought" THEN "text" ELSE p.kind, p.id, "none")
    IN  IF s.thinking THEN merged
        ELSE [i \in DOMAIN merged |-> [merged[i] EXCEPT !.parts = [j \in DOMAIN @ |-> Plain(@[j])]]]

(* strip_old_images: pictures before the last turns become words.          *)
StripOldImages(contents) ==
    LET UsersFrom(i) == Cardinality({j \in i..Len(contents) : contents[j].role = "user"})
        Placeholder(p) == IF p.kind = "data" THEN Words("image") ELSE p
    IN  [i \in DOMAIN contents |->
            IF contents[i].role = "user" /\ UsersFrom(i) > RetainTurns
            THEN [contents[i] EXCEPT !.parts = [j \in DOMAIN @ |-> Placeholder(@[j])]]
            ELSE contents[i]]

(* strip_non_claude_thought_signatures                                     *)
StripThoughts(contents) ==
    LET Kept(c) == SelectSeq(c.parts, LAMBDA p : p.kind # "thought")
        Filled(c) == [c EXCEPT !.parts = IF Kept(c) = <<>> /\ c.role = "assistant" THEN <<Words("...")>> ELSE Kept(c)]
    IN  SelectSeq([i \in DOMAIN contents |-> Filled(contents[i])], LAMBDA c : c.parts # <<>>)
Strip(contents) ==
    LET Unsigned(p) == IF p.kind = "call" THEN [p EXCEPT !.sig = "none"] ELSE p
        left == StripThoughts(contents)
    IN  [i \in DOMAIN left |-> [left[i] EXCEPT !.parts = [j \in DOMAIN @ |-> Unsigned(@[j])]]]

(* repair_tool_pairing_after_strip. A turn with calls is followed by the   *)
(* user's when it runs (only one without any part was dropped), so the     *)
(* answers it adds go in front of the next content.                        *)
Calls(content) == SelectSeq(content.parts, LAMBDA p : p.kind = "call")
Answered(content) == {p.id : p \in {q \in Range(content.parts) : q.kind = "response"}}
Repair(contents) ==
    LET Missing(i) == IF i = 1 \/ contents[i].role = "assistant" THEN <<>>
                      ELSE SelectSeq(Calls(contents[i - 1]), LAMBDA p : p.id \notin Answered(contents[i]))
        Synthetic(p) == Item("response", p.id, "none")
    IN  [i \in DOMAIN contents |->
            [contents[i] EXCEPT !.parts = [j \in DOMAIN Missing(i) |-> Synthetic(Missing(i)[j])] \o @]]

(* The refusal of transform_claude_request_in and                          *)
(* has_valid_signature_for_function_calls.                                 *)
Refused(messages, s) ==
    LET thoughts == UNION {{b \in Range(messages[i].blocks) : b.kind = "thinking"} : i \in DOMAIN messages}
    IN  /\ s.thinking /\ thoughts # {} /\ "session" \notin s.cached
        /\ \E i \in DOMAIN messages : HasKind(messages[i], "call")
        /\ \A b \in thoughts : b.sig # "valid"

(* transform_claude_request_in                                             *)
Transform(messages, s, retry) ==
    LET cleaned == MapMessages(SortBlocks, Merge(messages))
        contents == StripOldImages(Contents(cleaned, s, retry))
    IN  IF Refused(cleaned, s) THEN [refused |-> TRUE, contents |-> <<>>]
        ELSE [refused |-> FALSE, contents |-> IF s.target = "claude" THEN Repair(Strip(contents)) ELSE contents]

-----------------------------------------------------------------------------
(* The conversation grows: it starts with the user, a call is made once,   *)
(* and an answer comes after its call, perhaps later than the next message.*)
Results == {"result", "picture result"}
Here(blocks, kinds) == {b.id : b \in {x \in Range(blocks) : x.kind \in kinds}}
Said(kinds) == UNION {Here(crMessages[i].blocks, kinds) : i \in DOMAIN crMessages}
Say(role, blocks) ==
    /\ crSettings = <<>> /\ Len(crMessages) < MaxMessages
    /\ crMessages = <<>> => role = "user"
    /\ Here(blocks, {"call"}) \intersect Said({"call"}) = {}
    /\ Here(blocks, Results) \subseteq Said({"call"}) \ Said(Results)
    /\ crMessages' = Append(crMessages, [role |-> role, blocks |-> blocks])
    /\ UNCHANGED <<crSettings, crSent, crRetried>>

Send(s) ==
    /\ crSettings = <<>> /\ crMessages # <<>>
    /\ crSettings' = <<s>>
    /\ crSent' = Transform(Prepared(crMessages, s), s, FALSE)
    /\ UNCHANGED <<crMessages, crRetried>>

(* Upstream finds a signature invalid: the messages are signed again, and  *)
(* a real signature among them is put in the session's cache.              *)
RetrySigned ==
    /\ crSettings # <<>> /\ crSettings[1].origin # "openai"
    /\ ~crSent.refused /\ ~crRetried
    /\ LET real == \E m \in Range(crMessages) : \E b \in Range(m.blocks) : b.kind = "thinking" /\ b.sig = "valid"
           s == IF real THEN [crSettings[1] EXCEPT !.cached = @ \union {"session"}] ELSE crSettings[1]
       IN  crSettings' = <<s>> /\ crSent' = Transform(SignCalls(Prepared(crMessages, s)), s, TRUE)
    /\ crRetried' = TRUE
    /\ UNCHANGED crMessages

(* The answer, or the refusal, reaches the client, which may go on.        *)
Reply ==
    /\ crSettings # <<>>
    /\ crSettings' = <<>> /\ crSent' = [refused |-> FALSE, contents |-> <<>>] /\ crRetried' = FALSE
    /\ UNCHANGED crMessages

Next == \/ \E blocks \in UserBlocks : Say("user", blocks)
        \/ \E blocks \in AssistantBlocks : Say("assistant", blocks)
        \/ \E s \in Settings : Send(s)
        \/ RetrySigned
        \/ Reply

Spec == Init /\ [][Next]_crVars

-----------------------------------------------------------------------------
Turns == crSent.contents

TypeOK ==
    /\ crSettings = <<>> \/ crSettings[1].cached \subseteq {"session", "tool", "content"}
    /\ crSent.refused \in BOOLEAN
    /\ \A i \in DOMAIN Turns :
           /\ Turns[i].role \in {"user", "assistant"}
           /\ \A p \in Range(Turns[i].parts) :
                  /\ p.kind \in {"text", "thought", "call", "response", "data"}
                  /\ p.sig \in {"none", "dummy", "valid"}
    /\ crRetried \in BOOLEAN

(* Every call of a turn that is not the last is answered in the next one,  *)
(* before anything else there, whatever the client skipped, merged, moved  *)
(* or answered late (merge_consecutive_messages, inject_missing,           *)
(* reorder_gemini_parts, repair_tool_pairing_after_strip).                 *)
CallsAnswered ==
    \A i \in 1..(Len(Turns) - 1) :
        LET next == Turns[i + 1].parts
            before == {j \in DOMAIN next : \A k \in 1..j : next[k].kind = "response"}
        IN  Calls(Turns[i]) # <<>> =>
                /\ Turns[i + 1].role = "user"
                /\ {p.id : p \in Range(Calls(Turns[i]))} \subseteq {next[j].id : j \in before}

(* Turns alternate and none is empty, though messages that leave no part   *)
(* are dropped and thoughts are stripped (build_google_content,            *)
(* merge_adjacent_roles, strip_non_claude_thought_signatures). The one     *)
(* exception is a side that sent white space twice: such words go where    *)
(* parts are put in order, after the check for messages without parts      *)
(* (google_content.rs:84-91), and a turn without parts is left. A Gemini   *)
(* model is sent it; for a Claude model the user's is dropped from between *)
(* two of the model's, whose own are filled.                               *)
Blanks(role) ==
    {<<i, j>> \in (DOMAIN crMessages) \X (1..3) :
        /\ crMessages[i].role = role /\ j \in DOMAIN crMessages[i].blocks
        /\ crMessages[i].blocks[j] = Words("")}
SaidNothingTwice(role, target) == crSettings[1].target = target /\ Cardinality(Blanks(role)) > 1
TurnsAlternate ==
    \A i \in DOMAIN Turns :
        /\ Turns[i].parts = <<>> => SaidNothingTwice(Turns[i].role, "gemini")
        /\ i > 1 /\ Turns[i].role = Turns[i - 1].role =>
               Turns[i].role = "assistant" /\ SaidNothingTwice("user", "claude")

(* A Gemini model that thinks gets no thought and no call without a        *)
(* signature it accepts; a Claude model gets no thought and no signed call;*)
(* a model that does not think gets neither thoughts nor signatures        *)
(* (signature_validator.rs, clean_thinking_fields_recursive, strip).       *)
SignaturesFit ==
    \A i \in DOMAIN Turns : \A p \in Range(Turns[i].parts) :
        LET signs == crSettings[1].thinking /\ crSettings[1].target = "gemini"
        IN  p.kind \in {"thought", "call"} => (p.kind = "thought" => signs) /\ (p.sig # "none" <=> signs)
=============================================================================
