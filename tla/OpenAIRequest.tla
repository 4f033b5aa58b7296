---------------------------- MODULE OpenAIRequest ----------------------------
(***************************************************************************)
(* The OpenAI chat request on its way to the model                         *)
(* (mappers/openai/request): turned into Gemini contents directly, or, for *)
(* a Claude model, into a Claude request first (claude_bridge.rs). The     *)
(* conversation grows as clients make it, every call answered before the   *)
(* next turn; Send translates what there is, both ways at once.            *)
(***************************************************************************)
EXTENDS Integers, Sequences, FiniteSets, Functions, SequencesExt

CONSTANTS Offers,       \* [tools, model, online, thinks, session]: what comes with the messages
          Words,        \* content blocks of users
          MaxMessages   \* bound on a conversation

VARIABLES orMessages,   \* the client's messages
          orOffer,      \* NoOffer until Send
          orContents, orTools, orFinal,     \* contents, tools and model of the Gemini body
          orBridged, orBridgedTools         \* messages and tools of the Claude request

orVars == <<orMessages, orOffer, orContents, orTools, orFinal, orBridged, orBridgedTools>>

NoOffer == [tools |-> {}, model |-> "none", online |-> FALSE, thinks |-> FALSE, session |-> FALSE]
Init == /\ orMessages = <<>> /\ orOffer = NoOffer /\ orContents = <<>> /\ orTools = {}
        /\ orFinal = "" /\ orBridged = <<>> /\ orBridgedTools = {}

Message(role, reasoning, words, calls, id, name) ==
    [role |-> role, reasoning |-> reasoning, words |-> words, calls |-> calls, id |-> id, name |-> name]
Indices == DOMAIN orMessages
CallsOf(i) == {<<i, k>> : k \in DOMAIN orMessages[i].calls}
Called == UNION {CallsOf(i) : i \in Indices}        \* a call's id is its place
AnsweredCalls == {orMessages[i].id : i \in {j \in Indices : orMessages[j].role = "tool"}}
Open == Called \ AnsweredCalls
NameOf(id) == orMessages[id[1]].calls[id[2]]

Say(message) == /\ orOffer = NoOffer /\ Len(orMessages) < MaxMessages
                /\ orMessages' = Append(orMessages, message)
                /\ UNCHANGED <<orOffer, orContents, orTools, orFinal, orBridged, orBridgedTools>>
SayUser == Open = {} /\ \E w \in Words : Say(Message("user", "none", w, <<>>, <<>>, ""))
SaySystem == Say(Message("system", "none", "text", <<>>, <<>>, ""))
SayAssistant ==
    /\ Open = {} /\ orMessages # <<>>
    /\ \E r \in {"none", "known", "unknown"}, w \in {"text", "nothing"},
          calls \in {<<>>, <<"plain">>, <<"plain", "local_shell_call">>} :
              Say(Message("assistant", r, w, calls, <<>>, ""))
SayResult == \E id \in Open, named \in BOOLEAN :
                 Say(Message("tool", "none", "text", <<>>, id, IF named THEN NameOf(id) ELSE ""))

-----------------------------------------------------------------------------
(* transform_message: the parts of one message, each with the place it     *)
(* comes from.                                                             *)
Part(kind, from, name, signed) == [kind |-> kind, from |-> from, name |-> name, signed |-> signed]
Renamed(name) == IF name = "local_shell_call" THEN "shell" ELSE name
ReasoningParts(m, i, offer) ==
    CASE m.reasoning = "known" -> <<Part("thought", <<i>>, "", "own")>>
      [] m.reasoning = "unknown" /\ offer.session -> <<Part("thought", <<i>>, "", "session")>>
      [] m.reasoning = "unknown" /\ ~offer.session -> <<Part("text", <<i>>, "", "")>>
      [] m.reasoning = "none" /\ offer.thinks /\ m.role = "assistant" /\ offer.session
            -> <<Part("thought", <<i>>, "placeholder", "session")>>
      [] OTHER -> <<>>
WordParts(m, i) ==
    CASE m.role = "tool" \/ m.words \in {"nothing", "missing"} -> <<>>
      [] m.role # "tool" /\ m.words = "text" -> <<Part("text", <<i>>, "", "")>>
      [] OTHER -> <<Part("media", <<i>>, "", "")>>
CallParts(m, i, offer) ==
    [k \in DOMAIN m.calls |-> Part("call", <<i, k>>, Renamed(m.calls[k]),
                                   IF offer.session THEN "session" ELSE "dummy")]
ResultNameAsGiven(m) == IF m.name # "" THEN m.name ELSE Renamed(NameOf(m.id))
ResultName(m) == IF m.name = "local_shell_call" THEN "shell" ELSE Renamed(NameOf(m.id))
ResultParts(m) == IF m.role = "tool" THEN <<Part("result", m.id, ResultName(m), "")>> ELSE <<>>
Transformed(m, i, offer) ==
    [role |-> IF m.role = "assistant" THEN "model" ELSE "user",
     parts |-> ReasoningParts(m, i, offer) \o WordParts(m, i) \o CallParts(m, i, offer) \o ResultParts(m)]

(* merge_consecutive_roles, after what has no parts is left out.           *)
MergeNone(contents, c) == Append(contents, c)
Merge(contents, c) ==
    IF contents # <<>> /\ Last(contents).role = c.role
    THEN [contents EXCEPT ![Len(contents)].parts = @ \o c.parts]
    ELSE Append(contents, c)
Contents(offer) ==
    LET each == [i \in Indices |-> Transformed(orMessages[i], i, offer)]
        kept == SelectSeq(SetToSortSeq({i \in Indices : orMessages[i].role # "system"}, <),
                          LAMBDA i : each[i].parts # <<>>)
    IN  FoldLeft(LAMBDA contents, i : Merge(contents, each[i]), <<>>, kept)

-----------------------------------------------------------------------------
(* Tools: a set of shapes; "simple" comes without the "function" wrapper.  *)
Shapes == {"plain", "local_shell_call", "simple", "nameless", "web_search", "google_search_retrieval"}
DeclaredNames(tools) == {Renamed(t) : t \in tools \ {"nameless", "web_search"}}
Networking(offer) == offer.online \/ offer.tools \cap {"web_search", "google_search_retrieval"} # {}
FinalModel(offer) == IF offer.model # "image" /\ Networking(offer) THEN "gemini-2.5-flash" ELSE offer.model
Search == "googleSearch"
InjectAlways(functions) == functions \cup {Search}
InjectSearch(functions) == IF functions = {} THEN {Search} ELSE functions
Tools(offer) ==
    CASE offer.model = "image" -> {}
      [] offer.model # "image" /\ Networking(offer) -> InjectSearch(DeclaredNames(offer.tools))
      [] OTHER -> DeclaredNames(offer.tools)

-----------------------------------------------------------------------------
(* openai_to_claude_request: results gather until another message comes.   *)
Block(kind, from) == [kind |-> kind, from |-> from]
ContentBlocks(m, i) ==
    CASE m.words \in {"nothing", "audio"} -> <<>>
      [] m.words = "data" -> <<Block("image", <<i>>)>>
      [] OTHER -> <<Block("text", <<i>>)>>      \* what cannot be shown is named
AssistantBlocks(m, i) ==
    LET blocks == (IF m.reasoning = "none" THEN <<>> ELSE <<Block("thinking", <<i>>)>>)
                  \o ContentBlocks(m, i) \o [k \in DOMAIN m.calls |-> Block("call", <<i, k>>)]
    IN  IF blocks = <<>> THEN <<Block("empty", <<i>>)>> ELSE blocks
BridgedTools(tools) == tools \ {"nameless", "simple"}
Flushed(b) == IF b.pending = <<>> THEN b.messages
              ELSE Append(b.messages, [role |-> "user", blocks |-> b.pending])
Take(b, i) ==
    LET m == orMessages[i]
        after(role, blocks) == [messages |-> Append(Flushed(b), [role |-> role, blocks |-> blocks]), pending |-> <<>>]
    IN  CASE m.role = "system" -> [messages |-> Flushed(b), pending |-> <<>>]
          [] m.role = "tool" -> [b EXCEPT !.pending = Append(@, Block("result", m.id))]
          [] m.role = "assistant" -> after("assistant", AssistantBlocks(m, i))
          [] m.role = "user" -> after("user", ContentBlocks(m, i))
Bridged == Flushed(FoldLeft(Take, [messages |-> <<>>, pending |-> <<>>], [i \in Indices |-> i]))

Send(offer) ==
    /\ orOffer = NoOffer /\ Open = {} /\ orMessages # <<>> /\ orOffer' = offer
    /\ orContents' = Contents(offer) /\ orTools' = Tools(offer) /\ orFinal' = FinalModel(offer)
    /\ orBridged' = Bridged /\ orBridgedTools' = BridgedTools(offer.tools)
    /\ UNCHANGED orMessages
Done == orOffer # NoOffer /\ UNCHANGED orVars
Stuck == Len(orMessages) = MaxMessages /\ Open # {} /\ UNCHANGED orVars     \* of the bound
Next == SayUser \/ SaySystem \/ SayAssistant \/ SayResult \/ (\E o \in Offers : Send(o)) \/ Done \/ Stuck

-----------------------------------------------------------------------------
TypeOK == /\ orMessages \in Seq([role : {"user", "system", "assistant", "tool"},
                                 reasoning : {"none", "known", "unknown"}, words : Words \cup {"text", "nothing"},
                                 calls : Seq(Shapes), id : Seq(Nat), name : Shapes \cup {""}])
          /\ orOffer \in Offers \cup {NoOffer} /\ orTools \subseteq Shapes \cup {"shell", Search}

(* Both ways, each call has its one answer before the model speaks again,  *)
(* and directly call, answer and declaration bear the same name.           *)
PlacesOf(turns, part) == {i \in DOMAIN turns : part \in turns[i]}
OneAnswer(turns, speaker) ==        \* turns: sets of <<kind, from>>
    \A id \in Called :
        \E i \in PlacesOf(turns, <<"call", id>>) :
            \E j \in PlacesOf(turns, <<"result", id>>) :
                /\ PlacesOf(turns, <<"result", id>>) = {j} /\ j > i
                /\ \A k \in (i + 1)..j : ~speaker[k]
SetOf(seq) == {seq[k] : k \in DOMAIN seq}
CallsAnswered == orOffer # NoOffer =>
    LET parts == UNION {SetOf(orContents[i].parts) : i \in DOMAIN orContents} IN
    /\ OneAnswer([i \in DOMAIN orContents |-> {<<p.kind, p.from>> : p \in SetOf(orContents[i].parts)}],
                 [i \in DOMAIN orContents |-> orContents[i].role = "model"])
    /\ OneAnswer([i \in DOMAIN orBridged |-> {<<b.kind, b.from>> : b \in SetOf(orBridged[i].blocks)}],
                 [i \in DOMAIN orBridged |-> orBridged[i].role = "assistant"])
    /\ \A p, q \in parts : p.kind = "call" /\ q.kind = "result" /\ p.from = q.from => p.name = q.name
    /\ \A p \in parts : p.kind = "call" /\ NameOf(p.from) \in orOffer.tools /\ orOffer.model # "image"
                        => p.name \in orTools

(* Directly, users and the model take turns, of which none is empty; and a *)
(* search is never offered together with functions.                        *)
TurnsAlternate == /\ \A i \in 2..Len(orContents) : orContents[i].role # orContents[i - 1].role
                  /\ \A i \in DOMAIN orContents : orContents[i].parts # <<>>
                  /\ Search \in orTools => orTools = {Search}
=============================================================================
