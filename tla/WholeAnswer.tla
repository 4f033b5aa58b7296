----------------------------- MODULE WholeAnswer -----------------------------
(***************************************************************************)
(* A Gemini answer that arrives whole, turned into a Claude message        *)
(* (mappers/claude/response/, called by handle_nonstreaming_success) and   *)
(* into an OpenAI completion (mappers/openai/response.rs). Both loops go   *)
(* over the parts in order; a step of the module is one turn of the loops. *)
(*                                                                         *)
(* A text is a sequence of tokens: "t" for words, "o" and "c" for the tags *)
(* of a tool call written as XML, "i" for an image, "g" for the citations  *)
(* of a search. The signature of part n is n, 0 stands for none.           *)
(***************************************************************************)
EXTENDS Naturals, Sequences, SequencesExt, Functions, FiniteSets

CONSTANTS Parts,        \* [kind : "text", "thought", "call" or "image", text, tool, args, sig]
          MaxParts      \* bound on the parts of one answer

VARIABLES waDoc,        \* NonStreamingProcessor: blocks, text, thinking,
                        \* thinkingSig, trailing, tool (has_tool_call)
          waChoice,     \* Choice: content, thoughts (reasoning_content), calls
          waParts,      \* parts processed
          waReason,     \* stop_reason and finish_reason of the two answers
          waEnd         \* "open", "done", "refused" (an error status) or "panicked"

waVars == <<waDoc, waChoice, waParts, waReason, waEnd>>

NoReason == [claude |-> "none", openai |-> "none"]
Init == /\ waDoc = [blocks |-> <<>>, text |-> <<>>, thinking |-> <<>>, thinkingSig |-> 0,
                    trailing |-> 0, tool |-> FALSE]
        /\ waChoice = [content |-> <<>>, thoughts |-> <<>>, calls |-> <<>>]
        /\ waParts = <<>> /\ waReason = NoReason /\ waEnd = "open"

-----------------------------------------------------------------------------
(* Arguments: a function from the names given to their values. A value is  *)
(* named after where it came from.                                         *)
NoArgs == [name \in {} |-> "none"]
Has(args, name) == name \in DOMAIN args
Put(args, name, value) == [n \in DOMAIN args \union {name} |-> IF n = name THEN value ELSE args[n]]
Drop(args, name) == Restrict(args, DOMAIN args \ {name})

(* remove(from), and insert(to) unless there is one already.               *)
Renamed(args, from, to) ==
    IF ~Has(args, from) THEN args
    ELSE LET rest == Drop(args, from)
         IN  IF Has(rest, to) THEN rest ELSE Put(rest, to, args[from])

(* remap_paths_to_path: the first of the paths, a lone string, or ".".     *)
FirstPath(paths) == CASE paths \in {"one", "many"} -> "first" [] paths = "string" -> "string" [] OTHER -> "."
PathsToPath(args) ==
    CASE Has(args, "path")  -> args
      [] Has(args, "paths") -> Put(Drop(args, "paths"), "path", FirstPath(args["paths"]))
      [] OTHER              -> Put(args, "path", ".")

SearchArgs(args) == PathsToPath(Renamed(Renamed(args, "description", "pattern"), "query", "pattern"))
GenericArgs(args) ==
    IF ~Has(args, "path") /\ Has(args, "paths") /\ args["paths"] = "one" THEN Put(args, "path", "first") ELSE args

(* remap_function_call_args of the whole answer.                           *)
Remapped(tool, args) ==
    CASE tool \in {"Grep", "Glob"} -> SearchArgs(args)
      [] tool = "Read" -> Renamed(args, "path", "file_path")
      [] tool = "LS"   -> IF Has(args, "path") THEN args ELSE Put(args, "path", ".")
      [] OTHER         -> GenericArgs(args)

(* remap_function_call_args of the stream, written out for Grep and Glob.  *)
StreamRemapped(tool, args) ==
    LET described == IF Has(args, "description") /\ ~Has(args, "pattern")
                     THEN Put(Drop(args, "description"), "pattern", args["description"])
                     ELSE Drop(args, "description")
        queried == IF Has(described, "query") /\ ~Has(described, "pattern")
                   THEN Put(Drop(described, "query"), "pattern", described["query"])
                   ELSE Drop(described, "query")
    IN  CASE tool = "EnterPlanMode" -> NoArgs
          [] tool \in {"Grep", "Glob"} -> PathsToPath(queried)
          [] OTHER -> Remapped(tool, args)

ToolName(tool) == IF tool = "search" THEN "Grep" ELSE tool

-----------------------------------------------------------------------------
Block(kind, text, tool, args, sig) ==
    [kind |-> kind, text |-> text, tool |-> tool, args |-> args, sig |-> sig]
Words(text) == Block("text", text, "none", NoArgs, 0)
Thought(text, sig) == Block("thought", text, "none", NoArgs, sig)
Add(d, blocks) == [d EXCEPT !.blocks = @ \o blocks]

(* parse_mcp_xml, repeated on what is left: the first opening tag and the  *)
(* first closing tag of the text. Between a closing tag and a later        *)
(* opening one the code slices backwards, which panics.                    *)
Place(text, token) == SelectInSeq(text, LAMBDA x : x.token = token)
RECURSIVE TextBlocks(_)
TextBlocks(text) ==
    LET open == Place(text, "o") close == Place(text, "c")
        before == IF open > 1 THEN <<Words(SubSeq(text, 1, open - 1))>> ELSE <<>>
        call == Block("xml", SubSeq(text, open, close), "mcp", NoArgs, 0)
    IN  IF open = 0 \/ close = 0 THEN IF text = <<>> THEN <<>> ELSE <<Words(text)>>
        ELSE IF close < open THEN <<Block("panic", text, "none", NoArgs, 0)>>
        ELSE before \o <<call>> \o TextBlocks(SubSeq(text, close + 1, Len(text)))

FlushText(d) ==
    LET blocks == TextBlocks(d.text)
    IN  [Add(d, blocks) EXCEPT !.text = <<>>, !.tool = @ \/ \E i \in DOMAIN blocks : blocks[i].kind = "xml"]

FlushThinking(d) ==
    IF d.thinking = <<>> /\ d.thinkingSig = 0 THEN d
    ELSE [Add(d, <<Thought(d.thinking, d.thinkingSig)>>) EXCEPT !.thinking = <<>>, !.thinkingSig = 0]

(* The signature kept from an empty text becomes a thought of its own.     *)
PushTrailing(d) ==
    IF d.trailing = 0 THEN d ELSE [Add(d, <<Thought(<<>>, d.trailing)>>) EXCEPT !.trailing = 0]

-----------------------------------------------------------------------------
Number == Len(waParts) + 1
Signature(part) == IF part.sig THEN Number ELSE 0
Tokens(part) == [i \in DOMAIN part.text |-> [token |-> part.text[i], of |-> Number]]

(* process_function_call: "search" is renamed, the arguments are remapped. *)
Call(d, part) ==
    LET before == PushTrailing(FlushText(FlushThinking(d)))
        tool == ToolName(part.tool)
    IN  [Add(before, <<Block("call", <<[token |-> "call", of |-> Number]>>, tool,
                             Remapped(tool, part.args), Signature(part))>>) EXCEPT !.tool = TRUE]

(* process_text of a thought, and of words. The signature that comes with  *)
(* words is pushed behind them; with an empty text it is kept.             *)
ThoughtText(d, part) ==
    LET flushed == FlushText(d)
        before == IF d.trailing = 0 THEN flushed ELSE PushTrailing(FlushThinking(flushed))
    IN  [before EXCEPT !.thinking = @ \o Tokens(part),
                       !.thinkingSig = IF part.sig THEN Number ELSE @]
\* Mutant of WordsText: the thoughts are not flushed before the words.
WordsTextUnflushed(d, part) ==
    IF part.text = <<>> THEN [d EXCEPT !.trailing = IF part.sig THEN Number ELSE @]
    ELSE LET before == IF d.trailing = 0 THEN d ELSE PushTrailing(FlushText(d))
             with == [before EXCEPT !.text = @ \o Tokens(part)]
         IN  IF part.sig THEN Add(FlushText(with), <<Thought(<<>>, Number)>>) ELSE with
WordsText(d, part) ==
    IF part.text = <<>> THEN [d EXCEPT !.trailing = IF part.sig THEN Number ELSE @]
    ELSE LET thought == FlushThinking(d)
             before == IF d.trailing = 0 THEN thought ELSE PushTrailing(FlushText(thought))
             with == [before EXCEPT !.text = @ \o Tokens(part)]
         IN  IF part.sig THEN Add(FlushText(with), <<Thought(<<>>, Number)>>) ELSE with

(* process_inline_data: an image without data leaves only the flush.       *)
Image(d, part) ==
    LET before == FlushThinking(d)
    IN  IF part.text = <<>> THEN before ELSE FlushText([before EXCEPT !.text = @ \o Tokens(part)])

Processed(d, part) ==
    CASE part.kind = "call"    -> Call(d, part)
      [] part.kind = "thought" -> ThoughtText(d, part)
      [] part.kind = "text"    -> WordsText(d, part)
      [] part.kind = "image"   -> Image(d, part)

(* process_grounding, then the flushes of process.                         *)
Grounded(d, searched) ==
    IF ~searched THEN d
    ELSE FlushText([FlushText(FlushThinking(d)) EXCEPT !.text = <<[token |-> "g", of |-> 0]>>])
Completed(d) == PushTrailing(FlushText(FlushThinking(d)))

Panicked(d) == \E i \in DOMAIN d.blocks : d.blocks[i].kind = "panic"
EndOf(d, end) == IF Panicked(d) THEN "panicked" ELSE end

-----------------------------------------------------------------------------
(* transform_openai_response: contents, thoughts and calls are gathered    *)
(* apart, names and arguments stay as they came.                           *)
Chosen(choice, part) ==
    CASE part.kind = "call"    -> [choice EXCEPT !.calls = Append(@, Number)]
      [] part.kind = "thought" -> [choice EXCEPT !.thoughts = @ \o Tokens(part)]
      [] OTHER                 -> [choice EXCEPT !.content = @ \o Tokens(part)]

(* The citations are the end of the content.                               *)
Closed(choice, searched) ==
    [choice EXCEPT !.content = @ \o IF searched THEN <<[token |-> "g", of |-> 0]>> ELSE <<>>]

StopReason(d, finish) ==
    CASE d.tool -> "tool_use" [] finish = "MAX_TOKENS" -> "max_tokens" [] OTHER -> "end_turn"
FinishReason(finish) ==
    CASE finish = "MAX_TOKENS" -> "length" [] finish = "SAFETY" -> "content_filter" [] OTHER -> "stop"

Part(part) ==
    /\ waEnd = "open" /\ Len(waParts) < MaxParts
    /\ waDoc' = Processed(waDoc, part)
    /\ waChoice' = Chosen(waChoice, part)
    /\ waParts' = Append(waParts, part)
    /\ waEnd' = EndOf(waDoc', "open")
    /\ UNCHANGED waReason

Finish(finish, searched) ==
    /\ waEnd = "open"
    /\ waDoc' = Completed(Grounded(waDoc, searched))
    /\ waChoice' = Closed(waChoice, searched)
    /\ waReason' = [claude |-> StopReason(waDoc', finish), openai |-> FinishReason(finish)]
    /\ waEnd' = EndOf(waDoc', "done")
    /\ UNCHANGED waParts

(* A body that cannot be read, parsed or converted: 502 or 500.            *)
Refuse ==
    /\ waEnd = "open" /\ waParts = <<>>
    /\ waEnd' = "refused"
    /\ UNCHANGED <<waDoc, waChoice, waParts, waReason>>

Next == \/ \E part \in Parts : Part(part)
        \/ \E finish \in {"STOP", "MAX_TOKENS", "SAFETY"}, searched \in BOOLEAN : Finish(finish, searched)
        \/ Refuse
        \/ waEnd # "open" /\ UNCHANGED waVars

-----------------------------------------------------------------------------
(* The state is of its types: every block and every token names the part   *)
(* it came from.                                                           *)
TypeOK ==
    /\ waEnd \in {"open", "done", "refused", "panicked"} /\ waDoc.tool \in BOOLEAN
    /\ {waDoc.thinkingSig, waDoc.trailing} \subseteq 0..Len(waParts)
    /\ \A i \in DOMAIN waDoc.blocks :
          /\ waDoc.blocks[i].kind \in {"text", "thought", "call", "xml", "panic"}
          /\ waDoc.blocks[i].sig \in 0..Len(waParts)
          /\ \A j \in DOMAIN waDoc.blocks[i].text : waDoc.blocks[i].text[j].of \in 0..Len(waParts)

(* What the message says so far, in order: its blocks, then what is still  *)
(* gathered. The thoughts and the text are never gathered both.            *)
Flat(seqs) == FlattenSeq(seqs)
Said(kinds) ==
    LET of(i) == IF waDoc.blocks[i].kind \in kinds THEN waDoc.blocks[i].text ELSE <<>>
        gathered == (IF "thought" \in kinds THEN waDoc.thinking ELSE <<>>)
                    \o (IF "text" \in kinds THEN waDoc.text ELSE <<>>)
    IN  Flat([i \in DOMAIN waDoc.blocks |-> of(i)]) \o gathered
Received(kinds) ==
    LET of(n) == IF waParts[n].kind \notin kinds THEN <<>>
                 ELSE IF waParts[n].kind = "call" THEN <<[token |-> "call", of |-> n]>>
                 ELSE [i \in DOMAIN waParts[n].text |-> [token |-> waParts[n].text[i], of |-> n]]
    IN  Flat([n \in DOMAIN waParts |-> of(n)])
Citations == IF waChoice.content # <<>> /\ Last(waChoice.content).token = "g"
             THEN <<[token |-> "g", of |-> 0]>> ELSE <<>>

(* The message says everything that was received, once and in its order:   *)
(* the tags of a call written as XML count as words of the call.           *)
MessageKept ==
    waEnd \in {"open", "done"} =>
        /\ Said({"text", "thought", "call", "xml"})
             = Received({"text", "thought", "call", "image"}) \o Citations
        /\ waDoc.text = <<>> \/ waDoc.thinking = <<>>
        /\ waEnd = "done" => waDoc.text = <<>> /\ waDoc.thinking = <<>> /\ waDoc.trailing = 0

(* The two formats tell the same answer: the words of the message (and of  *)
(* its calls written as XML) are the content of the completion, its        *)
(* thoughts the reasoning, its calls the calls; and only a message with a  *)
(* call stops for one.                                                     *)
FormatsAgree ==
    waEnd \in {"open", "done"} =>
        /\ Said({"text", "xml"}) = waChoice.content
        /\ Said({"thought"}) = waChoice.thoughts
        /\ [i \in DOMAIN Said({"call"}) |-> Said({"call"})[i].of] = waChoice.calls
        /\ waEnd = "done" =>
             (waReason.claude = "tool_use" <=> \E i \in DOMAIN waDoc.blocks : waDoc.blocks[i].kind \in {"call", "xml"})

(* A call has the arguments it would have in a stream, whichever spellings *)
(* the model used, except EnterPlanMode, which only the stream empties.    *)
CallsAsStreamed ==
    \A i \in DOMAIN waDoc.blocks :
        LET block == waDoc.blocks[i]
        IN  block.kind = "call" /\ block.tool # "EnterPlanMode" =>
               block.args = StreamRemapped(block.tool, waParts[block.text[1].of].args)

(* The last signature received is in the message or kept for it, unless it *)
(* came with an image. An earlier one may be replaced: two of them on      *)
(* thoughts that are joined, or two on empty texts.                        *)
LastSignatureKept ==
    LET signed == {n \in DOMAIN waParts : waParts[n].sig /\ waParts[n].kind # "image"}
        kept == {waDoc.blocks[i].sig : i \in DOMAIN waDoc.blocks} \union {waDoc.thinkingSig, waDoc.trailing}
    IN  waEnd \in {"open", "done"} /\ signed # {} =>
            (CHOOSE n \in signed : \A m \in signed : m <= n) \in kept
=============================================================================
