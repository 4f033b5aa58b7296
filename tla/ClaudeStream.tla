----------------------------- MODULE ClaudeStream -----------------------------
(***************************************************************************)
(* A Gemini stream turned into Claude events (mappers/claude/sse_stream.rs *)
(* and streaming/), closed by the handler when the upstream breaks         *)
(* (handlers/claude/streaming.rs), and collected into one JSON answer for  *)
(* a client that did not ask for a stream (mappers/claude/collector.rs).   *)
(*                                                                         *)
(* A text is a sequence of tokens: "t" for words, "o" and "c" for the      *)
(* opening and the closing tag of a tool call written as XML. Upstream     *)
(* data arrives one part at a time.                                        *)
(***************************************************************************)
EXTENDS Naturals, Sequences, SequencesExt, FiniteSets

CONSTANTS MaxParts      \* bound on the parts of one answer

Texts == {<<>>, <<"t">>, <<"o">>, <<"t", "o">>, <<"c">>, <<"c", "t">>,
          <<"o", "c">>, <<"t", "o", "c", "t">>}
Parts == [kind : {"text"}, text : Texts, sig : BOOLEAN]
         \union [kind : {"thinking"}, text : {<<>>, <<"t">>}, sig : BOOLEAN]
         \union [kind : {"call"}, text : {<<>>}, sig : BOOLEAN]
         \union [kind : {"grounding", "error"}, text : {<<>>}, sig : {FALSE}]

VARIABLES csState,      \* StreamingState: block, index, pending and trailing
                        \* signature, xml buffer (inXml: in_mcp_xml), grounding,
                        \* tool (used_tool), started, stopped
          csOut,        \* events handed to the client
          csParts,      \* parts received
          csMishap,     \* history: a call written as XML came after words in the same
                        \* buffer, or while a trailing signature was kept
          csEnd         \* "open", "done", "aborted" or "retried"

csVars == <<csState, csOut, csParts, csMishap, csEnd>>

Init == /\ csState = [block |-> "none", index |-> 0, pending |-> FALSE, trailing |-> FALSE,
                      xml |-> <<>>, inXml |-> FALSE, grounding |-> FALSE, tool |-> FALSE, started |-> FALSE, stopped |-> FALSE]
        /\ csOut = <<>> /\ csParts = <<>> /\ csMishap = FALSE /\ csEnd = "open"

-----------------------------------------------------------------------------
(* Every operator below returns the state and the events it emits.         *)
Yield(st, out) == [st |-> st, out |-> out]
Then(r, F(_)) == LET next == F(r.st) IN Yield(next.st, r.out \o next.out)

Event(name, what, i, size) == [event |-> name, what |-> what, index |-> i, size |-> size]
BlockStart(kind, i) == Event("start", kind, i, 0)
Delta(kind, i, size) == Event("delta", kind, i, size)
BlockStop(i) == Event("stop", "block", i, 0)
Message(name, what) == Event(name, what, 0, 0)

(* end_block: a thinking block is closed with the signature kept for it.   *)
\* Mutant of EndBlock: the index is advanced by the next start only.
EndBlockSameIndex(st) ==
    IF st.block = "none" THEN Yield(st, <<>>)
    ELSE Yield([st EXCEPT !.block = "none"], <<BlockStop(st.index)>>)
EndBlock(st) ==
    IF st.block = "none" THEN Yield(st, <<>>)
    ELSE LET signed == st.block = "thinking" /\ st.pending
         IN  Yield([st EXCEPT !.block = "none", !.index = @ + 1, !.pending = @ /\ ~signed],
                   (IF signed THEN <<Delta("signature", st.index, 0)>> ELSE <<>>)
                   \o <<BlockStop(st.index)>>)

StartBlock(st, kind) ==
    Then(EndBlock(st), LAMBDA s : Yield([s EXCEPT !.block = kind], <<BlockStart(kind, s.index)>>))

(* emit_trailing_signature: an empty thinking block carries it.            *)
EmitTrailing(st) ==
    IF ~st.trailing THEN Yield(st, <<>>)
    ELSE Then(Then(EndBlock(st),
                   LAMBDA s : Yield([s EXCEPT !.trailing = FALSE, !.block = "thinking"],
                                    <<BlockStart("thinking", s.index), Delta("signature", s.index, 0)>>)),
              EndBlock)

ProcessFunctionCall(st, size) ==
    Then(Then(StartBlock([st EXCEPT !.tool = TRUE], "function"),
              LAMBDA s : Yield(s, <<Delta("input", s.index, size)>>)), EndBlock)

ProcessThinking(st, text, sig) ==
    Then(Then(EmitTrailing(st), LAMBDA s : IF s.block = "thinking" THEN Yield(s, <<>>)
                                           ELSE StartBlock(s, "thinking")),
         LAMBDA s : Yield([s EXCEPT !.pending = @ \/ sig],
                          IF text = <<>> THEN <<>> ELSE <<Delta("thinking", s.index, Len(text))>>))

(* Words go to the open text block, or to a new one.                       *)
PlainText(st, size) ==
    Then(IF st.block = "text" THEN Yield(st, <<>>) ELSE StartBlock(st, "text"),
         LAMBDA s : Yield(s, <<Delta("text", s.index, size)>>))

(* A call written as XML is complete: the call is processed first, then a  *)
(* block is opened for the words before it, but the events of the words    *)
(* are handed out first.                                                   *)
\* Mutant of CallFromXml: the words around the call are forgotten.
CallAlone(st) ==
    Then(ProcessFunctionCall(st, 2), LAMBDA s : Yield([s EXCEPT !.xml = <<>>, !.inXml = FALSE], <<>>))
CallFromXml(st) ==
    LET opens == SelectInSeq(st.xml, LAMBDA x : x = "o")
        closes == SelectInSeq(st.xml, LAMBDA x : x = "c")
        call == ProcessFunctionCall(st, closes - opens + 1)
        cleared == [call.st EXCEPT !.xml = <<>>, !.inXml = FALSE]
        words(x, size) == IF size = 0 THEN Yield(x, <<>>) ELSE PlainText(x, size)
        prefix == words(cleared, opens - 1)
        suffix == words(prefix.st, Len(st.xml) - closes)
    IN  Yield(suffix.st, prefix.out \o call.out \o suffix.out)

ProcessText(st, text, sig) ==
    IF text = <<>>
    THEN IF sig THEN Then(EmitTrailing(st), LAMBDA s : Yield([s EXCEPT !.trailing = TRUE], <<>>))
                ELSE Yield(st, <<>>)
    ELSE LET flushed == EmitTrailing(st)
             buffered == [flushed.st EXCEPT !.inXml = TRUE, !.xml = @ \o text]
         IN  IF sig
             THEN Then(Then(flushed, LAMBDA s : StartBlock(s, "text")),
                       LAMBDA s : Then(Yield(s, <<Delta("text", s.index, Len(text))>>), EndBlock))
             ELSE IF Contains(text, "o") \/ st.inXml
             THEN IF Contains(buffered.xml, "c") THEN Then(Yield(buffered, flushed.out), CallFromXml)
                                                 ELSE Yield(buffered, <<>>)
             ELSE Then(flushed, LAMBDA s : PlainText(s, Len(text)))

ProcessPart(st, part) ==
    CASE part.kind = "call" -> Then(EmitTrailing(st), LAMBDA s : ProcessFunctionCall(s, 0))
      [] part.kind = "thinking" -> ProcessThinking(st, part.text, part.sig)
      [] part.kind = "text" -> ProcessText(st, part.text, part.sig)
      [] part.kind = "grounding" -> Yield([st EXCEPT !.grounding = TRUE], <<>>)

MessageStart(st) == IF st.started THEN Yield(st, <<>>)
                    ELSE Yield([st EXCEPT !.started = TRUE], <<Message("message_start", "start")>>)

(* The citations of a web search, in a text block of their own.            *)
EmitGrounding(st) ==
    IF ~st.grounding THEN Yield(st, <<>>)
    ELSE Yield([st EXCEPT !.index = @ + 1],
               <<BlockStart("text", st.index), Delta("text", st.index, 1), BlockStop(st.index)>>)

(* emit_finish: the open block is closed, a trailing signature gets its    *)
(* block. Words still buffered as XML stay behind. Without a reason the    *)
(* finish is forced; inside a block that counts as truncation.             *)
StopReason(st, reason) ==
    LET truncated == reason = "none" /\ st.block # "none"
    IN  IF truncated \/ reason = "MAX_TOKENS" THEN "max_tokens"
        ELSE IF st.tool THEN "tool_use" ELSE "end_turn"
Finish(st, reason) ==
    IF st.stopped THEN Yield(st, <<>>)
    ELSE Then(Then(Then(EndBlock(st), EmitTrailing), EmitGrounding),
              LAMBDA s : Yield([s EXCEPT !.stopped = TRUE],
                               <<Message("message_delta", StopReason(st, reason)),
                                 Message("message_stop", "stop")>>))

-----------------------------------------------------------------------------
Emit(r) == csState' = r.st /\ csOut' = csOut \o r.out

(* A data line with one part; after message_stop nothing is processed. An  *)
(* error object is passed on and nothing else changes.                     *)
Buffers(part) == /\ part.kind = "text" /\ part.text # <<>> /\ ~part.sig
                 /\ Contains(part.text, "o") \/ csState.inXml
Receive(part) ==
    LET buffer == csState.xml \o part.text
        complete == Contains(buffer, "c")
    IN  /\ csEnd = "open" /\ Len(csParts) < MaxParts /\ ~csState.stopped
        /\ csParts' = Append(csParts, part)
        /\ IF part.kind = "error" THEN Emit(Yield(csState, <<Message("error", "error")>>))
           ELSE Emit(Then(MessageStart(csState), LAMBDA s : ProcessPart(s, part)))
        /\ csMishap' = \/ csMishap
                       \/ Buffers(part) /\ complete /\ Head(buffer) # "o"
                       \/ Buffers(part) /\ ~complete /\ csState.trailing
        /\ UNCHANGED csEnd

(* A line with a finish reason.                                            *)
ReceiveFinish(reason) ==
    /\ csEnd = "open" /\ ~csState.stopped
    /\ Emit(Then(MessageStart(csState), LAMBDA s : Finish(s, reason)))
    /\ UNCHANGED <<csParts, csMishap, csEnd>>

(* [DONE], or the upstream stream ends.                                    *)
ForceStop ==
    /\ csEnd = "open"
    /\ Emit(Finish(csState, "none"))
    /\ csEnd' = "done"
    /\ UNCHANGED <<csParts, csMishap>>

(* The upstream breaks: before any data the request is retried; later the  *)
(* handler adds a block of its own, one above the highest index it has     *)
(* seen, and cuts the connection.                                          *)
Starts == {csOut[i].index : i \in {j \in DOMAIN csOut : csOut[j].event = "start"}}
NextIndex == IF Starts = {} THEN 0 ELSE Max(Starts) + 1
UpstreamBreaks ==
    /\ csEnd = "open"
    /\ IF csOut = <<>> THEN csEnd' = "retried" /\ UNCHANGED csOut
       ELSE /\ csEnd' = "aborted"
            /\ csOut' = csOut \o <<BlockStart("text", NextIndex), Delta("text", NextIndex, 1),
                                   BlockStop(NextIndex)>>
    /\ UNCHANGED <<csState, csParts, csMishap>>

Next == \/ \E part \in Parts : Receive(part)
        \/ \E reason \in {"STOP", "MAX_TOKENS"} : ReceiveFinish(reason)
        \/ ForceStop \/ UpstreamBreaks
        \/ csEnd # "open" /\ UNCHANGED csVars
Spec == Init /\ [][Next]_csVars

-----------------------------------------------------------------------------
TypeOK ==
    /\ csState.block \in {"none", "text", "thinking", "function"} /\ csState.index \in Nat
    /\ csState.xml \in Seq({"t", "o", "c"})
    /\ \A e \in ToSet(csOut) : e.event \in {"start", "delta", "stop", "message_start",
                                            "message_delta", "message_stop", "error"}
    /\ csParts \in Seq(Parts) /\ csMishap \in BOOLEAN
    /\ csEnd \in {"open", "done", "aborted", "retried"}

(* What the client sees is a well-formed sequence of blocks: blocks follow *)
(* one another with indices 0, 1, ..., a delta belongs to the open block   *)
(* and fits its kind, nothing precedes message_start, whatever parts come  *)
(* in whatever order (state.rs:140, part_processor.rs:22). The exception   *)
(* is the mishap above: words in front of a call written as XML are handed *)
(* out before it with a later index (part_processor.rs:203), and the       *)
(* events of a trailing signature are dropped when such a call begins      *)
(* (part_processor.rs:233). The notice of an abort is left aside: it may   *)
(* come while a block is open.                                             *)
Fits(kind, block) == \/ kind = block
                     \/ kind = "signature" /\ block = "thinking"
                     \/ kind = "input" /\ block = "function"
Watch(seen, e) ==
    CASE e.event = "start" -> [seen EXCEPT !.open = e.what,
              !.ok = @ /\ seen.begun /\ seen.open = "none" /\ e.index = seen.next]
      [] e.event = "delta" -> [seen EXCEPT !.ok = @ /\ e.index = seen.next /\ Fits(e.what, seen.open)]
      [] e.event = "stop" -> [seen EXCEPT !.open = "none", !.next = @ + 1,
              !.ok = @ /\ e.index = seen.next /\ seen.open # "none"]
      [] e.event = "message_start" -> [seen EXCEPT !.begun = TRUE, !.ok = @ /\ ~seen.begun]
      [] e.event = "message_stop" -> [seen EXCEPT !.ok = @ /\ seen.open = "none"]
      [] OTHER -> seen
Unwatched == [open |-> "none", next |-> 0, begun |-> FALSE, ok |-> TRUE]
Watched(out) ==
    LET seen[n \in 0..Len(out)] == IF n = 0 THEN Unwatched ELSE Watch(seen[n - 1], out[n])
    IN  seen[Len(out)]
BlocksNest ==
    LET own == IF csEnd = "aborted" THEN SubSeq(csOut, 1, Len(csOut) - 3) ELSE csOut
    IN  ~csMishap => Watched(own).ok

(* The JSON answer put together from the events has every word, thought    *)
(* and call the upstream sent, and ends with "end_turn" only when it has   *)
(* no call (collector.rs:70-233), or it fails with the error the upstream  *)
(* reported among them. The exceptions: the mishap above, and an opening   *)
(* tag that is never closed, which swallows the words after it             *)
(* (state_finish.rs:10: nobody empties the buffer).                        *)
Collect(a, e) ==
    IF a.end # "open" THEN a ELSE
    CASE e.event \in {"message_stop", "error"} -> [a EXCEPT !.end = IF e.event = "error" THEN "failed" ELSE "done"]
      [] e.event = "start" -> [a EXCEPT !.text = IF e.what = "text" THEN 0 ELSE @,
              !.thinking = IF e.what = "thinking" THEN 0 ELSE @,
              !.tool = @ \/ e.what = "function", !.input = IF e.what = "function" THEN 0 ELSE @]
      [] e.event = "delta" -> [a EXCEPT !.text = @ + IF e.what = "text" THEN e.size ELSE 0,
              !.thinking = @ + IF e.what = "thinking" THEN e.size ELSE 0,
              !.input = @ + IF e.what = "input" THEN e.size ELSE 0]
      [] e.event = "stop" /\ a.text > 0 -> [a EXCEPT !.text = 0, !.words = @ + a.text]
      [] e.event = "stop" /\ a.text = 0 /\ a.thinking > 0 ->
              [a EXCEPT !.thinking = 0, !.thoughts = @ + a.thinking]
      [] e.event = "stop" /\ a.text = 0 /\ a.thinking = 0 /\ a.tool ->
              [a EXCEPT !.tool = FALSE, !.calls = @ + 1, !.words = @ + a.input, !.input = 0]
      [] e.event = "message_delta" -> [a EXCEPT !.reason = e.what]
      [] OTHER -> a
Collected == FoldLeft(Collect, [text |-> 0, thinking |-> 0, tool |-> FALSE, input |-> 0,
                                words |-> 0, thoughts |-> 0, calls |-> 0, reason |-> "end_turn", end |-> "open"], csOut)
Sent(kind) == SelectSeq(csParts, LAMBDA p : p.kind = kind)
Size(parts) == FoldLeft(LAMBDA n, p : n + Len(p.text), 0, parts)
AnswerComplete ==
    csState.stopped /\ csEnd # "aborted" /\ ~csMishap /\ ~csState.inXml =>
        LET cited == IF Sent("grounding") = <<>> THEN 0 ELSE 1 IN
        \/ Collected.end = "failed" /\ Sent("error") # <<>>
        \/ /\ Collected.end = "done" /\ Sent("error") = <<>>
           /\ Collected.words = Size(Sent("text")) + cited
           /\ Collected.thoughts = Size(Sent("thinking"))
           /\ Collected.calls >= Len(Sent("call"))
           /\ Collected.reason = "end_turn" => Collected.calls = 0
=============================================================================
