----------------------------- MODULE OpenAIStream -----------------------------
(***************************************************************************)
(* An upstream stream told again in OpenAI's chunks (mappers/openai/       *)
(* streaming): the chat stream, also for Codex completions, and the legacy *)
(* stream of text completions; and the collector that makes one answer of  *)
(* the chat stream for clients that do not stream (mappers/openai/         *)
(* collector.rs). A part of the answer is its kind and its place in the    *)
(* stream; there is one candidate.                                         *)
(***************************************************************************)
EXTENDS Naturals, Sequences, FiniteSets, SequencesExt

CONSTANTS MaxLines      \* bound on upstream events

Calls == {"call a", "call b"}
Kinds == {"text", "thought", "image", "signature"} \union Calls
PartLists == {<<>>} \union {<<k>> : k \in Kinds} \union (Kinds \X Kinds)
Chunk(kind, what, finish) == [kind |-> kind, what |-> what, finish |-> finish]

VARIABLES osForm,       \* "chat" or "legacy"
          osParts,      \* history: the parts upstream has sent
          osFinished,   \* history: upstream has given a finish reason
          osLines,      \* how many events upstream has sent
          osUsage,      \* final_usage is set
          osSeen,       \* emitted_tool_calls
          osThinking,   \* accumulated_thinking
          osSigned,     \* thoughts for which the signature cache holds a signature
          osOut,        \* the chunks yielded
          osEnd         \* "open", "done", "aborted" or "too large"

osVars == <<osForm, osParts, osFinished, osLines, osUsage, osSeen, osThinking, osSigned, osOut, osEnd>>

Init == /\ osForm \in {"chat", "legacy"} /\ osParts = <<>> /\ osFinished = FALSE /\ osLines = 0
        /\ osUsage = FALSE /\ osSeen = {} /\ osThinking = <<>> /\ osSigned = {}
        /\ osOut = <<>> /\ osEnd = "open"

-----------------------------------------------------------------------------
(* process_candidate: text and thoughts gather until an image or a call, or*)
(* the end of the event, sends them on.                                    *)
If(condition, chunk) == IF condition THEN <<chunk>> ELSE <<>>
\* Mutant of Flushed: what has gathered waits for the end of the event.
Gathered(s) == s
Flushed(s) == [s EXCEPT !.out = @ \o If(s.thought # <<>>, Chunk("reasoning", s.thought, FALSE))
                                  \o If(s.content # <<>>, Chunk("content", s.content, FALSE)),
                        !.thought = <<>>, !.content = <<>>]
EmitCall(s, part) ==
    IF part.kind \in s.seen THEN s
    ELSE [s EXCEPT !.seen = @ \union {part.kind}, !.out = Append(@, Chunk("call", <<part.kind>>, FALSE))]
ProcessPart(s, part) ==
    CASE part.kind = "text" -> [s EXCEPT !.content = Append(@, part.place)]
      [] part.kind = "thought" -> [s EXCEPT !.thought = Append(@, part.place), !.thinking = Append(@, part.place)]
      [] part.kind = "signature" -> [s EXCEPT !.signed = IF s.thinking = <<>> THEN @ ELSE @ \union {s.thinking}]
      [] part.kind = "image" -> [Flushed(s) EXCEPT !.out = Append(@, Chunk("content", <<part.place>>, FALSE))]
      [] part.kind \in Calls -> EmitCall(Flushed(s), part)
ProcessCandidate(parts, finish) ==
    LET start == [content |-> <<>>, thought |-> <<>>, out |-> <<>>,
                  seen |-> osSeen, thinking |-> osThinking, signed |-> osSigned]
        s == FoldLeft(ProcessPart, start, parts)
    IN  [s EXCEPT !.out = @ \o If(s.thought # <<>>, Chunk("reasoning", s.thought, FALSE))
                            \o If(s.content # <<>> \/ finish, Chunk("content", s.content, finish))]

(* The legacy stream: the texts of an event, thoughts among them, in one   *)
(* chunk; calls and images have no place in it.                            *)
LegacyText(parts) == LET texts == SelectSeq(parts, LAMBDA p : p.kind \in {"text", "thought"})
                     IN  [i \in 1..Len(texts) |-> texts[i].place]

(* One event of upstream, with or without its finish reason and usage.     *)
Line(kinds, finish, usage) ==
    LET parts == [i \in 1..Len(kinds) |-> [kind |-> kinds[i], place |-> Len(osParts) + i]]
        s == ProcessCandidate(parts, finish)
    IN  /\ osEnd = "open" /\ osLines < MaxLines
        /\ osLines' = osLines + 1 /\ osParts' = osParts \o parts
        /\ osFinished' = (osFinished \/ finish) /\ osUsage' = (osUsage \/ usage)
        /\ IF osForm = "chat"
           THEN /\ osOut' = osOut \o s.out
                /\ osSeen' = s.seen /\ osThinking' = s.thinking /\ osSigned' = s.signed
           ELSE /\ osOut' = Append(osOut, Chunk("content", LegacyText(parts), finish))
                /\ UNCHANGED <<osSeen, osThinking, osSigned>>
        /\ UNCHANGED <<osForm, osEnd>>

Close(end, chunks) ==
    /\ osEnd = "open" /\ osEnd' = end /\ osOut' = osOut \o chunks
    /\ UNCHANGED <<osForm, osParts, osFinished, osLines, osUsage, osSeen, osThinking, osSigned>>
Usage == If(osUsage, Chunk("usage", <<>>, FALSE))
Done == Chunk("done", <<>>, FALSE)
Finish == Close("done", Append(Usage, Done))
(* The connection breaks: a notice, then the stream fails. The chat stream *)
(* still yields its usage.                                                 *)
Abort == Close("aborted", <<Chunk("content", <<0>>, FALSE)>> \o (IF osForm = "chat" THEN Usage ELSE <<>>))
(* More than 10 MB without a line end.                                     *)
Overflow == osForm = "chat" /\ Close("too large", <<Chunk("error", <<>>, FALSE), Done>> \o Usage)

(* The next answer.                                                        *)
Again == /\ osEnd # "open" /\ osForm' \in {"chat", "legacy"} /\ osParts' = <<>> /\ osFinished' = FALSE
         /\ osLines' = 0 /\ osUsage' = FALSE /\ osSeen' = {} /\ osThinking' = <<>> /\ osSigned' = {}
         /\ osOut' = <<>> /\ osEnd' = "open"

Next == \/ \E kinds \in PartLists, finish, usage \in BOOLEAN : Line(kinds, finish, usage)
        \/ Finish \/ Abort \/ Overflow \/ Again

Spec == Init /\ [][Next]_osVars

-----------------------------------------------------------------------------
(* collect_openai_stream_to_json: texts and thoughts are joined; every call*)
(* says it has the index 0, so the arguments of all of them end up in one. *)
Joined(kind) == FlattenSeq([i \in DOMAIN osOut |-> IF osOut[i].kind = kind THEN osOut[i].what ELSE <<>>])
Collected == [content |-> Joined("content"), reasoning |-> Joined("reasoning"), arguments |-> Joined("call"),
              finish |-> \E i \in DOMAIN osOut : osOut[i].finish]

TypeOK ==
    /\ osForm \in {"chat", "legacy"} /\ osLines \in 0..MaxLines /\ osSeen \subseteq Calls
    /\ osEnd \in {"open", "done", "aborted", "too large"} /\ {osUsage, osFinished} \subseteq BOOLEAN
    /\ \A i \in DOMAIN osOut : osOut[i].kind \in {"content", "reasoning", "call", "usage", "error", "done"}

Sent(kinds) == LET those == SelectSeq(osParts, LAMBDA p : p.kind \in kinds)
               IN  [i \in 1..Len(those) |-> those[i].place]
LastOf(kinds) == IF Sent(kinds) = <<>> THEN 0 ELSE Last(Sent(kinds))

(* A stream that ended well says what upstream said: texts and images in   *)
(* their order, the thoughts, the call if there is one kind of call, and a *)
(* finish reason if there was one; thoughts that a signature followed can  *)
(* be signed again when the client sends them back.                        *)
OpenAIAnswerKept ==
    osEnd = "done" =>
        /\ Collected.finish = osFinished
        /\ osForm = "legacy" => Collected.content = Sent({"text", "thought"})
        /\ osForm = "chat" =>
             /\ Collected.content = Sent({"text", "image"})
             /\ Collected.reasoning = Sent({"thought"})
             /\ \A c \in Calls : osSeen = {c} => Collected.arguments = <<c>>
             /\ LastOf({"signature"}) > LastOf({"thought"}) /\ Sent({"thought"}) # <<>>
                    => Collected.reasoning \in osSigned
=============================================================================
