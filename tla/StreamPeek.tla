------------------------------ MODULE StreamPeek ------------------------------
(***************************************************************************)
(* From the bytes of an upstream to what the client is given of them. A    *)
(* handler looks for the first data before it commits to an account        *)
(* (retry/peek.rs, handlers/gemini/streaming.rs); until then it can change *)
(* to another account unseen, afterwards the client has the answer as it   *)
(* comes, or, when it asked for no stream, once it has been collected.     *)
(*                                                                         *)
(* A chunk is a sequence of pieces: "d" a whole data line, "p" and "q" the *)
(* two halves of one, "b" a comment line (a heartbeat), "n" a blank line.  *)
(* A tick is 15 seconds, the interval of the pings of the Claude stream.   *)
(***************************************************************************)
EXTENDS Naturals, Sequences, SequencesExt, FiniteSets

CONSTANTS Cases,        \* what is asked for: [proto, stream]
          Limits,       \* by protocol: beats, single and total (ticks) of the peek
          MaxBuffer,    \* pieces a buffer may hold: 10 MB in the code
          MaxTries,     \* accounts that are tried
          MaxChunks     \* bound on the chunks of one upstream

Chunks == {<<>>, <<"n">>, <<"b">>, <<"d">>, <<"d", "d">>, <<"b", "d">>, <<"d", "b">>,
           <<"p">>, <<"q">>, <<"q", "d">>, <<"d", "p">>, <<"b", "p">>}

VARIABLES spCase, spPhase,      \* "new", "peek", "open" or "closed"
          spTry,                \* the attempt, one account each
          spUp,                 \* the upstream: chunks, begun (data lines), half (one is half sent), over
          spQueue,              \* what has arrived and is not read: a chunk, the end or a break
          spHalf,               \* the line whose first half is in the buffer, 0 for none
          spBeats, spIdle, spTotal,     \* heartbeats, ticks since the last item and since the peek began
          spLost,               \* history: lines with a piece in a chunk the peek has passed over
          spClient,             \* what the client, or the collector, has been given
          spEnd                 \* "none", "complete", "aborted", "failed" or "exhausted"

spVars == <<spCase, spPhase, spTry, spUp, spQueue, spHalf, spBeats, spIdle, spTotal, spLost, spClient, spEnd>>

NoUp == [chunks |-> 0, begun |-> 0, half |-> FALSE, over |-> "no"]
Init == /\ spCase = [proto |-> "none", stream |-> TRUE] /\ spPhase = "new" /\ spTry = 0 /\ spUp = NoUp
        /\ spQueue = <<>> /\ spHalf = 0 /\ spBeats = 0 /\ spIdle = 0 /\ spTotal = 0 /\ spLost = {}
        /\ spClient = <<>> /\ spEnd = "none"

-----------------------------------------------------------------------------
Is(proto) == spCase.proto = proto
Limit == Limits[spCase.proto]
Event(what, line) == [what |-> what, line |-> line, of |-> spTry]
Item(pieces, lines, over) == [pieces |-> pieces, lines |-> lines, over |-> over]
Asked == UNCHANGED spCase

(* The handler asks an account; the next one, or no more, on a retry.      *)
Fresh(try) == /\ spTry' = try /\ spUp' = NoUp /\ spQueue' = <<>> /\ spHalf' = 0 /\ spBeats' = 0
              /\ spIdle' = 0 /\ spTotal' = 0 /\ spLost' = {} /\ spClient' = <<>>
Ask(case) == /\ spPhase = "new" /\ spPhase' = "peek" /\ spCase' = case /\ Fresh(1) /\ UNCHANGED spEnd
Retry == /\ IF spTry < MaxTries THEN Fresh(spTry + 1) /\ spPhase' = "peek" /\ UNCHANGED spEnd
            ELSE Fresh(spTry) /\ spPhase' = "closed" /\ spEnd' = "exhausted"
         /\ Asked

-----------------------------------------------------------------------------
(* The upstream, external: a data line may be split between two chunks.    *)
(* The task that pumps it for Claude reads ahead by two chunks.            *)
Ahead == IF Is("claude") THEN 2 ELSE 1
Reading == spPhase \in {"peek", "open"} /\ spUp.over = "no" /\ Len(spQueue) < Ahead
Begins(piece) == piece \in {"d", "p"}
Numbers(chunk) ==
    LET begun(i) == spUp.begun + Cardinality({j \in 1..i : Begins(chunk[j])})
    IN  [i \in DOMAIN chunk |-> IF chunk[i] \in {"b", "n"} THEN 0 ELSE begun(i)]
Received(item, up) ==
    /\ spQueue' = Append(spQueue, item) /\ spUp' = up
    /\ UNCHANGED <<spCase, spPhase, spTry, spHalf, spBeats, spIdle, spTotal, spLost, spClient, spEnd>>
Arrive(chunk) ==
    /\ Reading /\ spUp.chunks < MaxChunks
    /\ chunk # <<>> => (spUp.half <=> chunk[1] = "q")
    /\ Received(Item(chunk, Numbers(chunk), "no"),
                [chunks |-> spUp.chunks + 1, over |-> "no",
                 begun |-> spUp.begun + Cardinality({i \in DOMAIN chunk : Begins(chunk[i])}),
                 half |-> IF chunk = <<>> THEN spUp.half ELSE Last(chunk) = "p"])
Over(how) == Reading /\ Received(Item(<<>>, <<>>, how), [spUp EXCEPT !.over = how])

-----------------------------------------------------------------------------
(* The lines of the buffer and a chunk behind it. The Gemini handler hands *)
(* lines that are no data on, the translations drop them.                  *)
SplitPiece(acc, piece) ==
    LET told(what) == [half |-> 0, out |-> Append(acc.out, Event(what, piece.line))]
    IN  CASE piece.kind = "p" -> [acc EXCEPT !.half = piece.line]
          [] piece.kind = "d" -> told("line")
          [] piece.kind = "q" -> told(IF acc.half = piece.line THEN "line" ELSE "torn")
          [] OTHER -> IF piece.kind = "b" /\ Is("gemini") THEN told("comment") ELSE acc
Split(item) ==
    FoldLeft(SplitPiece, [half |-> spHalf, out |-> <<>>],
             [i \in DOMAIN item.pieces |-> [kind |-> item.pieces[i], line |-> item.lines[i]]])
TooLarge(item) == Len(item.pieces) + (IF spHalf = 0 THEN 0 ELSE 1) > MaxBuffer /\ ~Is("completions")

(* What the stream that wraps the upstream yields for an item, and whether *)
(* it ends with an error. The Gemini handler adds nothing of its own.      *)
Yield(half, out, after) == [half |-> half, out |-> out, after |-> after]
Closing == CASE Is("claude") -> <<Event("stop", 0)>>
             [] Is("gemini") -> <<>>
             [] OTHER -> <<Event("done", 0)>>
\* Mutant of Broken: a broken upstream is closed like one that has ended.
BrokenGracefully == Yield(spHalf, Closing, "end")
Broken == Yield(spHalf, IF spCase.proto \in {"chat", "completions"} THEN <<Event("notice", 0)>> ELSE <<>>, "error")
Overflowed == IF Is("chat") THEN Yield(spHalf, <<Event("error", 0), Event("done", 0)>>, "end")
              ELSE Yield(spHalf, <<>>, "error")
Yielded(item) ==
    CASE item.over = "end" -> Yield(spHalf, Closing, "end")
      [] item.over = "break" -> Broken
      [] TooLarge(item) -> Overflowed
      [] OTHER -> LET split == Split(item) IN Yield(split.half, split.out, "more")

-----------------------------------------------------------------------------
(* peek_first_chunk of Gemini looks at whole chunks: one that begins with a*)
(* heartbeat, or is blank, is passed over with all that is in it.          *)
Trimmed(pieces) == SelectSeq(pieces, LAMBDA p : p # "n")
IsHeartbeat(item) == LET rest == Trimmed(item.pieces) IN rest # <<>> => Head(rest) = "b"
PassOver ==
    LET item == Head(spQueue)
    IN  /\ Is("gemini") /\ item.over = "no" /\ IsHeartbeat(item)
        /\ IF spBeats >= Limit.beats \/ spTotal > Limit.total THEN Retry
           ELSE /\ spBeats' = spBeats + 1 /\ spIdle' = 0 /\ spQueue' = Tail(spQueue)
                /\ spLost' = spLost \union (ToSet(item.lines) \ {0})
                /\ UNCHANGED <<spCase, spPhase, spTry, spUp, spHalf, spTotal, spClient, spEnd>>

(* After an error: Gemini drops the connection; Claude puts a notice before*)
(* that, or answers 500 when it collects; a collected chat is asked again; *)
(* text completions end with an error object and [DONE].                   *)
FailsToCollect(out) == [out |-> out, told |-> "failed"]
AfterError(out) ==
    CASE Is("claude") /\ ~spCase.stream -> FailsToCollect(out)
      [] Is("claude") -> [out |-> Append(out, Event("notice", 0)), told |-> "aborted"]
      [] Is("completions") -> [out |-> out \o <<Event("error", 0), Event("done", 0)>>, told |-> "complete"]
      [] OTHER -> [out |-> out, told |-> "aborted"]
CollectsAgain == Is("chat") /\ ~spCase.stream

(* The first chunk goes before the rest of the stream.                     *)
\* Mutant of Combined: the chunk the peek has taken is not given back.
CombinedWithoutFirst(out) == IF spPhase = "peek" THEN Tail(out) ELSE out
Combined(out) == out
Give(y) ==
    LET close == IF y.after = "error" THEN AfterError(Combined(y.out))
                 ELSE [out |-> Combined(y.out), told |-> IF y.after = "end" THEN "complete" ELSE "none"]
    IN  /\ spClient' = spClient \o close.out /\ spEnd' = close.told
        /\ spPhase' = IF close.told = "none" THEN "open" ELSE "closed"
        /\ spHalf' = y.half /\ spQueue' = Tail(spQueue) /\ spBeats' = 0 /\ spIdle' = 0 /\ spTotal' = 0
        /\ UNCHANGED <<spCase, spTry, spUp, spLost>>

(* An item of the upstream is read. Nothing yielded means that the peek of *)
(* a translated stream waits on, its timer running; the end of the wrapped *)
(* stream without data, or an error before any, is a reason to retry.      *)
Pass(y) == /\ spHalf' = y.half /\ spQueue' = Tail(spQueue)
           /\ UNCHANGED <<spCase, spPhase, spTry, spUp, spBeats, spIdle, spTotal, spLost, spClient, spEnd>>
Read ==
    /\ spQueue # <<>> /\ spPhase \in {"peek", "open"}
    /\ LET item == Head(spQueue)
           y == Yielded(item)
           peeking == spPhase = "peek"
       IN  \/ peeking /\ PassOver
           \/ /\ peeking /\ Is("gemini") /\ item.over # "no" /\ Retry
           \/ /\ peeking /\ Is("gemini") /\ item.over = "no" /\ ~IsHeartbeat(item) /\ Give(y)
           \/ /\ peeking /\ ~Is("gemini")
              /\ CASE y.out = <<>> /\ y.after = "more" -> Pass(y)
                   [] y.out = <<>> /\ y.after # "more" -> Retry
                   [] y.out # <<>> /\ y.after = "error" /\ CollectsAgain -> Retry
                   [] OTHER -> Give(y)
           \/ /\ ~peeking
              /\ IF y.after = "error" /\ CollectsAgain THEN Retry ELSE Give(y)

-----------------------------------------------------------------------------
(* Time passes in the peek. The Claude stream pings at every tick; the     *)
(* other peeks run into the timeout of a single chunk.                     *)
Ping ==
    /\ spPhase = "peek" /\ Is("claude")
    /\ IF spBeats + 1 >= Limit.beats \/ spTotal + 1 > Limit.total THEN Retry
       ELSE /\ spBeats' = spBeats + 1 /\ spTotal' = spTotal + 1 /\ spIdle' = 0
            /\ UNCHANGED <<spCase, spPhase, spTry, spUp, spQueue, spHalf, spLost, spClient, spEnd>>
Tick ==
    /\ spPhase = "peek" /\ ~Is("claude") /\ spQueue = <<>>
    /\ IF spIdle + 1 > Limit.single THEN Retry
       ELSE /\ spIdle' = spIdle + 1 /\ spTotal' = spTotal + 1
            /\ UNCHANGED <<spCase, spPhase, spTry, spUp, spQueue, spHalf, spBeats, spLost, spClient, spEnd>>

Next == \/ \E case \in Cases : Ask(case)
        \/ \E chunk \in Chunks : Arrive(chunk)
        \/ \E how \in {"end", "break"} : Over(how)
        \/ Read \/ Ping \/ Tick
        \/ spPhase = "closed" /\ UNCHANGED spVars

Spec == Init /\ [][Next]_spVars

-----------------------------------------------------------------------------
TypeOK ==
    /\ spPhase \in {"new", "peek", "open", "closed"} /\ spTry \in 0..MaxTries
    /\ spQueue \in Seq([pieces : Chunks, lines : Seq(Nat), over : {"no", "end", "break"}]) /\ Len(spQueue) <= 2
    /\ {spHalf, spBeats, spIdle, spTotal} \subseteq Nat
    /\ spEnd \in {"none", "complete", "aborted", "failed", "exhausted"} /\ (spPhase = "closed" <=> spEnd # "none")

Told(what) == {i \in DOMAIN spClient : spClient[i].what = what}
Whole == {spClient[i].line : i \in Told("line")}
InQueue == UNION {ToSet(spQueue[i].lines) : i \in DOMAIN spQueue}

(* Every whole data line of the account that is committed to is told once  *)
(* and in order; but for what shared a chunk with a heartbeat in Gemini's  *)
(* peek, and a last line without its end (handlers/gemini/streaming.rs:56).*)
LinesKept ==
    /\ \A i \in Told("line"), j \in Told("line") : i < j => spClient[i].line < spClient[j].line
    /\ spPhase = "open" => 1..spUp.begun \subseteq Whole \union spLost \union InQueue \union {spHalf}
    /\ spEnd = "complete" /\ spUp.over = "end" =>
           1..spUp.begun \subseteq Whole \union spLost \union (IF spUp.half THEN {spUp.begun} ELSE {})
    /\ spLost # {} => Is("gemini")
    /\ \A i \in Told("torn") : spClient[i].line \in spLost

(* Nothing of the answer of an account that was given up reaches the       *)
(* client, nor anything before an account is committed to.                 *)
OneAnswer == /\ \A i \in DOMAIN spClient : spClient[i].of = spTry
             /\ spPhase = "peek" \/ spEnd = "exhausted" => spClient = <<>>

(* An answer that was cut is never told as a complete one: the connection  *)
(* breaks, the request fails or an error is told. The exception is an      *)
(* answer that outgrew the buffer and is collected for a chat client, whose*)
(* collector does not look at errors (mappers/openai/collector.rs:70).     *)
CutIsTold ==
    spPhase = "closed" /\ spEnd # "exhausted" /\ spUp.over # "end" =>
        \/ spEnd \in {"aborted", "failed"}
        \/ spEnd = "complete" /\ Told("error") # {} /\ spCase.stream
        \/ Is("chat") /\ ~spCase.stream /\ spUp.over = "no"

(* A marker of the end stands at the end, and for Claude only after the    *)
(* upstream has ended.                                                     *)
MarkedAtEnd ==
    \A i \in Told("stop") \union Told("done") :
        i = Len(spClient) /\ spPhase = "closed" /\ (spClient[i].what = "stop" => spUp.over = "end")

PeekSound == LinesKept /\ OneAnswer /\ CutIsTold /\ MarkedAtEnd
=============================================================================
