---------------------------- MODULE ToolResults ----------------------------
(***************************************************************************)
(* What of a tool's result reaches the model                               *)
(* (mappers/tool_result_compressor, claude/request/tool_result_handler):   *)
(* its blocks are taken one by one, each text shortened to what is left of *)
(* the limit, until the limit is used up; then their texts are joined, cut *)
(* once more, and images travel beside. A block is its kind and lengths.   *)
(***************************************************************************)
EXTENDS Integers, FiniteSetsExt, SequencesExt

CONSTANTS Blocks,       \* those a result may hold
          MaxBlocks     \* bound on their number

Limit == 200000         \* MAX_TOOL_RESULT_CHARS
Note == 30              \* "\n...[truncated N chars]", "\n...[truncated output]", the marker of an image
Smaller(a, b) == IF a < b THEN a ELSE b
Larger(a, b) == IF a > b THEN a ELSE b

VARIABLES trBlocks,     \* the blocks of the tool's answer met so far
          trBuilt,
          trUsed, trKept,   \* used_chars and cleaned_blocks: the kept length of each
          trStopped, trText, trImages   \* the function response's text and the parts after it

trVars == <<trBlocks, trBuilt, trUsed, trKept, trStopped, trText, trImages>>

Init == /\ trBlocks = <<>> /\ trBuilt = FALSE /\ trUsed = 0 /\ trKept = <<>> /\ trStopped = FALSE
        /\ trText = 0 /\ trImages = 0

-----------------------------------------------------------------------------
(* truncate_text_safe: at the limit, or before a tag open there, however   *)
(* far back it starts; and a note of what was cut, beyond the limit.       *)
Truncated(length, open, max) ==
    IF length <= max THEN length
    ELSE (IF open > 0 /\ open < max THEN open - 1 ELSE max) + Note

(* compact_browser_snapshot: head and tail within a budget of their own.   *)
Meta == 65
Budget(max) == Smaller(max, 16000) - Meta - 200
IsSummarized(b, length, max) ==
    /\ b.kind = "snapshot" /\ length > 20000
    /\ Smaller(max, 16000) >= 2000 /\ Budget(max) >= 1000
HeadLength(max) == Smaller(10000, Larger(500, (Budget(max) * 7) \div 10))
TailLength(max) == Smaller(3000, Budget(max) - HeadLength(max))
Summary(max) == Meta + HeadLength(max) + TailLength(max) + 3 * Note

(* compact_tool_result_text.                                               *)
Compacted(b, max) ==
    LET clean == IF b.kind = "html" THEN b.clean ELSE b.length IN
    IF b.length <= max THEN b.length
    ELSE IF clean <= max THEN clean
    ELSE IF b.kind = "notice" THEN Truncated(b.clean, 0, max)
    ELSE IF IsSummarized(b, clean, max) THEN Truncated(Summary(max), 0, max)
    ELSE Truncated(clean, b.open, max)

(* sanitize_tool_result_blocks: one turn of its loop.                      *)
IsText(b) == b.kind \notin {"image", "other"}
SizeOf(b) == IF b.kind = "image" THEN b.length ELSE 100
Room == Limit - trUsed
Process(b) ==
    LET kept == IF IsText(b) THEN Compacted(b, Room) ELSE b.length
        used == trUsed + (IF IsText(b) THEN kept ELSE SizeOf(b))
    IN  /\ Len(trBlocks) < MaxBlocks /\ ~trStopped /\ ~trBuilt
        /\ trBlocks' = Append(trBlocks, b) /\ trUsed' = used
        /\ trKept' = Append(trKept, kept) /\ trStopped' = (used >= Limit)
        /\ UNCHANGED <<trBuilt, trText, trImages>>

(* extract_content_and_images: the texts and a marker for each image,      *)
(* joined by newlines; with neither, what is left as JSON.                 *)
Kept == DOMAIN trKept
Speaks(b) == IsText(b) \/ b.kind = "image"
Joined == IF \E i \in Kept : Speaks(trBlocks[i])
          THEN FoldLeft(LAMBDA n, i : n + (IF IsText(trBlocks[i]) THEN trKept[i] ELSE Note) + 1, 0,
                        SetToSortSeq({i \in Kept : Speaks(trBlocks[i])}, LAMBDA i, j : i < j)) - 1
          ELSE FoldLeft(+, 0, trKept)

(* truncate_if_needed and ensure_non_empty.                                *)
NotCut(length) == length
Cut(length) == Smaller(length, Limit)
Filled(length) == IF length = 0 THEN Note ELSE length
Build == /\ ~trBuilt /\ trBuilt' = TRUE
         /\ trText' = Filled(Cut(Joined))
         /\ trImages' = Cardinality({i \in Kept : trBlocks[i].kind = "image"})
         /\ UNCHANGED <<trBlocks, trUsed, trKept, trStopped>>

Done == trBuilt /\ UNCHANGED trVars
Next == (\E b \in Blocks : Process(b)) \/ Build \/ Done
Spec == Init /\ [][Next]_trVars

-----------------------------------------------------------------------------
TypeOK == /\ trBlocks \in Seq(Blocks) /\ trBuilt \in BOOLEAN /\ trUsed \in Nat /\ trKept \in Seq(Nat)
          /\ trStopped \in BOOLEAN /\ trText \in Nat /\ trImages \in 0..MaxBlocks

(* The model is never given an empty result nor more than the limit; a     *)
(* result that fits is given whole; and texts alone take no more than the  *)
(* limit and one note while they are gathered.                             *)
Whole == FoldLeft(LAMBDA n, b : n + (IF IsText(b) THEN b.length ELSE SizeOf(b)) + 1, 0, trBlocks)
ResultsFit == trBuilt =>
    /\ trText \in 1..Limit
    /\ Whole <= Limit => \A i \in Kept : trKept[i] = trBlocks[i].length
    /\ (\A i \in Kept : IsText(trBlocks[i])) => trUsed <= Limit + Note
=============================================================================
