--------------------------- MODULE SignatureCache ---------------------------
(***************************************************************************)
(* The signatures upstream puts on thoughts, kept so that a conversation   *)
(* can go on (signature_cache/): four maps in memory, and the rows by      *)
(* content in PostgreSQL, written by tasks of their own. A Claude stream   *)
(* (claude/streaming), an OpenAI stream (openai/streaming) or a Gemini     *)
(* answer fills them; a client that sends a thought back without its       *)
(* signature has it looked up by the text, for OpenAI after a preload.     *)
(*                                                                         *)
(* A signature is its length; a text the sequence of the pieces it came in.*)
(* The rows by session are written and never read: they are left out, and  *)
(* so is the one signature of signature_store.rs, which nobody asks for.   *)
(***************************************************************************)
EXTENDS Naturals, FiniteSets, TLC, Functions, SequencesExt

CONSTANTS Parts,        \* of an answer: [kind, text, sig], sig 0 for none
          Length,       \* of each piece
          Ttl,          \* SIGNATURE_TTL, in days
          Limit,        \* of each map: TOOL_CACHE_LIMIT, FAMILY_CACHE_LIMIT, ...
          MaxParts, MaxDays, MaxRestarts    \* bounds

MinSignature == 50      \* MIN_SIGNATURE_LENGTH
Caches == {"tool", "family", "session", "content"}
Size(text) == FoldLeft(LAMBDA n, piece : n + Length[piece], 0, text)

VARIABLES scNow, scRestarts,
          scDb,         \* whether db_pool is set
          scMemory,     \* cache -> key -> [sig, at]
          scRows, scWrites,     \* thinking_signatures; the spawned writes under way
          scAnswer,     \* the answer under way: protocol, parts, accumulated_thinking,
                        \* trailing_signature, day it began
          scAsk,        \* a follow-up request: text, where it is, the row read
          scShown, scGone, scCount
          \* history: texts a client may send back and when their answer began;
          \* those whose answer ended before the last restart; parts so far

scVars == <<scNow, scRestarts, scDb, scMemory, scRows, scWrites, scAnswer, scAsk, scShown, scGone, scCount>>

NoAnswer == [protocol |-> "none", parts |-> <<>>, thinking |-> <<>>, trailing |-> 0, day |-> 0]
NoAsk == [at |-> "none", text |-> <<>>, preloads |-> FALSE, failed |-> FALSE, row |-> 0]
Nothing == [cache \in Caches |-> <<>>]

Init == /\ scNow = 0 /\ scRestarts = 0 /\ scDb \in BOOLEAN
        /\ scMemory = Nothing /\ scRows = <<>> /\ scWrites = {}
        /\ scAnswer = NoAnswer /\ scAsk = NoAsk
        /\ scShown = <<>> /\ scGone = {} /\ scCount = 0

-----------------------------------------------------------------------------
IsExpired(entry) == scNow - entry.at > Ttl
Entry(sig) == [sig |-> sig, at |-> scNow]

(* Above its limit a map loses what is expired, and only that.             *)
\* Mutant of Cleaned: everything goes.
ClearedAll(map) == IF Cardinality(DOMAIN map) > Limit THEN <<>> ELSE map
Cleaned(map) == IF Cardinality(DOMAIN map) > Limit
                THEN Restrict(map, {k \in DOMAIN map : ~IsExpired(map[k])})
                ELSE map
Stored(map, key, sig) == (key :> Entry(sig)) @@ map

(* The operators below take and return what is in memory and on its way to *)
(* the database.                                                           *)
Put(m, cache, key, sig) ==
    IF sig < MinSignature THEN m
    ELSE [m EXCEPT !.memory[cache] = Cleaned(Stored(@, key, sig))]

(* cache_content_signature: by its text, if that is long enough.           *)
PutContent(m, text, sig) ==
    IF sig < MinSignature \/ Size(text) < 20 THEN m
    ELSE [Put(m, "content", text, sig) EXCEPT
             !.writes = IF scDb THEN @ \union {[text |-> text, sig |-> sig]} ELSE @]

(* cache_session_signature: the longest one wins while it lasts.           *)
PutSession(m, sig) ==
    LET map == m.memory.session
        better == "s" \notin DOMAIN map \/ IsExpired(map["s"]) \/ sig > map["s"].sig
    IN  IF sig < MinSignature THEN m
        ELSE [m EXCEPT !.memory.session = Cleaned(IF better THEN Stored(map, "s", sig) ELSE map)]

-----------------------------------------------------------------------------
(* Claude (part_processor.rs, function_call_processor.rs): a kept trailing *)
(* signature goes to the session first. A signed thought is put under the  *)
(* thoughts since the last signature, which it takes.                      *)
Trailing(m, answer) == IF answer.trailing = 0 THEN m ELSE PutSession(m, answer.trailing)
\* Mutant of Taken: get_accumulated_thinking leaves the text where it is.
NotTaken(thinking, sig) == thinking
Taken(thinking, sig) == IF sig = 0 THEN thinking ELSE <<>>
PutClaude(m, answer, part) ==
    LET text == answer.thinking \o part.text
        signed == IF part.kind = "thought" /\ part.sig > 0
                  THEN LET family == Put(m, "family", part.sig, part.sig)
                       IN  IF text = <<>> THEN family ELSE PutContent(family, text, part.sig)
                  ELSE IF part.kind = "call" THEN Put(m, "tool", answer.parts, part.sig) ELSE m
    IN  IF part.kind = "signature" \/ part.sig = 0 THEN m ELSE PutSession(signed, part.sig)
AfterClaude(answer, part) ==
    [answer EXCEPT !.parts = Append(@, part),
                   !.trailing = IF part.kind = "signature" THEN part.sig ELSE 0,
                   !.thinking = IF part.kind = "thought" THEN Taken(@ \o part.text, part.sig) ELSE @]

(* OpenAI (candidate_processor.rs): whatever part carries the signature, it*)
(* is put under all thoughts so far; before the first one it is dropped.   *)
Thoughts(answer, part) == IF part.kind = "thought" THEN answer.thinking \o part.text ELSE answer.thinking
PutOpenAI(m, answer, part) ==
    LET text == Thoughts(answer, part)
    IN  IF part.sig = 0 \/ text = <<>> THEN m
        ELSE PutSession(Put(PutContent(m, text, part.sig), "family", part.sig, part.sig), part.sig)
AfterOpenAI(answer, part) ==
    [answer EXCEPT !.parts = Append(@, part), !.thinking = Thoughts(answer, part)]

(* extract_signature of the Gemini handler: the session only.              *)
PutGemini(m, part) == IF part.sig = 0 THEN m ELSE PutSession(m, part.sig)

Current == [memory |-> scMemory, writes |-> scWrites]
Becomes(m) == scMemory' = m.memory /\ scWrites' = m.writes

Begin(protocol) ==
    /\ scAnswer = NoAnswer /\ scCount < MaxParts
    /\ scAnswer' = [NoAnswer EXCEPT !.protocol = protocol, !.day = scNow]
    /\ UNCHANGED <<scNow, scRestarts, scDb, scMemory, scRows, scWrites, scAsk, scShown, scGone, scCount>>

Receive(part) ==
    /\ scAnswer # NoAnswer /\ scCount < MaxParts /\ scCount' = scCount + 1
    /\ CASE scAnswer.protocol = "claude" ->
                /\ Becomes(PutClaude(Trailing(Current, scAnswer), scAnswer, part))
                /\ scAnswer' = AfterClaude(scAnswer, part)
         [] scAnswer.protocol = "openai" ->
                /\ Becomes(PutOpenAI(Current, scAnswer, part))
                /\ scAnswer' = AfterOpenAI(scAnswer, part)
         [] scAnswer.protocol = "gemini" ->
                Becomes(PutGemini(Current, part)) /\ scAnswer' = scAnswer
    /\ UNCHANGED <<scNow, scRestarts, scDb, scRows, scAsk, scShown, scGone>>

(* What the client was shown as a whole and upstream signed as a whole. An *)
(* OpenAI client has all thoughts of the answer in one, which must not go  *)
(* on after the last signature. A Claude client has a block for each run of*)
(* thoughts: it must end with its only signature, and no thought before it *)
(* may have gone unsigned.                                                 *)
ThoughtsAt(parts, run) ==
    FoldLeft(LAMBDA text, i : IF i \in run /\ parts[i].kind = "thought" THEN text \o parts[i].text ELSE text,
             <<>>, [i \in DOMAIN parts |-> i])
SignedRuns(parts) ==
    LET IsThought(i) == i \in DOMAIN parts /\ parts[i].kind = "thought"
        Before(i) == {j \in 1..(i - 1) : IsThought(j)}
        Clean(i) == Before(i) = {} \/ parts[Max(Before(i))].sig > 0
    IN  {i..j : <<i, j>> \in
            {p \in (DOMAIN parts) \X (DOMAIN parts) :
                /\ p[1] <= p[2] /\ \A k \in p[1]..p[2] : IsThought(k)
                /\ ~IsThought(p[1] - 1) /\ ~IsThought(p[2] + 1) /\ Clean(p[1])
                /\ parts[p[2]].sig >= MinSignature /\ \A k \in p[1]..(p[2] - 1) : parts[k].sig = 0}}
SignedWhole(parts) ==
    LET signed == {i \in DOMAIN parts : parts[i].sig > 0}
    IN  IF signed # {} /\ parts[Max(signed)].sig >= MinSignature
           /\ \A i \in DOMAIN parts : i > Max(signed) => parts[i].kind # "thought"
        THEN {DOMAIN parts} ELSE {}
Regular == LET runs == CASE scAnswer.protocol = "claude" -> SignedRuns(scAnswer.parts)
                         [] scAnswer.protocol = "openai" -> SignedWhole(scAnswer.parts)
                         [] scAnswer.protocol = "gemini" -> {}
           IN  {t \in {ThoughtsAt(scAnswer.parts, r) : r \in runs} : Size(t) >= 20}

(* The stream ends: emit_finish gives a trailing signature to the session. *)
End == /\ scAnswer # NoAnswer
       /\ Becomes(Trailing(Current, scAnswer))
       /\ scShown' = [t \in Regular |-> scAnswer.day] @@ scShown
       /\ scGone' = scGone \ Regular
       /\ scAnswer' = NoAnswer
       /\ UNCHANGED <<scNow, scRestarts, scDb, scRows, scAsk, scCount>>

-----------------------------------------------------------------------------
(* A spawned write reaches the database, in no particular order, or fails. *)
Write(w) == /\ w \in scWrites /\ scWrites' = scWrites \ {w}
            /\ scRows' = (w.text :> w.sig) @@ scRows
            /\ UNCHANGED <<scNow, scRestarts, scDb, scMemory, scAnswer, scAsk, scShown, scGone, scCount>>

(* A client sends a text back. preload_signatures_from_db skips what is in *)
(* memory, expired or not; a row that is found is put there, without       *)
(* cleaning up; then get_content_signature looks.                          *)
Ask(text, preloads) ==
    /\ scAsk = NoAsk /\ text \in DOMAIN scShown
    /\ LET reads == preloads /\ scDb /\ text \notin DOMAIN scMemory.content
       IN  scAsk' = [NoAsk EXCEPT !.at = IF reads THEN "read" ELSE "get", !.text = text, !.preloads = preloads]
    /\ UNCHANGED <<scNow, scRestarts, scDb, scMemory, scRows, scWrites, scAnswer, scShown, scGone, scCount>>

ReadRow ==
    /\ scAsk.at = "read"
    /\ \E answers \in BOOLEAN :
           scAsk' = IF answers /\ scAsk.text \in DOMAIN scRows
                    THEN [scAsk EXCEPT !.at = "insert", !.row = scRows[scAsk.text]]
                    ELSE [scAsk EXCEPT !.at = "get", !.failed = ~answers]
    /\ UNCHANGED <<scNow, scRestarts, scDb, scMemory, scRows, scWrites, scAnswer, scShown, scGone, scCount>>

\* Mutant of InsertRow: the row is used only to mark it as used.
InsertNothing ==
    /\ scAsk.at = "insert" /\ scAsk' = [scAsk EXCEPT !.at = "get"]
    /\ UNCHANGED <<scNow, scRestarts, scDb, scMemory, scRows, scWrites, scAnswer, scShown, scGone, scCount>>
InsertRow ==
    /\ scAsk.at = "insert" /\ scAsk' = [scAsk EXCEPT !.at = "get"]
    /\ scMemory' = [scMemory EXCEPT !.content = Stored(@, scAsk.text, scAsk.row)]
    /\ UNCHANGED <<scNow, scRestarts, scDb, scRows, scWrites, scAnswer, scShown, scGone, scCount>>

Found(text) == text \in DOMAIN scMemory.content /\ ~IsExpired(scMemory.content[text])
Lookup == /\ scAsk.at = "get" /\ scAsk' = NoAsk
          /\ UNCHANGED <<scNow, scRestarts, scDb, scMemory, scRows, scWrites, scAnswer, scShown, scGone, scCount>>

(* handle_thinking_signature_error: a signature of the client's own is put *)
(* into the session's map.                                                 *)
Preserve(sig) ==
    /\ scMemory' = PutSession(Current, sig).memory
    /\ UNCHANGED <<scNow, scRestarts, scDb, scRows, scWrites, scAnswer, scAsk, scShown, scGone, scCount>>

(* A restart loses the memory and the writes under way.                    *)
Restart ==
    /\ scRestarts < MaxRestarts /\ scRestarts' = scRestarts + 1
    /\ scMemory' = Nothing /\ scWrites' = {} /\ scAnswer' = NoAnswer /\ scAsk' = NoAsk
    /\ scGone' = DOMAIN scShown
    /\ UNCHANGED <<scNow, scDb, scRows, scShown, scCount>>

Day == /\ scNow < MaxDays /\ scNow' = scNow + 1
       /\ UNCHANGED <<scRestarts, scDb, scMemory, scRows, scWrites, scAnswer, scAsk, scShown, scGone, scCount>>

Fail(w) == /\ w \in scWrites /\ scWrites' = scWrites \ {w}
           /\ UNCHANGED <<scNow, scRestarts, scDb, scMemory, scRows, scAnswer, scAsk, scShown, scGone, scCount>>

Next == \/ \E protocol \in {"claude", "openai", "gemini"} : Begin(protocol)
        \/ \E part \in Parts : Receive(part)
        \/ \E w \in scWrites : Write(w) \/ Fail(w)
        \/ \E text \in DOMAIN scShown, preloads \in BOOLEAN : Ask(text, preloads)
        \/ \E part \in Parts : part.kind = "thought" /\ Preserve(part.sig)
        \/ End \/ ReadRow \/ InsertRow \/ Lookup \/ Restart \/ Day
Spec == Init /\ [][Next]_scVars

-----------------------------------------------------------------------------
TypeOK == /\ scNow \in 0..MaxDays /\ scRestarts \in 0..MaxRestarts /\ scDb \in BOOLEAN
          /\ \A cache \in Caches : \A k \in DOMAIN scMemory[cache] :
                 scMemory[cache][k].sig >= MinSignature /\ scMemory[cache][k].at \in 0..scNow
          /\ \A k \in DOMAIN scMemory.content \union DOMAIN scRows : Size(k) >= 20
          /\ scAsk.at \in {"none", "read", "insert", "get"}

(* A thought the client sends back as it was shown and signed is found     *)
(* again, whatever came between (content.rs:68, part_processor.rs:118,     *)
(* candidate_processor.rs:116), unless it is too old, or it was shown      *)
(* before a restart and its row is missing, unread or not looked for.      *)
ThoughtRegained ==
    scAsk.at = "get" /\ ~Found(scAsk.text) =>
        \/ scNow - scShown[scAsk.text] > Ttl
        \/ /\ scAsk.text \in scGone
           /\ ~scAsk.preloads \/ scAsk.failed \/ scAsk.text \notin DOMAIN scRows

(* While the process lives an entry leaves memory only when it is expired, *)
(* and a session's signature gives way only to a longer one                *)
(* (session.rs:12, mod.rs:84).                                             *)
SignaturesStay ==
    scRestarts' = scRestarts =>
        \A cache \in Caches : \A k \in DOMAIN scMemory[cache] :
            ~IsExpired(scMemory[cache][k]) =>
                /\ k \in DOMAIN scMemory'[cache]
                /\ cache = "session" => scMemory'[cache][k].sig >= scMemory[cache][k].sig
=============================================================================
