------------------------------- MODULE StateBlob -------------------------------
(***************************************************************************)
(* The IDE's saved state, a protobuf message in which field 6 holds the    *)
(* OAuth tokens (utils/protobuf.rs): a token is written into it            *)
(* (modules/vscode.rs) and read from it (modules/token_extraction.rs). The *)
(* message is a sequence of bytes and an offset counts from 0, as in the   *)
(* code; a byte carries less than its seven bits and a number is narrower  *)
(* than 64 bits, so that lengths and tags outgrow one byte here too.       *)
(***************************************************************************)
EXTENDS Integers, Sequences, SequencesExt, FiniteSetsExt

CONSTANTS Low,          \* what the low bits of a byte can tell: 128 in the code
          Width,        \* a number is below this: 2^64
          Groups,       \* groups of low bits a number may have: 10
          FieldWidth,   \* a field number is below this: 2^32 (a cast to u32 drops the rest)
          Written,      \* sequences of fields the IDE saves: [num, wire, body]
          Tokens,       \* [access, refresh, expiry]
          Saved,        \* refresh tokens among what the IDE saves
          MaxSteps      \* bound

VARIABLES sbFields,     \* history: the fields the IDE has saved
          sbCut,        \* history: the last byte of them is missing
          sbBytes,      \* the value in the table, decoded from base64
          sbToken,      \* history: the token written last, or NoToken
          sbMarked,     \* antigravityOnboarding is set
          sbRead,       \* what the last extraction gave
          sbSteps

sbVars == <<sbFields, sbCut, sbBytes, sbToken, sbMarked, sbRead, sbSteps>>

NoToken == [access |-> <<>>, refresh |-> <<>>, expiry |-> 0]
Result(ok, bytes) == [ok |-> ok, bytes |-> bytes]
Bad == Result(FALSE, <<>>)

-----------------------------------------------------------------------------
More(byte) == byte >= Low
Digits(value) == Min({n \in 1..Groups : value < Low ^ n \/ n = Groups})
EncodeVarint(value) ==
    [i \in 1..Digits(value) |-> ((value \div (Low ^ (i - 1))) % Low) + (IF i < Digits(value) THEN Low ELSE 0)]

(* The number that starts at an offset, and the offset behind it.          *)
Stops(data, offset) == {k \in 1..Groups : offset + k <= Len(data) /\ ~More(data[offset + k])}
ReadVarint(data, offset) ==
    IF Stops(data, offset) = {} THEN [ok |-> FALSE, value |-> 0, next |-> 0]
    ELSE LET last == Min(Stops(data, offset))
             part(i) == (data[offset + i] % Low) * (Low ^ (i - 1))
         IN  [ok |-> TRUE, next |-> offset + last, value |-> FoldSet(LAMBDA i, sum : sum + part(i), 0, 1..last) % Width]

(* The offset behind a field's body.                                       *)
Skipped(data, next) == [ok |-> next <= Len(data), next |-> next]
SkipField(data, offset, wire) ==
    LET number == ReadVarint(data, offset)
    IN  CASE wire = 0 -> [ok |-> number.ok, next |-> number.next]
          [] wire = 1 -> Skipped(data, offset + 8)
          [] wire = 2 -> IF number.ok THEN Skipped(data, number.next + number.value) ELSE [ok |-> FALSE, next |-> 0]
          [] wire = 5 -> Skipped(data, offset + 4)
          [] OTHER -> [ok |-> FALSE, next |-> 0]

Tagged(tag) == [num |-> (tag \div 8) % FieldWidth, wire |-> tag % 8]
FieldAt(data, offset) ==
    LET tag == ReadVarint(data, offset)
        field == Tagged(tag.value)
        skip == SkipField(data, tag.next, field.wire)
    IN  [ok |-> tag.ok /\ skip.ok, num |-> field.num, wire |-> field.wire, body |-> tag.next, next |-> skip.next]

\* Mutant of Kept: the tag of a field that stays is left out.
KeptBody(data, field, offset) == SubSeq(data, field.body + 1, field.next)
Kept(data, field, offset) == SubSeq(data, offset + 1, field.next)
RemoveField(data, num) ==
    LET from[offset \in 0..Len(data)] ==
            IF offset = Len(data) THEN Result(TRUE, <<>>)
            ELSE LET field == FieldAt(data, offset)
                 IN  IF ~field.ok THEN Bad
                     ELSE LET rest == from[field.next]
                          IN  Result(rest.ok, (IF field.num = num THEN <<>> ELSE Kept(data, field, offset)) \o rest.bytes)
    IN  from[0]

(* The content of the first field of that number that has a length: what   *)
(* stands behind it is not looked at.                                      *)
FindField(data, num) ==
    LET from[offset \in 0..Len(data)] ==
            IF offset = Len(data) THEN Bad
            ELSE LET field == FieldAt(data, offset)
                 IN  IF ~field.ok THEN Bad
                     ELSE IF field.num = num /\ field.wire = 2
                          THEN Result(TRUE, SubSeq(data, ReadVarint(data, field.body).next + 1, field.next))
                          ELSE from[field.next]
    IN  from[0]

Delimited(num, body) == EncodeVarint(num * 8 + 2) \o EncodeVarint(Len(body)) \o body
Bearer == <<1>>
CreateOauthField(token) ==
    Delimited(6, Delimited(1, token.access) \o Delimited(2, Bearer) \o Delimited(3, token.refresh)
                 \o Delimited(4, EncodeVarint(8) \o EncodeVarint(token.expiry)))

(* How the IDE writes a field, external.                                   *)
Encoded(field) ==
    EncodeVarint(field.num * 8 + field.wire)
    \o (IF field.wire = 2 THEN EncodeVarint(Len(field.body)) ELSE <<>>) \o field.body
EncodedAll(fields) == FlattenSeq([i \in DOMAIN fields |-> Encoded(fields[i])])

-----------------------------------------------------------------------------
Init == /\ sbFields = <<>> /\ sbCut = FALSE /\ sbBytes = <<>> /\ sbToken = NoToken /\ sbMarked = FALSE
        /\ sbRead = Bad /\ sbSteps = 0

Step == sbSteps < MaxSteps /\ sbSteps' = sbSteps + 1
Save(fields, cut) ==
    /\ Step /\ sbFields' = fields /\ sbCut' = cut /\ (cut => fields # <<>>)
    /\ sbBytes' = IF cut THEN Front(EncodedAll(fields)) ELSE EncodedAll(fields)
    /\ sbToken' = NoToken /\ UNCHANGED <<sbMarked, sbRead>>

(* inject_token: a state that cannot be parsed is left as it is; the two   *)
(* writes are not one transaction.                                         *)
Inject(token) ==
    /\ Step
    /\ LET clean == RemoveField(sbBytes, 6)
       IN  IF clean.ok
           THEN /\ sbBytes' = clean.bytes \o CreateOauthField(token) /\ sbToken' = token
                /\ \E marked \in {TRUE, sbMarked} : sbMarked' = marked
           ELSE UNCHANGED <<sbBytes, sbToken, sbMarked>>
    /\ UNCHANGED <<sbFields, sbCut, sbRead>>

(* extract_refresh_token_from_file.                                        *)
Extract ==
    /\ Step
    /\ \E oauth \in {FindField(sbBytes, 6)} :
           sbRead' = IF oauth.ok THEN FindField(oauth.bytes, 3) ELSE Bad
    /\ UNCHANGED <<sbFields, sbCut, sbBytes, sbToken, sbMarked>>

Next == \/ \E fields \in Written, cut \in BOOLEAN : Save(fields, cut)
        \/ \E token \in Tokens : Inject(token)
        \/ Extract
        \/ sbSteps = MaxSteps /\ UNCHANGED sbVars

Spec == Init /\ [][Next]_sbVars

-----------------------------------------------------------------------------
TypeOK == /\ sbBytes \in Seq(0..(2 * Low - 1)) /\ sbToken \in Tokens \union {NoToken}
          /\ {sbCut, sbMarked} \subseteq BOOLEAN /\ sbSteps \in 0..MaxSteps

Others(fields) == SelectSeq(fields, LAMBDA f : f.num % FieldWidth # 6)
Injected == sbToken # NoToken

(* Writing a token leaves every other field of the IDE's state as it was,  *)
(* byte for byte and in order, and one token field alone, however often a  *)
(* token has been written before.                                          *)
OthersStay == Injected => sbBytes = EncodedAll(Others(sbFields)) \o CreateOauthField(sbToken)

(* What is written can be read: the refresh token that the extraction finds*)
(* is the one written last, and so are the other parts of the token.       *)
TokenRegained ==
    Injected =>
        \E oauth \in {FindField(sbBytes, 6)} :
            /\ oauth.ok /\ FindField(oauth.bytes, 1).bytes = sbToken.access
            /\ FindField(oauth.bytes, 3) = Result(TRUE, sbToken.refresh)
            /\ \E time \in {FindField(oauth.bytes, 4).bytes} : ReadVarint(time, 1).value = sbToken.expiry

(* A state that was cut off is not written over; and what an extraction    *)
(* gives is a refresh token that was written or saved, never other bytes.  *)
CutRefused == sbCut => ~Injected
OnlyTokensRead == sbRead.ok => sbRead.bytes \in {token.refresh : token \in Tokens} \union Saved

BlobSound == OthersStay /\ TokenRegained /\ CutRefused /\ OnlyTokensRead
=============================================================================
