------------------------------ MODULE SchemaClean ------------------------------
(***************************************************************************)
(* How a tool's JSON schema is fitted to what Gemini takes (proxy/common/  *)
(* json_schema): references are replaced by their definitions, allOf and   *)
(* the best branch of anyOf or oneOf are merged into their parent, types   *)
(* become one lower-case word, and what Gemini does not know is dropped,   *)
(* its limits noted in the description; and how the arguments of a call    *)
(* are converted to the types the schema declares. The module builds any   *)
(* schema of a few parts and cleans each.                                  *)
(*                                                                         *)
(* A schema is a record with a field per keyword. A missing sub-schema is  *)
(* the empty sequence, a missing map the empty function. Definitions that  *)
(* refer to each other in a circle are left out: flatten_refs never ends   *)
(* on them.                                                                *)
(***************************************************************************)
EXTENDS Naturals, Sequences, SequencesExt, FiniteSets, TLC

CONSTANTS Nodes,       \* sub-schemas to build from
          Names,       \* property names
          Values,      \* arguments: [kind, word, items, kids]
          Defs,        \* the definitions of the root
          MaxDepth,    \* MAX_RECURSION_DEPTH, 64 in the code
          MaxSteps     \* bound

VARIABLES jsSchema, jsSteps
jsVars == <<jsSchema, jsSteps>>

NoRef == "none"
Nothing == [x \in {} |-> x]
(* types: the names in "type", listed: as an array; note: what the         *)
(* description says; other: keywords outside the allowed ones.             *)
Blank == [types |-> <<>>, listed |-> FALSE, hasProps |-> FALSE, props |-> Nothing,
          hasReq |-> FALSE, req |-> {}, items |-> <<>>, any |-> <<>>, one |-> <<>>, all |-> <<>>,
          ref |-> NoRef, defs |-> Nothing, enum |-> {}, other |-> {}, note |-> {}]

-----------------------------------------------------------------------------
(* collect_all_defs: the first of a name wins, in the order of the keys.   *)
RECURSIVE Collected(_)
Collected(n) ==
    LET Of(seq) == FoldLeft(LAMBDA acc, s : acc @@ Collected(s), Nothing, seq)
        names == SetToSeq(DOMAIN n.props)
    IN  n.defs @@ Of(n.all) @@ Of(n.any) @@ Of(n.items) @@ Of(n.one)
            @@ Of([i \in DOMAIN names |-> n.props[names[i]]])

First(seq, other) == IF seq # <<>> THEN seq ELSE other
(* The keys n has stay, the others are filled in from m: properties and    *)
(* required as a whole, the description too.                               *)
Filled(n, m) ==
    [n EXCEPT !.types = First(n.types, m.types), !.listed = IF n.types # <<>> THEN n.listed ELSE m.listed,
              !.hasProps = n.hasProps \/ m.hasProps, !.props = IF n.hasProps THEN n.props ELSE m.props,
              !.hasReq = n.hasReq \/ m.hasReq, !.req = IF n.hasReq THEN n.req ELSE m.req,
              !.items = First(n.items, m.items), !.any = First(n.any, m.any), !.one = First(n.one, m.one),
              !.all = First(n.all, m.all), !.ref = m.ref, !.enum = IF n.enum # {} THEN n.enum ELSE m.enum,
              !.other = n.other \union m.other, !.note = IF n.note # {} THEN n.note ELSE m.note]

RECURSIVE Flattened(_, _)
(* A reference takes its definition's keys; one without definition is a    *)
(* string, and the description says so.                                    *)
Resolved(n, defs) ==
    CASE n.ref = NoRef -> n
      [] n.ref \in DOMAIN defs -> Flattened(Filled([n EXCEPT !.ref = NoRef], defs[n.ref]), defs)
      [] OTHER -> [n EXCEPT !.ref = NoRef, !.types = <<"str">>, !.listed = FALSE, !.note = @ \union {"unresolved"}]
Flattened(n, defs) ==
    LET r == Resolved(n, defs)
        Each(seq) == [i \in DOMAIN seq |-> Flattened(seq[i], defs)]
    IN  [r EXCEPT !.props = [k \in DOMAIN r.props |-> Flattened(r.props[k], defs)],
                  !.items = Each(r.items), !.any = Each(r.any), !.one = Each(r.one), !.all = Each(r.all)]

-----------------------------------------------------------------------------
(* Properties are added and requirements joined; for the rest n has the    *)
(* say.                                                                    *)
Joined(n, m) ==
    [Filled(n, m) EXCEPT !.props = n.props @@ m.props, !.req = n.req \union m.req, !.ref = n.ref]

\* Mutant of MergedAll: what the parts of allOf require is forgotten.
MergedProperties(n) ==
    LET Add(acc, s) == [Joined(acc, s) EXCEPT !.props = s.props @@ acc.props, !.all = <<>>]
        parts == FoldLeft(Add, Blank, n.all)
    IN  Joined([n EXCEPT !.all = <<>>], [parts EXCEPT !.hasProps = DOMAIN parts.props # {}, !.req = {}, !.hasReq = FALSE])
(* merge_all_of: of the parts the last property of a name and the first of *)
(* every other key; an allOf within a part is dropped.                     *)
MergedAll(n) ==
    LET Add(acc, s) == [Joined(acc, s) EXCEPT !.props = s.props @@ acc.props, !.all = <<>>]
        parts == FoldLeft(Add, Blank, n.all)
    IN  Joined([n EXCEPT !.all = <<>>],
               [parts EXCEPT !.hasProps = DOMAIN parts.props # {}, !.hasReq = parts.req # {}])

(* score_schema_option, and the first branch with the best score.          *)
Is(n, type) == ~n.listed /\ n.types = <<type>>
Score(n) ==
    CASE n.hasProps \/ Is(n, "obj") -> 3
      [] n.items # <<>> \/ Is(n, "arr") -> 2
      [] ~n.listed /\ n.types # <<>> /\ ~Is(n, "null") -> 1
      [] OTHER -> 0
Best(union) ==
    LET best(i) == \A j \in DOMAIN union : Score(union[j]) < Score(union[i]) \/ (Score(union[j]) = Score(union[i]) /\ i <= j)
    IN  union[CHOOSE i \in DOMAIN union : best(i)]
MergedUnion(n) ==
    IF n.any \o n.one = <<>> THEN n ELSE Joined(n, Best(First(n.any, n.one)))

Looks(n) == n.types # <<>> \/ n.hasProps \/ n.items # <<>> \/ n.enum # {} \/ n.any \o n.one \o n.all # <<>>
Typed(n) == IF n.hasProps /\ n.types = <<>> THEN [n EXCEPT !.types = <<"obj">>, !.listed = FALSE] ELSE n

Lower(type) == IF type = "OBJ" THEN "obj" ELSE type
Nullable(n) == Looks(n) /\ Contains(n.types, "null")
(* The last part of clean_json_schema_recursive, for what looks like a     *)
(* schema: the allowed keys, the required names there is a property for,   *)
(* one type, and strings in an enumeration.                                *)
Trimmed(n) ==
    LET hasProps == n.hasProps \/ Is(n, "obj")
        types == SelectSeq(n.types, LAMBDA t : t # "null")
    IN  [Blank EXCEPT
            !.hasProps = hasProps, !.props = n.props, !.items = n.items,
            !.hasReq = n.hasReq, !.req = IF hasProps THEN n.req \intersect DOMAIN n.props ELSE {},
            !.types = CASE n.types = <<>> -> <<>> [] types = <<>> -> <<"str">> [] OTHER -> <<Lower(types[1])>>,
            !.enum = IF n.enum = {} THEN {} ELSE {"text"},
            !.note = n.note \union (n.other \intersect {"limit"}) \union (IF Nullable(n) THEN {"nullable"} ELSE {})]

RECURSIVE Cleaned(_, _)
(* The sub-schemas are cleaned first; a nullable property is not required. *)
CleanedInside(n, depth) ==
    LET Each(seq) == [i \in DOMAIN seq |-> Cleaned(seq[i], depth + 1).node]
        kids == [k \in DOMAIN n.props |-> Cleaned(n.props[k], depth + 1)]
        nullable == {k \in DOMAIN kids : kids[k].nullable}
    IN  [n EXCEPT !.props = [k \in DOMAIN kids |-> kids[k].node],
                  !.req = @ \ nullable, !.hasReq = @ /\ (nullable = {} \/ n.req \ nullable # {}),
                  !.items = Each(@), !.any = Each(@), !.one = Each(@)]
Cleaned(n, depth) ==
    IF depth > MaxDepth THEN [node |-> n, nullable |-> FALSE]
    ELSE LET m == Typed(MergedUnion(CleanedInside(MergedAll(n), depth)))
         IN  [node |-> IF Looks(m) THEN Trimmed(m) ELSE m, nullable |-> Nullable(m)]

(* clean_json_schema.                                                      *)
Flat(n) == Flattened([n EXCEPT !.defs = Nothing], Collected(n))
CleanJsonSchema(n) == Cleaned(Flat(n), 0).node

-----------------------------------------------------------------------------
(* fix_tool_call_args: text that reads as the declared type becomes it; a  *)
(* number with a leading zero stays text.                                  *)
Numbers == {"1", "0", "0.5"}
Truths == {"true", "1"}
Falsehoods == {"off", "0"}
V(kind, word) == [kind |-> kind, word |-> word, items |-> <<>>, kids |-> Nothing]
FixedWord(value, type) ==
    CASE type = "num" /\ value.kind = "text" /\ value.word \in Numbers -> V("number", value.word)
      [] type = "flag" /\ value.kind \in {"text", "number"} /\ value.word \in Truths
            /\ (value.kind = "number" => value.word = "1") -> V("flag", "true")
      [] type = "flag" /\ value.kind \in {"text", "number"} /\ value.word \in Falsehoods -> V("flag", "off")
      [] type = "str" /\ value.kind \in {"number", "flag"} -> V("text", value.word)
      [] OTHER -> value
DeclaredType(n) == IF n.listed \/ n.types = <<>> THEN "none" ELSE Lower(n.types[1])
RECURSIVE FixedArg(_, _)
FixedArg(value, n) ==
    CASE n.hasProps ->
            IF value.kind # "map" THEN value
            ELSE [value EXCEPT !.kids = [k \in DOMAIN value.kids |->
                    IF k \in DOMAIN n.props THEN FixedArg(value.kids[k], n.props[k]) ELSE value.kids[k]]]
      [] DeclaredType(n) = "arr" ->
            IF value.kind # "list" \/ n.items = <<>> THEN value
            ELSE [value EXCEPT !.items = [i \in DOMAIN @ |-> FixedArg(value.items[i], n.items[1])]]
      [] OTHER -> FixedWord(value, DeclaredType(n))

-----------------------------------------------------------------------------
(* A schema is put together.                                               *)
Init == jsSteps = 0 /\ jsSchema \in {[Blank EXCEPT !.types = <<"obj">>], [Blank EXCEPT !.defs = Defs]}
Put(n) == jsSteps < MaxSteps /\ jsSteps' = jsSteps + 1 /\ jsSchema' = n
AddProperty(k, n) == k \notin DOMAIN jsSchema.props /\ Put([jsSchema EXCEPT !.hasProps = TRUE, !.props = @ @@ (k :> n)])
Require(k) == k \notin jsSchema.req /\ Put([jsSchema EXCEPT !.hasReq = TRUE, !.req = @ \union {k}])
SetItems(n) == jsSchema.items = <<>> /\ Put([jsSchema EXCEPT !.items = <<n>>])
AddBranch(n) == Put([jsSchema EXCEPT !.any = Append(@, n)])
AddPart(n) == Put([jsSchema EXCEPT !.all = Append(@, n)])
SetRef(name) == jsSchema.ref = NoRef /\ Put([jsSchema EXCEPT !.ref = name])
Next ==
    \/ \E k \in Names : Require(k) \/ \E n \in Nodes : AddProperty(k, n)
    \/ \E n \in Nodes : SetItems(n) \/ AddBranch(n) \/ AddPart(n)
    \/ \E name \in DOMAIN Defs \union {"unknown"} : SetRef(name)
    \/ jsSteps = MaxSteps /\ UNCHANGED jsVars
Spec == Init /\ [][Next]_jsVars

TypeOK == jsSteps \in 0..MaxSteps /\ DOMAIN jsSchema = DOMAIN Blank /\ jsSchema.req \subseteq Names

-----------------------------------------------------------------------------
RECURSIVE Height(_), Fits(_)
Subs(n) == {n.props[k] : k \in DOMAIN n.props} \union ToSet(n.items \o n.any \o n.one \o n.all)
Height(n) == IF Subs(n) = {} THEN 0 ELSE 1 + CHOOSE h \in {Height(s) : s \in Subs(n)} : \A s \in Subs(n) : Height(s) <= h
Shallow == Height(Flat(jsSchema)) <= MaxDepth

Fits(n) ==
    /\ Looks(n) => /\ n.any \o n.one \o n.all = <<>> /\ n.ref = NoRef /\ n.other = {} /\ ~n.listed
                   /\ Len(n.types) <= 1 /\ ToSet(n.types) \intersect {"null", "OBJ"} = {}
                   /\ n.req \subseteq DOMAIN n.props
    /\ \A s \in Subs(n) : Fits(s)
(* At every level of a cleaned schema there is no reference, no allOf,     *)
(* anyOf or oneOf, no unknown keyword, at most one type, in lower case and *)
(* never null, and nothing required that is no property, unless the schema *)
(* was nested too deeply.                                                  *)
CleanFits == Shallow => Fits(CleanJsonSchema(jsSchema))

(* No property of the schema itself, of its allOf parts or, if it has an   *)
(* object among its branches, of the first of them is lost, and what they  *)
(* require stays required unless it may be null.                           *)
FieldsKept ==
    LET n == Flat(jsSchema)
        clean == CleanJsonSchema(jsSchema)
        objects == SelectSeq(n.any, LAMBDA b : Score(Cleaned(b, 1).node) = 3)
    IN  \A part \in {n} \union ToSet(n.all \o (IF objects = <<>> THEN <<>> ELSE <<objects[1]>>)) :
            /\ DOMAIN part.props \subseteq DOMAIN clean.props
            /\ \A k \in part.req \intersect DOMAIN clean.props :
                   \/ k \in clean.req \/ "nullable" \in clean.props[k].note
                   \/ part \in ToSet(objects) /\ (k \in DOMAIN part.props => Contains(part.props[k].types, "null"))

(* A schema that is cleaned again, as when it comes back cleaned, settles  *)
(* the second time: the first leaves an object whose type is not written   *)
(* in lower case without properties, the second adds the empty map.        *)
CleanSettles ==
    LET twice == CleanJsonSchema(CleanJsonSchema(jsSchema))
    IN  Shallow => CleanJsonSchema(twice) = twice

(* The same function is run over the calls and results of a conversation:  *)
(* what has no keyword of a schema in it passes unchanged.                 *)
PlainKept == \A extra \in SUBSET {"limit", "extra"} :
                 LET n == [Blank EXCEPT !.other = extra] IN CleanJsonSchema(n) = n

(* A converted argument has its own kind or the declared one, and is left  *)
(* alone by a second conversion.                                           *)
ArgumentsFixed ==
    \A v \in Values, n \in Nodes \union {jsSchema} :
        LET fixed == FixedArg(v, n)
            kinds == [num |-> "number", flag |-> "flag", str |-> "text"]
        IN  /\ FixedArg(fixed, n) = fixed
            /\ fixed.kind # v.kind => DeclaredType(n) \in DOMAIN kinds /\ fixed.kind = kinds[DeclaredType(n)]

SchemasFit == CleanFits /\ FieldsKept /\ CleanSettles /\ PlainKept /\ ArgumentsFixed
=============================================================================
