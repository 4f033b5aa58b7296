--------------------------------- MODULE MCExchange ---------------------------------
(***************************************************************************)
(* What goes between this program and others: the requests as they go      *)
(* upstream (with the model, the budget, the schemas and the signatures    *)
(* they carry), the entries instances exchange, the tunnels, the           *)
(* deployments and the state written for the IDE; and whether selections   *)
(* of an account end, with every kind of lock. The components share no     *)
(* state, so each behaviour exercises one of them (part).                  *)
(***************************************************************************)
EXTENDS Integers, Sequences, FiniteSets

CONSTANTS p1, p2, hub

VARIABLES part,
          msTarget, msStamp, msWire, msTroubles, msStuck,
          asEntry, asAccount, asWire, asStored, asApply, asClock, asChanges, asStuck, asApart,
          status, bound, failures, guard, req, excluded, witness,
          crMessages, crSettings, crSent, crRetried,
          tbMode, tbCustom, tbRequest, tbSent,
          trBlocks, trBuilt, trUsed, trKept, trStopped, trText, trImages,
          wiAccounts, wiMapping, wiUnit, wiRunning, wiDevice, wiPc, wiJob, wiAt, wiSeen, wiRetries, wiRemoved, wiEdits, wiReconnects,
          roLink, roRunning, roPrevious, roFrontend, roPc, roVersion, roBuilt, roDeploys, roReported, roCareless, roState, roTold, roReboots,
          tkShows, tkModel, tkScaling, tkPrompt, tkReport, tkStep, tkEstimate, tkActual, tkTotalEstimated, tkTotalActual, tkCount, tkFactor, tkUpdates,
          orMessages, orOffer, orContents, orTools, orFinal, orBridged, orBridgedTools,
          scNow, scRestarts, scDb, scMemory, scRows, scWrites, scAnswer, scAsk, scShown, scGone, scCount,
          jsSchema, jsSteps,
          moMapping, moChanges, moServed, moPhase, moReq, moAccount, moRouted, moChosen, moMapped, moSent, moMoved, moTried, moAttempt, moLocks, moRefused,
          sbFields, sbCut, sbBytes, sbToken, sbMarked, sbRead, sbSteps

msVars == <<msTarget, msStamp, msWire, msTroubles, msStuck>>
asVars == <<asEntry, asAccount, asWire, asStored, asApply, asClock, asChanges, asStuck, asApart>>
tsVars == <<status, bound, failures, guard, req, excluded, witness>>
crVars == <<crMessages, crSettings, crSent, crRetried>>
tbVars == <<tbMode, tbCustom, tbRequest, tbSent>>
trVars == <<trBlocks, trBuilt, trUsed, trKept, trStopped, trText, trImages>>
wiVars == <<wiAccounts, wiMapping, wiUnit, wiRunning, wiDevice, wiPc, wiJob, wiAt, wiSeen, wiRetries, wiRemoved, wiEdits, wiReconnects>>
roVars == <<roLink, roRunning, roPrevious, roFrontend, roPc, roVersion, roBuilt, roDeploys, roReported, roCareless, roState, roTold, roReboots>>
tkVars == <<tkShows, tkModel, tkScaling, tkPrompt, tkReport, tkStep, tkEstimate, tkActual, tkTotalEstimated, tkTotalActual, tkCount, tkFactor, tkUpdates>>
orVars == <<orMessages, orOffer, orContents, orTools, orFinal, orBridged, orBridgedTools>>
scVars == <<scNow, scRestarts, scDb, scMemory, scRows, scWrites, scAnswer, scAsk, scShown, scGone, scCount>>
jsVars == <<jsSchema, jsSteps>>
moVars == <<moMapping, moChanges, moServed, moPhase, moReq, moAccount, moRouted, moChosen, moMapped, moSent, moMoved, moTried, moAttempt, moLocks, moRefused>>
sbVars == <<sbFields, sbCut, sbBytes, sbToken, sbMarked, sbRead, sbSteps>>
vars == <<part, msVars, asVars, tsVars, crVars, tbVars, trVars, wiVars, roVars, tkVars,
            orVars, scVars, jsVars, moVars, sbVars>>

ToolBlocks ==
    LET B(kind, length, clean, open) == [kind |-> kind, length |-> length, clean |-> clean, open |-> open]
    IN  {B("text", 0, 0, 0), B("text", 49999, 0, 0), B("text", 200000, 0, 0), B("text", 250000, 0, 3),
         B("html", 300000, 210000, 1), B("html", 300000, 20000, 1), B("snapshot", 260000, 0, 0),
         B("snapshot", 51000, 0, 0), B("notice", 240000, 300, 0), B("image", 120000, 0, 0),
         B("image", 900000, 0, 0), B("other", 40, 0, 0), B("other", 300000, 0, 0)}
TokenRequests ==
    LET Block(kind, ascii, other) == [kind |-> kind, ascii |-> ascii, other |-> other]
    IN  {[texts |-> <<>>, messages |-> <<>>, budget |-> 0],
         [texts |-> <<Block("text", 40, 0)>>, budget |-> 0,
          messages |-> <<<<Block("text", 9, 3)>>, <<Block("thinking", 8, 0), Block("call", 4, 0)>>,
                         <<Block("result", 8, 0), Block("image", 900, 0)>>>>]}
OpenAIOffers ==
    LET O(tools, model, online, thinks, session) ==
            [tools |-> tools, model |-> model, online |-> online, thinks |-> thinks, session |-> session]
    IN  {O({"plain", "local_shell_call"}, "gemini-3-pro", FALSE, TRUE, TRUE),
         O({"plain", "local_shell_call", "web_search"}, "gemini-3-pro", FALSE, TRUE, FALSE),
         O({"simple", "google_search_retrieval", "nameless"}, "gemini-2.5-flash", FALSE, FALSE, TRUE),
         O({"web_search"}, "gemini-2.5-flash", FALSE, FALSE, FALSE),
         O({}, "gemini-3-pro", TRUE, FALSE, FALSE),
         O({"plain", "local_shell_call"}, "image", TRUE, FALSE, TRUE)}
SignatureParts ==
    LET Part(kind, text, sig) == [kind |-> kind, text |-> text, sig |-> sig]
    IN  {Part("thought", <<"a">>, 0), Part("thought", <<"b">>, 80),
         Part("signature", <<>>, 60), Part("call", <<>>, 60)}
PieceLength == [piece \in {"a", "b"} |-> IF piece = "a" THEN 15 ELSE 25]
CleanNodes ==
    LET Blank == [types |-> <<>>, listed |-> FALSE, hasProps |-> FALSE, props |-> [x \in {} |-> x],
                  hasReq |-> FALSE, req |-> {}, items |-> <<>>, any |-> <<>>, one |-> <<>>, all |-> <<>>,
                  ref |-> "none", defs |-> [x \in {} |-> x], enum |-> {}, other |-> {}, note |-> {}]
        T(types) == [Blank EXCEPT !.types = types, !.listed = Len(types) > 1]
        Obj(k, n) == [Blank EXCEPT !.hasProps = TRUE, !.props = [x \in {k} |-> n], !.hasReq = TRUE, !.req = {k}]
        Ref(name) == [Blank EXCEPT !.ref = name]
        Arr(n) == [T(<<"arr">>) EXCEPT !.items = <<n>>, !.other = {"limit"}]
    IN  [defs |-> [d \in {"D", "E"} |-> IF d = "D" THEN Obj("c", Ref("E")) ELSE T(<<"int", "null">>)],
         nodes |-> {T(<<"str">>), T(<<"null">>), T(<<"num">>), T(<<"flag">>), T(<<"int", "null">>), T(<<"OBJ">>),
                    Obj("a", T(<<"str">>)), Obj("b", T(<<"null">>)), Ref("D"), Arr(T(<<"flag">>)), Arr(Ref("D")),
                    [Blank EXCEPT !.other = {"extra"}], [Blank EXCEPT !.enum = {"number"}],
                    [Blank EXCEPT !.any = <<T(<<"null">>), T(<<"int">>)>>], [Blank EXCEPT !.one = <<T(<<"int">>), Arr(T(<<"str">>))>>],
                    [Blank EXCEPT !.all = <<Obj("b", T(<<"str">>)), T(<<"obj">>)>>]}]
CleanDefs == CleanNodes.defs
CleanSubs == CleanNodes.nodes
CleanValues ==
    LET V(kind, word) == [kind |-> kind, word |-> word, items |-> <<>>, kids |-> [x \in {} |-> x]]
    IN  {V("text", w) : w \in {"1", "0", "01", "true", "x", "0.5"}} \union {V("number", w) : w \in {"1", "0", "5"}}
        \union {V("flag", "true"), [V("list", "") EXCEPT !.items = <<V("text", "1")>>],
                [V("map", "") EXCEPT !.kids = [x \in {"a"} |-> V("number", "1")]]}
RouteMappings == {<<>>,
    <<<<"gpt-*", "gemini-3-flash">>, <<"gpt-4", "gemini-3-pro-high">>, <<"*", "claude-sonnet-4-5">>>>,
    <<<<"*", "claude-sonnet-4-5">>, <<"gpt-*", "gemini-3-flash">>>>,
    <<<<"fast-online", "gemini-3-flash">>, <<"gpt-4", "claude-opus-next">>, <<"gpt-oss", "gemini-3-pro-preview">>>>,
    <<<<"gpt-4", "gemini-3-flash-online">>, <<"gpt-next", "gemini-3-pro-image-2k">>>>}
RouteRequests ==
    LET R(proto, model, tool, words) == [proto |-> proto, model |-> model, tool |-> tool, words |-> words]
    IN  {R(p, m, "none", {}) : p \in {"claude", "chat", "completions"}, m \in {"gpt-4"}}
        \union {R("claude", "fast-online", "none", {})}
        \union {R("gemini", m, "none", {}) : m \in {"gpt-oss", "gpt-4", "gemini-3-flash-online"}}
        \union {R("completions", m, "none", {}) : m \in {"claude-opus-4-5", "gemini-3-pro-high"}}
        \union {R("claude", m, "none", {}) : m \in {"gemini-3-pro-image-4k", "gpt-next"}}
        \union {R(p, "gemini-3-flash", t, {}) : p \in {"claude", "completions"}, t \in {"named"}}
        \union {R("claude", "gpt-next", t, {}) : t \in {"named"}}
        \union {R("chat", "claude-sonnet-4-5", t, {}) : t \in {"named", "dated"}}
        \union {R("gemini", "gemini-3-flash", t, {}) : t \in {"named", "bare"}}
        \union {R("claude", "claude-opus-4-5", "none", t) : t \in {{"warm-up"}, {"title", "short"}, {"summary"}}}
BlobWritten ==
    LET F(num, wire, body) == [num |-> num, wire |-> wire, body |-> body]
        long == [i \in 1..17 |-> 3]
        saved == F(6, 2, <<10, 1, 2, 26, 1, 1, 7>>)
    IN  {<<>>, <<F(1, 0, <<21, 2>>)>>, <<F(2, 1, [i \in 1..8 |-> 17]), saved>>, <<saved, F(7, 2, long)>>,
         <<F(6, 0, <<3>>), F(5, 5, <<6, 2, 18, 3>>), saved>>, <<F(38, 2, <<9>>), F(1, 0, <<2>>)>>,
         <<saved, F(6, 2, <<>>), F(4, 2, <<>>)>>, <<F(4, 3, <<1>>), saved>>}
BlobTokens ==
    {[access |-> <<5>>, refresh |-> <<6, 19>>, expiry |-> 9],
     [access |-> [i \in 1..16 |-> 4], refresh |-> <<>>, expiry |-> 200]}
MS == INSTANCE MappingSync WITH
        Hub <- hub, Pollers <- {p1, p2}, Targets <- {"m1", "m2"},
        Default <- "m1", Beats <- LAMBDA a, b : a = "m2" /\ b = "m1", MaxTroubles <- 3
AS == INSTANCE AssignmentSync WITH
        Sites <- {p1, hub}, Urls <- {"url1", "url2"},
        Choices <- [s \in {p1, hub} |-> IF s = hub THEN {"url2", "none"} ELSE {"url1", "none"}],
        Greater <- LAMBDA a, b : a = "url2" /\ b = "url1", MaxClock <- 1, MaxChanges <- 2
TS == INSTANCE TokenSelection WITH
        Requests <- {"r1", "r2"}, Accounts <- {"a1"}, Ultra <- {}, MaxConcurrent <- 1, Affinity <- TRUE,
        Threshold <- 1, LockKinds <- {"model", "short", "long"}, RestraintKinds <- {"protected", "overused"},
        None <- "none"
CR == INSTANCE ClaudeRequest WITH MaxMessages <- 4, RetainTurns <- 1
TB == INSTANCE ThinkingBudget WITH
        Budgets <- {-1, 0, 600, 16000, 70000}, Limits <- {600, 16000, 131072}
TR == INSTANCE ToolResults WITH MaxBlocks <- 3, Blocks <- ToolBlocks
WI == INSTANCE WarpIsolation WITH
        Ids <- {"a1", "a2", "a3"}, Ips <- {"ip1", "ip2"}, MaxRetries <- 1, MaxEdits <- 3,
        MaxReconnects <- 1
RO == INSTANCE Rollout WITH
        Versions <- 1..3, Bad <- {2}, MaxDeploys <- 4, MaxReboots <- 1
TK == INSTANCE TokenReports WITH
        Models <- {1048576, 2097152}, Answers <- {p1, p2}, Requests <- TokenRequests,
        Prompts <- {900, 30000, 30001, 31000, 200000, 734003, 734004, 900000, 1048576, 1100000,
                    1468006, 1468007, 2097152, 2300000},
        Actuals <- {0, 90, 60000}, MaxRecords <- 6
OR == INSTANCE OpenAIRequest WITH
        Offers <- OpenAIOffers, Words <- {"text", "data", "missing", "audio"}, MaxMessages <- 4
SG == INSTANCE SignatureCache WITH
        Parts <- SignatureParts, Length <- PieceLength, Ttl <- 0, Limit <- 1, MaxParts <- 3,
        MaxDays <- 1, MaxRestarts <- 1
JS == INSTANCE SchemaClean WITH Nodes <- CleanSubs, Names <- {"a", "b"}, Values <- CleanValues,
        Defs <- CleanDefs, MaxDepth <- 2, MaxSteps <- 2
MO == INSTANCE ModelRoutes WITH Accounts <- {"a", "b"}, Names <- STRING, Reported <- {"gpt-oss"}, Mappings <- RouteMappings,
        Requests <- RouteRequests, MaxServed <- 2, MaxChanges <- 1
SB == INSTANCE StateBlob WITH Low <- 16, Width <- 1024, Groups <- 3, FieldWidth <- 32, Written <- BlobWritten,
        Tokens <- BlobTokens, Saved <- {<<7>>}, MaxSteps <- 4

(* A part that does not run starts in one state only.                       *)
Init == /\ part \in {"mapping", "assignment", "selection", "request", "thinking", "results",
                     "tunnels", "rollout", "tokens", "chat", "signatures", "schemas",
                     "routes", "blobs"}
        /\ MS!Init /\ AS!Init /\ TS!Init /\ CR!Init /\ TB!Init /\ TR!Init /\ WI!Init /\ RO!Init /\ TK!Init /\ OR!Init /\ SG!Init /\ JS!Init /\ MO!Init /\ SB!Init
        /\ part # "tokens" => tkShows = "calibrator"
        /\ part # "signatures" => scDb = TRUE
        /\ part # "schemas" => jsSchema.types # <<>>
        /\ part # "routes" => moMapping = <<>>

(* What the steps of a part leave alone.                                   *)
OnlyMS == part = "mapping" /\ UNCHANGED <<part, asVars, tsVars, crVars, tbVars, trVars, wiVars, roVars, tkVars, orVars,
                    scVars, jsVars, moVars, sbVars>>
OnlyAS == part = "assignment" /\ UNCHANGED <<part, msVars, tsVars, crVars, tbVars, trVars, wiVars, roVars, tkVars, orVars,
                    scVars, jsVars, moVars, sbVars>>
OnlyTS == part = "selection" /\ UNCHANGED <<part, msVars, asVars, crVars, tbVars, trVars, wiVars, roVars, tkVars, orVars,
                    scVars, jsVars, moVars, sbVars>>
OnlyCR == part = "request" /\ UNCHANGED <<part, msVars, asVars, tsVars, tbVars, trVars, wiVars, roVars, tkVars, orVars,
                    scVars, jsVars, moVars, sbVars>>
OnlyTB == part = "thinking" /\ UNCHANGED <<part, msVars, asVars, tsVars, crVars, trVars, wiVars, roVars, tkVars, orVars,
                    scVars, jsVars, moVars, sbVars>>
OnlyTR == part = "results" /\ UNCHANGED <<part, msVars, asVars, tsVars, crVars, tbVars, wiVars, roVars, tkVars, orVars,
                    scVars, jsVars, moVars, sbVars>>
OnlyWI == part = "tunnels" /\ UNCHANGED <<part, msVars, asVars, tsVars, crVars, tbVars, trVars, roVars, tkVars, orVars,
                    scVars, jsVars, moVars, sbVars>>
OnlyRO == part = "rollout" /\ UNCHANGED <<part, msVars, asVars, tsVars, crVars, tbVars, trVars, wiVars, tkVars, orVars,
                    scVars, jsVars, moVars, sbVars>>
OnlyTK == part = "tokens" /\ UNCHANGED <<part, msVars, asVars, tsVars, crVars, tbVars, trVars, wiVars, roVars, orVars,
                    scVars, jsVars, moVars, sbVars>>
OnlyOR == part = "chat" /\ UNCHANGED <<part, msVars, asVars, tsVars, crVars, tbVars, trVars, wiVars, roVars, tkVars,
                    scVars, jsVars, moVars, sbVars>>
OnlySG == part = "signatures" /\ UNCHANGED <<part, msVars, asVars, tsVars, crVars, tbVars, trVars, wiVars, roVars, tkVars,
                    orVars, jsVars, moVars, sbVars>>
OnlyJS == part = "schemas" /\ UNCHANGED <<part, msVars, asVars, tsVars, crVars, tbVars, trVars, wiVars, roVars, tkVars,
                    orVars, scVars, moVars, sbVars>>
OnlyMO == part = "routes" /\ UNCHANGED <<part, msVars, asVars, tsVars, crVars, tbVars, trVars, wiVars, roVars, tkVars,
                    orVars, scVars, jsVars, sbVars>>
OnlySB == part = "blobs" /\ UNCHANGED <<part, msVars, asVars, tsVars, crVars, tbVars, trVars, wiVars, roVars, tkVars,
                    orVars, scVars, jsVars, moVars>>

Next ==
    \/ OnlyMS /\ MS!Next
    \/ OnlyAS /\ AS!Next
    \/ OnlyTS /\ TS!Next
    \/ OnlyCR /\ CR!Next
    \/ OnlyTB /\ TB!Next
    \/ OnlyTR /\ TR!Next
    \/ OnlyWI /\ WI!Next
    \/ OnlyRO /\ RO!Next
    \/ OnlyTK /\ TK!Next
    \/ OnlyOR /\ OR!Next
    \/ OnlySG /\ SG!Next
    \/ OnlyJS /\ JS!Next
    \/ OnlyMO /\ MO!Next
    \/ OnlySB /\ SB!Next

(* What the theorems of StoreProofs and RequestProofs assume of constants. *)
ASSUME ExchangeAssumption == WI!WarpIsolationAssumption /\ RO!RolloutAssumption
                              /\ TB!ThinkingBudgetAssumption /\ TK!TokenReportsAssumption
                              /\ MO!ModelRoutesAssumption

Fairness ==
    /\ \A p \in {p1, p2} : WF_msVars(OnlyMS /\ p \notin msStuck /\ (MS!Fetch(p) \/ MS!SyncWithRemote(p) \/ MS!Push(p)))
    /\ WF_asVars(OnlyAS /\ asStuck = {} /\ AS!Export(p1, hub)) /\ WF_asVars(OnlyAS /\ asStuck = {} /\ AS!Export(hub, p1))
    /\ \A s \in {p1, hub} : WF_asVars(OnlyAS /\ AS!Change(s)) /\ WF_asVars(OnlyAS /\ AS!Receive(s)) /\ WF_asVars(OnlyAS /\ AS!ApplyNext(s))
    /\ \A r \in {"r1", "r2"} : WF_tsVars(OnlyTS /\ TS!AcquisitionStep(r) /\ TS!Watch)
    /\ WF_wiVars(OnlyWI /\ WI!Script)

Spec == Init /\ [][Next]_vars /\ Fairness

(* Every part keeps to its types.                                          *)
TypeOK ==
    /\ part = "mapping" => MS!TypeOK
    /\ part = "assignment" => AS!TypeOK
    /\ part = "selection" => TS!TypeOK
    /\ part = "request" => CR!TypeOK
    /\ part = "thinking" => TB!TypeOK
    /\ part = "results" => TR!TypeOK
    /\ part = "tunnels" => WI!TypeOK
    /\ part = "rollout" => RO!TypeOK
    /\ part = "tokens" => TK!TypeOK
    /\ part = "chat" => OR!TypeOK
    /\ part = "signatures" => SG!TypeOK
    /\ part = "schemas" => JS!TypeOK
    /\ part = "routes" => MO!TypeOK
    /\ part = "blobs" => SB!TypeOK

(* Once edits and failures end, every instance that no hot reload keeps    *)
(* stuck holds the target the hub has for a model for good, if the hub is  *)
(* not stuck (state/config_sync.rs).                                       *)
MappingsConverge == <>[](part = "mapping" => MS!Agreed)

(* Once the operators stop and no instance is stuck, all hold the same     *)
(* proxy for an account, in the table and, but for writes that             *)
(* overlapped, failed or came with a login, in the stored account          *)
(* (state/proxy_sync.rs).                                                  *)
AssignmentsConverge == <>[](part = "assignment" => AS!InStep)

(* A request that asks for an account gets one or an error, whatever the   *)
(* other request and the pool do (token_manager/selection.rs).             *)
AcquisitionEnds == TS!AcquisitionEnds

(* While no account is removed each leaves through its own tunnel, and a   *)
(* check that says all is well is right; registering anew makes progress   *)
(* and the scripts end (deploy/warp-isolation); a token written into the   *)
(* IDE's state leaves the rest of it as it was and can be read             *)
(* (utils/protobuf.rs); deployments keep a way back and the watchdog's     *)
(* last message is what it found (scripts).                                *)
HostSound == 
    /\ [](part = "tunnels" => WI!OwnTunnel /\ WI!VerifiedIsOwn)
    /\ [](part = "blobs" => SB!BlobSound)
    /\ [](part = "rollout" => RO!WayBack /\ RO!ToldAsItIs)
    /\ [][part = "tunnels" => WI!UniqueStay]_vars
    /\ []<>~WI!AtWork

(* Thoughts and calls go upstream with the signatures the target accepts   *)
(* (signature_validator.rs); a thought sent back as it was shown finds     *)
(* its signature (signature_cache).                                        *)
SignaturesFit == 
    /\ part = "request" => CR!SignaturesFit
    /\ part = "signatures" => SG!ThoughtRegained

(* Each call sent upstream is answered before the model speaks again, in   *)
(* the Claude mapper and both ways of the OpenAI mapper.                   *)
CallsAnswered == 
    /\ part = "request" => CR!CallsAnswered
    /\ part = "chat" => OR!CallsAnswered

(* The turns sent upstream alternate and none is empty                     *)
(* (merge_adjacent_roles, transform_openai_request), but where a side of   *)
(* a Claude conversation sent white space twice; searches and functions    *)
(* are not offered together.                                               *)
TurnsAlternate == 
    /\ part = "request" => CR!TurnsAlternate
    /\ part = "chat" => OR!TurnsAlternate

(* What is sent upstream is what upstream takes: room after the thinking   *)
(* budget, results within their limit, a usable estimate, a schema         *)
(* without what Gemini refuses, and the model its account was chosen for.  *)
RequestsFit == 
    /\ part = "thinking" => TB!BudgetFits
    /\ part = "results" => TR!ResultsFit
    /\ part = "tokens" => TK!CalibratorSound
    /\ part = "schemas" => JS!SchemasFit
    /\ part = "routes" => MO!RoutesSound

(* The usage that is reported grows with the prompt; a cached signature    *)
(* leaves memory only when it is expired.                                  *)
StepsAllowed == 
    [][/\ part = "tokens" => TK!ReportsGrow
       /\ part = "signatures" => SG!SignaturesStay]_vars
=============================================================================
