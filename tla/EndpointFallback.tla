-------------------------- MODULE EndpointFallback --------------------------
(***************************************************************************)
(* One upstream call over the list of endpoints                            *)
(* (upstream/client/request_executor.rs: execute_with_fallback) and the    *)
(* health of the endpoints it shares with other calls                      *)
(* (upstream/endpoint_health.rs). A request is sent to each endpoint in    *)
(* turn until one answers; each transport error is repeated once.          *)
(***************************************************************************)
EXTENDS Naturals, FiniteSets

CONSTANTS EndpointCount,    \* base_urls: three defaults or one custom
          SkipAfter,        \* failures after which an endpoint is skipped (5)
          UpstreamCalls     \* calls under way at once

EndpointFallbackAssumption == EndpointCount \in Nat \ {0} /\ SkipAfter \in Nat

MaxTransportRetries == 1
Endpoints == 1 .. EndpointCount

VARIABLES efFailures,       \* EndpointHealth.failures
          efRecent,         \* last_failure lies less than 30 s back
          efCall,           \* per call: where it is, the endpoint, its transport retries
          efSeen            \* history per call: endpoints that answered, that failed in
                            \* transport, and that were skipped

efVars == <<efFailures, efRecent, efCall, efSeen>>

NotCalling == [at |-> "idle", endpoint |-> 1, retries |-> 0]
NothingSeen == [answered |-> {}, failed |-> {}, skipped |-> {}]

Init == /\ efFailures = [e \in Endpoints |-> 0]
        /\ efRecent = [e \in Endpoints |-> FALSE]
        /\ efCall = [c \in UpstreamCalls |-> NotCalling]
        /\ efSeen = [c \in UpstreamCalls |-> NothingSeen]

ShouldSkip(e) == efFailures[e] >= SkipAfter /\ efRecent[e]
HasNext(e) == e < EndpointCount
At(c) == efCall[c].endpoint
Saw(c, what) == efSeen' = [efSeen EXCEPT ![c][what] = @ \union {At(c)}]

(* The next endpoint of the list, or the error kept from the last one.     *)
Advance(c) == efCall' = [efCall EXCEPT ![c] =
    IF HasNext(At(c)) THEN [at |-> "choose", endpoint |-> At(c) + 1, retries |-> 0]
                      ELSE [@ EXCEPT !.at = "error"]]
Answer(c, kind) == efCall' = [efCall EXCEPT ![c].at = kind]

-----------------------------------------------------------------------------
Begin(c) ==
    /\ efCall[c].at \in {"idle", "success", "response", "error"}
    /\ efCall' = [efCall EXCEPT ![c] = [NotCalling EXCEPT !.at = "choose"]]
    /\ efSeen' = [efSeen EXCEPT ![c] = NothingSeen]
    /\ UNCHANGED <<efFailures, efRecent>>

Skip(c) ==
    /\ efCall[c].at = "choose" /\ ShouldSkip(At(c))
    /\ Saw(c, "skipped")
    /\ Advance(c)
    /\ UNCHANGED <<efFailures, efRecent>>

Send(c) ==
    /\ efCall[c].at = "choose" /\ ~ShouldSkip(At(c))
    /\ Answer(c, "sent")
    /\ UNCHANGED <<efFailures, efRecent, efSeen>>

Succeed(c) ==
    /\ efCall[c].at = "sent"
    /\ efFailures' = [efFailures EXCEPT ![At(c)] = 0]
    /\ Saw(c, "answered")
    /\ Answer(c, "success")
    /\ UNCHANGED efRecent

(* A 429, 408, 404 or 5xx goes on to the next endpoint when the list has   *)
(* one, healthy or not; any other status is the answer of the call.        *)
\* Mutant of FallsBack: the last endpoint's answer is dropped as well.
AlwaysFallsBack(e) == TRUE
FallsBack(e) == HasNext(e)

TryNextEndpoint(c) ==
    /\ efCall[c].at = "sent" /\ FallsBack(At(c))
    /\ Saw(c, "answered")
    /\ Advance(c)
    /\ UNCHANGED <<efFailures, efRecent>>

ReturnResponse(c) ==
    /\ efCall[c].at = "sent"
    /\ Saw(c, "answered")
    /\ Answer(c, "response")
    /\ UNCHANGED <<efFailures, efRecent>>

RetryTransport(c) ==
    /\ efCall[c].at = "sent" /\ efCall[c].retries < MaxTransportRetries
    /\ efCall' = [efCall EXCEPT ![c].retries = @ + 1]
    /\ UNCHANGED <<efFailures, efRecent, efSeen>>

TransportFails(c) ==
    /\ efCall[c].at = "sent" /\ efCall[c].retries = MaxTransportRetries
    /\ efFailures' = [efFailures EXCEPT ![At(c)] = IF @ < SkipAfter THEN @ + 1 ELSE @]
    /\ efRecent' = [efRecent EXCEPT ![At(c)] = TRUE]
    /\ Saw(c, "failed")
    /\ Advance(c)

SkipPeriodEnds(e) ==
    /\ efRecent[e]
    /\ efRecent' = [efRecent EXCEPT ![e] = FALSE]
    /\ UNCHANGED <<efFailures, efCall, efSeen>>

Next == \/ \E c \in UpstreamCalls : \/ Begin(c) \/ Skip(c) \/ Send(c) \/ Succeed(c)
                                    \/ TryNextEndpoint(c) \/ ReturnResponse(c)
                                    \/ RetryTransport(c) \/ TransportFails(c)
        \/ \E e \in Endpoints : SkipPeriodEnds(e)

Spec == Init /\ [][Next]_efVars

-----------------------------------------------------------------------------
TypeOK ==
    /\ efFailures \in [Endpoints -> 0 .. SkipAfter]
    /\ efRecent \in [Endpoints -> BOOLEAN]
    /\ efCall \in [UpstreamCalls ->
          [at : {"idle", "choose", "sent", "success", "response", "error"},
           endpoint : Endpoints, retries : 0 .. MaxTransportRetries]]
    /\ efSeen \in [UpstreamCalls -> [answered : SUBSET Endpoints, failed : SUBSET Endpoints,
                                     skipped : SUBSET Endpoints]]

(* The caller loses an answer of upstream (a 429 it would lock the account *)
(* for, say) only behind a later endpoint that failed in transport or was  *)
(* skipped as unhealthy, and a call fails with nothing sent only when it   *)
(* skipped every endpoint; the list is never left early and no endpoint is *)
(* judged twice, whatever other calls do to its health                     *)
(* (request_executor.rs:110, 161, 195).                                    *)
AnswerLostOnlyToLaterFailure ==
    \A c \in UpstreamCalls : efCall[c].at = "error" =>
        LET seen == efSeen[c] IN
        /\ seen.answered \union seen.failed \union seen.skipped = Endpoints
        /\ \A a \in seen.answered : \E e \in seen.failed \union seen.skipped : e > a
=============================================================================
