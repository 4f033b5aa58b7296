----------------------------- MODULE RetryLoop -----------------------------
(***************************************************************************)
(* The retry loops of the four handlers that serve model requests: OpenAI  *)
(* chat, Claude messages, Gemini generate, and the OpenAI completions.     *)
(* Each attempt acquires an account, calls upstream with it, and decides   *)
(* by the answer whether to go on, with which account, and whether the     *)
(* attempt counts.                                                         *)
(*                                                                         *)
(* Selection is the abstraction of TokenSelection a handler can see: any   *)
(* account in the pool that is neither locked nor excluded, or an error.   *)
(* (The preferred account has no caller outside tests and is left to       *)
(* TokenSelection.)                                                        *)
(***************************************************************************)
EXTENDS Naturals, FiniteSets

CONSTANTS
  Requests,          \* concurrent requests
  Accounts,          \* every account there is
  MAX_RETRY_ATTEMPTS,\* cap of the attempts
  None               \* no account

\* The handlers, by the protocol they speak.
Kinds == {"chat", "claude", "gemini", "completions"}

ASSUME RetryLoopAssumption ==
  /\ IsFiniteSet(Accounts)
  /\ MAX_RETRY_ATTEMPTS \in Nat \ {0}
  /\ None \notin Accounts

VARIABLES
  pool,     \* the accounts in memory
  locked,   \* those selection sees locked for the model
  pc,       \* where each request is: "idle", "selecting", "calling"
  req,      \* the locals of each request's handler
  calls,    \* history: rounds of acquisition and call each request has made
  asked     \* history: the accounts each request was sent to upstream with

history == <<calls, asked>>
vars == <<pool, locked, pc, req, history>>

\* What a handler keeps across its attempts.  thinking is
\* retried_without_thinking, forced the account the client asked for.
Locals == [kind : Kinds, forced : Accounts \cup {None},
           max_attempts : 1 .. MAX_RETRY_ATTEMPTS, attempt : Nat,
           attempted : SUBSET Accounts, grace : BOOLEAN, thinking : BOOLEAN,
           account : Accounts \cup {None}]

TypeOK ==
  /\ pool \subseteq Accounts /\ locked \subseteq Accounts
  /\ pc \in [Requests -> {"idle", "selecting", "calling"}]
  /\ req \in [Requests -> Locals]
  /\ \A r \in Requests :
       /\ req[r].attempt <= req[r].max_attempts
       /\ pc[r] = "calling" => /\ req[r].attempt < req[r].max_attempts
                               /\ req[r].account \in Accounts
  /\ calls \in [Requests -> Nat]
  /\ asked \in [Requests -> SUBSET Accounts]

Fresh(kind, forced, max) ==
  [kind |-> kind, forced |-> forced, max_attempts |-> max, attempt |-> 0,
   attempted |-> {}, grace |-> FALSE, thinking |-> FALSE, account |-> None]

Init ==
  /\ pool = Accounts
  /\ locked = {}
  /\ pc = [r \in Requests |-> "idle"]
  /\ req = [r \in Requests |-> Fresh("chat", None, 1)]
  /\ calls = [r \in Requests |-> 0]
  /\ asked = [r \in Requests |-> {}]

-----------------------------------------------------------------------------
(* The answers after which a handler tries again, with the handlers that    *)
(* meet them, those that exclude the account, and those that allow another  *)
(* grace retry.                                                             *)

\* "banned" is a 403 that tells a ban or a missing verification, "forbidden"
\* any other 401 or 403, "signature" a 400 for a thinking signature.
Retried ==
  [connection |-> Kinds, no_data |-> Kinds, rate_limit |-> Kinds,
   quota |-> Kinds \ {"chat"}, banned |-> {"chat", "gemini"}, forbidden |-> Kinds,
   not_found |-> Kinds, signature |-> {"claude", "completions"}]

Excluding ==
  [connection |-> {"chat", "claude"},
   no_data |-> {"chat", "claude", "gemini"},
   rate_limit |-> {"chat", "claude", "gemini"},
   quota |-> {"claude", "gemini"},
   banned |-> {"chat", "gemini"},
   forbidden |-> {"chat", "claude", "gemini"},
   not_found |-> {"chat", "claude", "gemini"},
   signature |-> {}]

ForgettingGrace ==
  [connection |-> {"chat", "claude"},
   no_data |-> {"chat", "claude"},
   rate_limit |-> Kinds,
   quota |-> {"claude", "completions"},
   banned |-> {},
   forbidden |-> {"chat", "claude", "gemini"},
   not_found |-> {"chat", "claude"},
   signature |-> {}]

\* Answers that may lock the account.  The model's capacity being exhausted
\* does not, nor a lock under a name selection does not look up.
MayLock ==
  [rate_limit |-> Kinds, quota |-> Kinds, banned |-> {"chat", "gemini"},
   forbidden |-> {"chat"}]

Locking(r, why) ==
  IF why \in DOMAIN MayLock /\ req[r].kind \in MayLock[why]
    THEN locked' \in {locked, locked \cup {req[r].account}}
    ELSE UNCHANGED locked

-----------------------------------------------------------------------------

\* A request arrives.  It may make as many attempts as there are accounts now.
Start(r) ==
  /\ pc[r] = "idle"
  /\ \E kind \in Kinds, forced \in Accounts \cup {None} :
       /\ kind = "completions" => forced = None
       /\ req' = [req EXCEPT ![r] = Fresh(kind, forced,
            LET n == Cardinality(pool)
            IN IF n = 0 THEN 1
               ELSE IF n < MAX_RETRY_ATTEMPTS THEN n ELSE MAX_RETRY_ATTEMPTS)]
  /\ pc' = [pc EXCEPT ![r] = "selecting"]
  /\ calls' = [calls EXCEPT ![r] = 0]
  /\ asked' = [asked EXCEPT ![r] = {}]
  /\ UNCHANGED <<pool, locked>>

\* Variant of Acquirable: selection is not told what was attempted.
AcquirableAgain(r) == pool \ locked

\* The accounts smart routing may return.  The completions handler hands it
\* no exclusions.
Acquirable(r) ==
  pool \ (locked \cup IF req[r].kind = "completions" THEN {} ELSE req[r].attempted)

\* Variant of Acquire: the loop runs once more than it may.
AcquireOnceMore(r) ==
  /\ pc[r] = "selecting"
  /\ req[r].attempt <= req[r].max_attempts
  /\ \E a \in Acquirable(r) : req' = [req EXCEPT ![r].account = a]
  /\ pc' = [pc EXCEPT ![r] = "calling"]
  /\ UNCHANGED <<pool, locked, history>>

\* The attempt gets an account: the forced one, whose locks are looked up by
\* account id and never found, or one by smart routing.
Acquire(r) ==
  /\ pc[r] = "selecting"
  /\ req[r].attempt < req[r].max_attempts
  /\ \E a \in Acquirable(r) \cup (pool \cap {req[r].forced}) :
        /\ req' = [req EXCEPT ![r].account = a]
        /\ asked' = [asked EXCEPT ![r] = @ \cup {a}]
  /\ pc' = [pc EXCEPT ![r] = "calling"]
  /\ calls' = [calls EXCEPT ![r] = @ + 1]
  /\ UNCHANGED <<pool, locked>>

\* No account could be acquired: the client gets the error.
AcquireFails(r) ==
  /\ pc[r] = "selecting"
  /\ req[r].attempt < req[r].max_attempts
  /\ pc' = [pc EXCEPT ![r] = "idle"]
  /\ UNCHANGED <<pool, locked, req, history>>

\* Variant of Exhaust: off by one, as if attempts began at one.
ExhaustLate(r) ==
  /\ pc[r] = "selecting"
  /\ req[r].attempt > req[r].max_attempts
  /\ pc' = [pc EXCEPT ![r] = "idle"]
  /\ UNCHANGED <<pool, locked, req, history>>

\* The loop is over: build_exhaustion_response, all_retries_exhausted_error.
Exhaust(r) ==
  /\ pc[r] = "selecting"
  /\ req[r].attempt >= req[r].max_attempts
  /\ pc' = [pc EXCEPT ![r] = "idle"]
  /\ UNCHANGED <<pool, locked, req, history>>

\* The upstream answers and its answer goes to the client, or it is an error no
\* other attempt would mend, or the client is gone.  A success drops the
\* account's lock, unless it is the model's.
Answer(r) ==
  /\ pc[r] = "calling"
  /\ pc' = [pc EXCEPT ![r] = "idle"]
  /\ locked' \in {locked, locked \ {req[r].account}}
  /\ UNCHANGED <<pool, req, history>>

\* The chat handler gives up when the quota is exhausted, "to protect pool".
StopOnQuota(r) ==
  /\ pc[r] = "calling"
  /\ req[r].kind = "chat"
  /\ Locking(r, "quota")
  /\ pc' = [pc EXCEPT ![r] = "idle"]
  /\ UNCHANGED <<pool, req, history>>

\* Variant of GraceRetry: nobody remembers the first one.
GraceRetryAlways(r) ==
  /\ pc[r] = "calling"
  /\ req' = [req EXCEPT ![r].grace = TRUE]
  /\ pc' = [pc EXCEPT ![r] = "selecting"]
  /\ UNCHANGED <<pool, locked, history>>

\* A first 429 RATE_LIMIT_EXCEEDED: the handler sleeps for a second and tries
\* again.  The attempt does not count, but in the completions' for loop.  The
\* Gemini handler has locked the account by then.
GraceRetry(r) ==
  /\ pc[r] = "calling"
  /\ ~ req[r].grace
  /\ req' = [req EXCEPT
       ![r].grace = TRUE,
       ![r].attempt = IF req[r].kind = "completions" THEN @ + 1 ELSE @]
  /\ locked' = IF req[r].kind = "gemini" THEN locked \cup {req[r].account} ELSE locked
  /\ pc' = [pc EXCEPT ![r] = "selecting"]
  /\ UNCHANGED <<pool, history>>

\* The attempt failed and counts.  The Claude handler repairs signatures once;
\* a stream without data comes after a success was recorded.
Retry(r, why) ==
  /\ pc[r] = "calling"
  /\ req[r].kind \in Retried[why]
  /\ why = "signature" /\ req[r].kind = "claude" => ~ req[r].thinking
  /\ req' = [req EXCEPT
       ![r].attempt = @ + 1,
       ![r].attempted = IF req[r].kind \in Excluding[why] THEN @ \cup {req[r].account} ELSE @,
       ![r].grace = @ /\ req[r].kind \notin ForgettingGrace[why],
       ![r].thinking = @ \/ (why = "signature" /\ req[r].kind = "claude")]
  /\ IF why = "no_data" THEN locked' \in {locked, locked \ {req[r].account}}
                        ELSE Locking(r, why)
  /\ pc' = [pc EXCEPT ![r] = "selecting"]
  /\ UNCHANGED <<pool, history>>

-----------------------------------------------------------------------------
(* What happens around the requests.                                        *)

\* A lock expires or is reset.
Unlock(a) ==
  /\ a \in locked
  /\ locked' = locked \ {a}
  /\ UNCHANGED <<pool, pc, req, history>>

\* The account sync, a refused refresh or an operator adds or removes one.
ChangePool(a) ==
  /\ pool' = IF a \in pool THEN pool \ {a} ELSE pool \cup {a}
  /\ UNCHANGED <<locked, pc, req, history>>

HandlerStep(r) ==
  \/ Acquire(r) \/ AcquireFails(r) \/ Exhaust(r)
  \/ Answer(r) \/ StopOnQuota(r) \/ GraceRetry(r)
  \/ \E why \in DOMAIN Retried : Retry(r, why)

Next ==
  \/ \E r \in Requests : Start(r) \/ HandlerStep(r)
  \/ \E a \in Accounts : Unlock(a) \/ ChangePool(a)

Spec == Init /\ [][Next]_vars

\* Acquisitions end (TokenSelection), calls time out and sleeps are bounded.
FairSpec == Spec /\ \A r \in Requests : WF_vars(HandlerStep(r))

-----------------------------------------------------------------------------

\* A request makes at most two rounds per attempt it is allowed, grace retries
\* included, whichever way failures alternate: the pool is protected from a
\* client's request that fails everywhere.
CallsBounded == \A r \in Requests : calls[r] <= 2 * req[r].max_attempts

\* Without a forced account, the chat and Claude handlers spend each attempt on
\* another account, the Claude handler's one signature repair aside: attempts
\* are not wasted on accounts that have failed already.
AttemptsAreAccounts ==
  \A r \in Requests :
    req[r].kind \in {"chat", "claude"} /\ req[r].forced = None
      => req[r].attempt <= Cardinality(asked[r]) + (IF req[r].thinking THEN 1 ELSE 0)

\* Every request is answered.
RequestEnds == \A r \in Requests : pc[r] # "idle" ~> pc[r] = "idle"

\* exhaustion_response.rs: "All accounts exhausted".  A handler that says so
\* has asked as many different accounts as it could make attempts.
AllAccountsExhausted ==
  [][\A r \in Requests :
       /\ pc[r] = "selecting" /\ pc'[r] = "idle"
       /\ req[r].attempt >= req[r].max_attempts
       /\ req[r].kind # "claude" /\ req[r].forced = None
       => Cardinality(asked[r]) >= req[r].max_attempts]_vars

=============================================================================
