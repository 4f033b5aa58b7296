-------------------------- MODULE TokenSelection --------------------------
(***************************************************************************)
(* How a request gets an account: TokenManager::get_token_with_exclusions  *)
(* and get_token_internal with their helpers (preferred account, ultra     *)
(* tier, sticky session, scored selection, recovery), the session binding, *)
(* and what the handler's retry loop feeds back (exclusions, failures,     *)
(* rate limits).                                                           *)
(*                                                                         *)
(* All requests ask for one model and belong to one session.  Where the    *)
(* code ranks candidates by tier, quota, health and load, the model tries  *)
(* them in any order.  try_new is one step (ActiveRequests has its own).   *)
(***************************************************************************)
EXTENDS Naturals, FiniteSets
LOCAL INSTANCE TLC

CONSTANTS
  Requests,       \* concurrent request handlers
  Accounts,       \* every account there is
  Ultra,          \* those of the ultra tier
  MaxConcurrent,  \* max_concurrent_per_account
  Affinity,       \* enable_session_affinity
  Threshold,      \* SESSION_FAILURE_THRESHOLD
  LockKinds,      \* the rate limits that occur: some of Locks
  RestraintKinds, \* what else occurs: some of Restraints
  None            \* no account

\* "model" is a lock of this model only, "short" and "long" are locks of the
\* whole account that expire within 2 s or later, "protected" is a quota used
\* up, "overused" an AIMD usage ratio above 1.2.
Locks == {"model", "short", "long"}
Restraints == {"protected", "overused"}
Statuses == Locks \cup Restraints \cup {"ok"}

ASSUME TokenSelectionAssumption ==
  /\ IsFiniteSet(Requests) /\ IsFiniteSet(Accounts)
  /\ Ultra \subseteq Accounts
  /\ MaxConcurrent \in Nat /\ Threshold \in Nat
  /\ Affinity \in BOOLEAN
  /\ None \notin Accounts
  /\ LockKinds \subseteq Locks /\ RestraintKinds \subseteq Restraints

VARIABLES
  status,     \* what keeps each account from serving the model, or "ok"
  bound,      \* session_accounts[session], or None
  failures,   \* session_failures[session], capped at Threshold
  guard,      \* the account each request holds an ActiveRequestGuard of
  req,        \* each request's local state
  excluded,   \* attempted_accounts of each request's handler
  witness     \* history: accounts usable ever since the acquisition began

session == <<bound, failures>>
impl == <<status, bound, failures, guard, req, excluded>>
vars == <<impl, witness>>

Idle == [pc |-> "idle", snapshot |-> {}, attempted |-> {}, left |-> 0,
         rotate |-> FALSE, candidates |-> {}, chosen |-> None]

\* Positions at which a guard is held.
Guarded == {"probed", "bind", "refresh", "serving"}

Positions == Guarded \cup
  {"idle", "preferred", "loop", "ultra", "sticky", "scored", "recovery",
   "buffer", "reset", "wait", "reacquire"}

TypeOK ==
  /\ status \in [Accounts -> Statuses]
  /\ bound \in Accounts \cup {None}
  /\ failures \in 0 .. Threshold
  /\ guard \in [Requests -> Accounts \cup {None}]
  /\ req \in [Requests ->
       [pc : Positions, snapshot : SUBSET Accounts, attempted : SUBSET Accounts,
        left : 0 .. Cardinality(Accounts), rotate : BOOLEAN,
        candidates : SUBSET Accounts, chosen : Accounts \cup {None}]]
  /\ excluded \in [Requests -> SUBSET Accounts]
  /\ witness \in [Requests -> SUBSET Accounts]

Init ==
  /\ status = [a \in Accounts |-> "ok"]
  /\ bound = None
  /\ failures = 0
  /\ guard = [r \in Requests |-> None]
  /\ req = [r \in Requests |-> Idle]
  /\ excluded = [r \in Requests |-> {}]
  /\ witness = [r \in Requests |-> {}]

-----------------------------------------------------------------------------

\* try_new would hand out a guard of account a.
Free(a) == Cardinality({r \in Requests : guard[r] = a}) < MaxConcurrent

\* Mutant of Eligible: what was attempted already is not looked at.
EligibleAgain(r, a, checkAimd) ==
  status[a] \in IF checkAimd THEN {"ok"} ELSE {"ok", "overused"}

\* is_candidate_eligible; only recovery leaves the AIMD ratio out.
Eligible(r, a, checkAimd) ==
  /\ a \notin req[r].attempted
  /\ status[a] \in IF checkAimd THEN {"ok"} ELSE {"ok", "overused"}

Candidates(r) == {a \in req[r].snapshot : Eligible(r, a, TRUE)}

\* Request r moves to position p.
Goto(r, p) == req' = [req EXCEPT ![r].pc = p]

\* The same, with a set of accounts to try there.
GotoTrying(r, p, S) == req' = [req EXCEPT ![r].pc = p, ![r].candidates = S]

\* Request r takes a guard of account a and moves to position p.
TakeGuard(r, a, p) ==
  /\ Free(a)
  /\ guard' = [guard EXCEPT ![r] = a]
  /\ req' = [req EXCEPT ![r].pc = p, ![r].chosen = a, ![r].candidates = {}]

\* The acquisition or the request is over; its guard, if any, is dropped.
End(r, excl) ==
  /\ req' = [req EXCEPT ![r] = Idle]
  /\ guard' = [guard EXCEPT ![r] = None]
  /\ excluded' = [excluded EXCEPT ![r] = excl]

\* get_token returns Err and the handler answers with an error.
Fail(r) == End(r, {}) /\ UNCHANGED <<status, session>>

-----------------------------------------------------------------------------
(* One acquisition.                                                         *)

\* The acquisition begins with the pool and the preferred account of this
\* moment, which the account sync and the operators change at will.  Accounts
\* whose quota is used up are left out of the snapshot; a preferred account
\* that is not limited is tried first, whatever was excluded.
Begin(r, pool, preferred) ==
  /\ req[r].pc = "idle"
  /\ LET snap == {a \in pool : status[a] # "protected"}
         fixed == preferred \in snap /\ status[preferred] \notin Locks
     IN req' = [req EXCEPT ![r] =
          [Idle EXCEPT
             !.pc = IF fixed THEN "preferred" ELSE "loop",
             !.chosen = IF fixed THEN preferred ELSE None,
             !.snapshot = snap,
             !.attempted = excluded[r],
             !.left = Cardinality(pool),
             !.rotate = excluded[r] # {}]]
  /\ UNCHANGED <<status, session, guard, excluded>>

\* The preferred account has a usable token and a free slot ...
PreferredServes(r) ==
  /\ req[r].pc = "preferred"
  /\ TakeGuard(r, req[r].chosen, "serving")
  /\ UNCHANGED <<status, session, excluded>>

\* ... or its refresh fails or it has none: on with the round-robin.
PreferredFails(r) ==
  /\ req[r].pc = "preferred"
  /\ req' = [req EXCEPT ![r].pc = "loop", ![r].chosen = None]
  /\ UNCHANGED <<status, session, guard, excluded>>

\* Mutant of StartAttempt: the loop runs once more than there are accounts.
StartAttemptOnceMore(r) ==
  /\ req[r].pc = "loop"
  /\ req' = [req EXCEPT ![r].left = @ - 1, ![r].pc = "scored", ![r].candidates = Candidates(r)]
  /\ UNCHANGED <<status, session, guard, excluded>>

\* Head of the loop: a session that failed too often is unbound first.
StartAttempt(r) ==
  /\ req[r].pc = "loop"
  /\ req[r].left > 0
  /\ IF failures >= Threshold /\ bound # None
       THEN bound' = None /\ failures' = 0
       ELSE UNCHANGED session
  /\ req' = [req EXCEPT
       ![r].left = @ - 1,
       ![r].pc = IF req[r].rotate THEN "scored" ELSE "ultra",
       ![r].candidates = IF req[r].rotate THEN Candidates(r) ELSE Candidates(r) \cap Ultra]
  /\ UNCHANGED <<status, guard, excluded>>

\* Mutant of OutOfAttempts: one account is left untried.
OutOfAttemptsEarly(r) ==
  /\ req[r].pc = "loop"
  /\ req[r].left <= 1
  /\ Fail(r)

\* As many attempts as there were accounts have failed.
OutOfAttempts(r) ==
  /\ req[r].pc = "loop"
  /\ req[r].left = 0
  /\ Fail(r)

\* try_ultra_tier_selection and try_scored_selection: the first candidate with
\* a free slot wins.  A candidate is not checked again before its slot.
TryCandidate(r, a) ==
  /\ req[r].pc \in {"ultra", "scored"}
  /\ a \in req[r].candidates
  /\ \/ TakeGuard(r, a, "bind")
     \/ /\ ~ Free(a)
        /\ GotoTrying(r, req[r].pc, req[r].candidates \ {a})
        /\ UNCHANGED guard
  /\ UNCHANGED <<status, session, excluded>>

NoUltra(r) ==
  /\ req[r].pc = "ultra"
  /\ req[r].candidates = {}
  /\ Goto(r, "sticky")
  /\ UNCHANGED <<status, session, guard, excluded>>

\* try_sticky_session: the account the session is bound to, when it can serve;
\* when it cannot, the binding goes.
Sticky(r) ==
  /\ req[r].pc = "sticky"
  /\ IF Affinity /\ bound \in req[r].snapshot
       THEN \/ /\ Eligible(r, bound, TRUE)
               /\ TakeGuard(r, bound, "bind")
               /\ UNCHANGED bound
            \/ /\ Eligible(r, bound, TRUE) /\ ~ Free(bound)
               /\ GotoTrying(r, "scored", Candidates(r))
               /\ UNCHANGED <<guard, bound>>
            \/ /\ ~ Eligible(r, bound, TRUE)
               /\ bound' = None
               /\ GotoTrying(r, "scored", Candidates(r))
               /\ UNCHANGED guard
       ELSE GotoTrying(r, "scored", Candidates(r)) /\ UNCHANGED <<guard, bound>>
  /\ UNCHANGED <<status, failures, excluded>>

\* Mutant of NoCandidate: without a candidate the tiers are tried once more,
\* which counts as no attempt.
TiersOnceMore(r) ==
  /\ req[r].pc = "scored"
  /\ req[r].candidates = {}
  /\ GotoTrying(r, "ultra", Candidates(r) \cap Ultra)
  /\ UNCHANGED <<status, session, guard, excluded>>

NoCandidate(r) ==
  /\ req[r].pc = "scored"
  /\ req[r].candidates = {}
  /\ Goto(r, "recovery")
  /\ UNCHANGED <<status, session, guard, excluded>>

\* try_recovery_selection looks at the account-level locks only: the shortest
\* decides between a 500 ms buffer and an error; without any, the accounts
\* must be busy, and it waits for one.
Recover(r) ==
  /\ req[r].pc = "recovery"
  /\ LET locked(k) == \E a \in req[r].snapshot : status[a] = k
     IN \/ /\ locked("short")
           /\ GotoTrying(r, "buffer", req[r].snapshot)
           /\ UNCHANGED <<guard, excluded>>
        \/ /\ ~ locked("short") /\ locked("long")
           /\ End(r, {})
        \/ /\ ~ locked("short") /\ ~ locked("long")
           /\ GotoTrying(r, "wait", req[r].snapshot)
           /\ UNCHANGED <<guard, excluded>>
  /\ UNCHANGED <<status, session>>

\* After the sleep (or the reset) the accounts are probed one by one: the
\* first eligible one with a free slot is returned, its guard held meanwhile.
Probe(r, a) ==
  /\ req[r].pc \in {"buffer", "reset", "wait"}
  /\ a \in req[r].candidates
  /\ \/ Eligible(r, a, FALSE) /\ TakeGuard(r, a, "probed")
     \/ /\ ~ (Eligible(r, a, FALSE) /\ Free(a))
        /\ GotoTrying(r, req[r].pc, req[r].candidates \ {a})
        /\ UNCHANGED guard
  /\ UNCHANGED <<status, session, excluded>>

\* The buffer did not help: every rate limit of every account is dropped, and
\* the accounts are probed once more.
OptimisticReset(r) ==
  /\ req[r].pc = "buffer"
  /\ req[r].candidates = {}
  /\ status' = [a \in Accounts |-> IF status[a] \in Locks THEN "ok" ELSE status[a]]
  /\ GotoTrying(r, "reset", req[r].snapshot)
  /\ UNCHANGED <<session, guard, excluded>>

NothingFound(r) ==
  /\ req[r].pc \in {"reset", "wait"}
  /\ req[r].candidates = {}
  /\ Fail(r)

\* The probe's guard is a temporary: dropped before recovery returns ...
DropProbe(r) ==
  /\ req[r].pc = "probed"
  /\ guard' = [guard EXCEPT ![r] = None]
  /\ Goto(r, "reacquire")
  /\ UNCHANGED <<status, session, excluded>>

\* ... and the loop asks for another one, which may be gone by now.
Reacquire(r) ==
  /\ req[r].pc = "reacquire"
  /\ \/ TakeGuard(r, req[r].chosen, "bind") /\ UNCHANGED excluded
     \/ ~ Free(req[r].chosen) /\ End(r, {})
  /\ UNCHANGED <<status, session>>

Bind(r) ==
  /\ req[r].pc = "bind"
  /\ bound' = IF Affinity THEN req[r].chosen ELSE bound
  /\ Goto(r, "refresh")
  /\ UNCHANGED <<status, failures, guard, excluded>>

\* Token and project id are in order: the caller gets the guard.
RefreshSucceeds(r) ==
  /\ req[r].pc = "refresh"
  /\ Goto(r, "serving")
  /\ UNCHANGED <<status, session, guard, excluded>>

\* Mutant of RefreshFails: the guard of the failed account is kept.
RefreshFailsKeepsGuard(r) ==
  /\ req[r].pc = "refresh"
  /\ req' = [req EXCEPT ![r].pc = "loop", ![r].rotate = TRUE, ![r].chosen = None,
                        ![r].attempted = @ \cup {req[r].chosen}]
  /\ UNCHANGED <<status, session, guard, excluded>>

\* try_refresh_token or ensure_project_id fails: next account, rotating.
RefreshFails(r) ==
  /\ req[r].pc = "refresh"
  /\ guard' = [guard EXCEPT ![r] = None]
  /\ req' = [req EXCEPT ![r].pc = "loop", ![r].rotate = TRUE, ![r].chosen = None,
                        ![r].attempted = @ \cup {req[r].chosen}]
  /\ UNCHANGED <<status, session, excluded>>

\* The 5 s timeout, or a disconnect, while the acquisition sleeps or refreshes.
Timeout(r) ==
  /\ \/ req[r].pc \in {"preferred", "refresh"}
     \/ req[r].pc \in {"buffer", "wait"} /\ req[r].candidates = req[r].snapshot
  /\ Fail(r)

-----------------------------------------------------------------------------
(* What the handler does with the account.                                  *)

\* record_request_success: the account-level lock, if any, is dropped, and so
\* is the session's failure count.
RequestSucceeds(r) ==
  /\ req[r].pc = "serving"
  /\ status' = [status EXCEPT ![req[r].chosen] = IF @ \in {"short", "long"} THEN "ok" ELSE @]
  /\ failures' = 0
  /\ End(r, {})
  /\ UNCHANGED <<bound>>

\* The upstream refuses: the account is locked one way or another, the session
\* has failed once more if it was a 429, and the handler excludes the account.
RequestRefused(r, k) ==
  /\ req[r].pc = "serving"
  /\ status' = [status EXCEPT ![req[r].chosen] = k]
  /\ failures' \in {failures, IF failures < Threshold THEN failures + 1 ELSE failures}
  /\ End(r, excluded[r] \cup {req[r].chosen})
  /\ UNCHANGED <<bound>>

\* The connection fails, the stream is empty or the model is unknown (404): the
\* account is excluded without being locked.
RequestLost(r) ==
  /\ req[r].pc = "serving"
  /\ End(r, excluded[r] \cup {req[r].chosen})
  /\ UNCHANGED <<status, session>>

\* The handler has made all its attempts.
GiveUp(r) ==
  /\ req[r].pc = "idle"
  /\ excluded[r] # {}
  /\ excluded' = [excluded EXCEPT ![r] = {}]
  /\ UNCHANGED <<status, session, guard, req>>

-----------------------------------------------------------------------------
(* What happens around the requests.                                        *)

\* Time passes, quota comes back, or the AIMD ratio falls.
Relax(a) ==
  /\ status[a] # "ok"
  /\ status' = [status EXCEPT ![a] = IF @ = "long" THEN "short" ELSE "ok"]
  /\ UNCHANGED <<session, guard, req, excluded>>

\* A quota update or the AIMD tracker takes the account out of rotation.
Restrain(a) ==
  /\ status[a] = "ok"
  /\ \E k \in RestraintKinds : status' = [status EXCEPT ![a] = k]
  /\ UNCHANGED <<session, guard, req, excluded>>

\* The cleanup tick clears failure counters, or evicts the binding.
CleanupTick ==
  /\ \/ failures' = 0 /\ UNCHANGED bound
     \/ bound' = None /\ UNCHANGED failures
  /\ UNCHANGED <<status, guard, req, excluded>>

-----------------------------------------------------------------------------

\* Account a could serve request r now: nothing limits it and the other
\* requests leave it a slot.
Usable(r, a) ==
  /\ a \in req[r].snapshot
  /\ status[a] = "ok"
  /\ a \notin req[r].attempted
  /\ Cardinality({q \in Requests \ {r} : guard[q] = a}) < MaxConcurrent

Watch ==
  witness' = [r \in Requests |->
    IF req'[r].pc = "idle" THEN {}
    ELSE {a \in IF req[r].pc = "idle" THEN Accounts ELSE witness[r] : Usable(r, a)'}]

AcquisitionStep(r) ==
  \/ PreferredServes(r) \/ PreferredFails(r) \/ StartAttempt(r) \/ OutOfAttempts(r)
  \/ \E a \in Accounts : TryCandidate(r, a) \/ Probe(r, a)
  \/ NoUltra(r) \/ Sticky(r) \/ NoCandidate(r) \/ Recover(r) \/ OptimisticReset(r)
  \/ NothingFound(r) \/ DropProbe(r) \/ Reacquire(r) \/ Bind(r)
  \/ RefreshSucceeds(r) \/ RefreshFails(r) \/ Timeout(r)

HandlerStep(r) ==
  \/ \E pool \in SUBSET Accounts \ {{}}, p \in Accounts \cup {None} : Begin(r, pool, p)
  \/ RequestSucceeds(r) \/ RequestLost(r) \/ GiveUp(r)
  \/ \E k \in LockKinds : RequestRefused(r, k)

EnvironmentStep ==
  \/ \E a \in Accounts : Relax(a) \/ Restrain(a)
  \/ CleanupTick

Next ==
  /\ \/ \E r \in Requests : AcquisitionStep(r) \/ HandlerStep(r)
     \/ EnvironmentStep
  /\ Watch

Spec == Init /\ [][Next]_vars

\* Tokio runs an acquisition until it ends; its sleeps and calls are bounded.
FairSpec == Spec /\ \A r \in Requests : WF_vars(AcquisitionStep(r) /\ Watch)

-----------------------------------------------------------------------------

Acquiring(r) == req[r].pc \notin {"idle", "serving"}

\* A request has a guard exactly while it has chosen an account it goes on
\* with: an account given up for the next one keeps no slot taken.
GuardFollowsChoice ==
  \A r \in Requests :
    guard[r] = IF req[r].pc \in Guarded THEN req[r].chosen ELSE None

\* Except by the preferred path, a request never gets an account its handler
\* has excluded or the acquisition has failed on already.
NeverAgain ==
  [][\A r \in Requests :
       req[r].pc = "refresh" /\ req'[r].pc = "serving"
         => req'[r].chosen \notin excluded[r] \cup req[r].attempted]_vars

\* As long as some account could serve the request during the whole
\* acquisition, the acquisition does not give up (a timeout aside), whatever
\* other accounts fail, fill up, get locked or leave meanwhile.
UsableMeansServed ==
  [][\A r \in Requests :
       /\ req'[r].pc = "idle"
       /\ \/ req[r].pc \in {"loop", "recovery", "reset", "reacquire"}
          \/ req[r].pc = "wait" /\ req[r].candidates = {}
       => witness[r] = {}]_vars

\* Every acquisition ends, with an account or with an error, even if the 5 s
\* timeout around it never strikes.
AcquisitionEnds == \A r \in Requests : []<>~ Acquiring(r)

\* For TLC: requests are interchangeable.
Symmetry == Permutations(Requests)

=============================================================================
