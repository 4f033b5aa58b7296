----------------------- MODULE TokenSelectionProofs -----------------------
(***************************************************************************)
(* Theorems about TokenSelection for any finite number of requests and     *)
(* accounts, any slots per account and any threshold of the sessions.      *)
(***************************************************************************)
EXTENDS TokenSelection, FiniteSetTheorems, TLAPS

USE TokenSelectionAssumption

\* What a request keeps of its acquisition.
Locals ==
  [pc : Positions, snapshot : SUBSET Accounts, attempted : SUBSET Accounts,
   left : 0 .. Cardinality(Accounts), rotate : BOOLEAN,
   candidates : SUBSET Accounts, chosen : Accounts \cup {None}]

\* The types without the history variable's.
Typed ==
  /\ status \in [Accounts -> Statuses]
  /\ bound \in Accounts \cup {None}
  /\ failures \in 0 .. Threshold
  /\ guard \in [Requests -> Accounts \cup {None}]
  /\ req \in [Requests -> Locals]
  /\ excluded \in [Requests -> SUBSET Accounts]

\* Where candidates are tried, where the accounts are probed after a sleep, and
\* where an account has been chosen that the acquisition goes on with.
Searching == {"ultra", "scored"}
Probing == {"buffer", "reset", "wait"}
Chosen == {"probed", "reacquire", "bind", "refresh"}

\* The accounts of the pool that request r has not attempted.
Remaining(r) == req[r].snapshot \ req[r].attempted

\* GuardFollowsChoice for one request.
GuardFits(r) == guard[r] = IF req[r].pc \in Guarded THEN req[r].chosen ELSE None

\* What is tried, and what is chosen, was not attempted before (but for the
\* preferred account), and what the handler excludes counts as attempted.
Fresh(r) ==
  /\ req[r].pc \in Searching => req[r].candidates \subseteq Remaining(r)
  /\ req[r].pc \in Probing => req[r].candidates \subseteq req[r].snapshot
  /\ req[r].pc \in Chosen => req[r].chosen \in Remaining(r)
  /\ req[r].pc \in {"preferred", "serving"} => req[r].chosen \in Accounts
  /\ req[r].pc # "idle" => excluded[r] \subseteq req[r].attempted

\* There is an attempt left for every account not attempted yet; within an
\* attempt, that attempt is one of them.
Budget(r) ==
  req[r].pc \notin {"idle", "serving"} =>
    Cardinality(Remaining(r))
      <= IF req[r].pc \in {"preferred", "loop"} THEN req[r].left ELSE req[r].left + 1

\* An account usable all along is among the candidates the scored selection
\* has yet to try; where those ran out there is no such account.
Watched(r) ==
  /\ req[r].pc = "idle" => witness[r] = {}
  /\ \A a \in witness[r] : Usable(r, a)
  /\ req[r].pc = "scored" => witness[r] \subseteq req[r].candidates
  /\ req[r].pc \in Probing \cup {"recovery", "probed", "reacquire"} => witness[r] = {}

\* What one request keeps, the history variable aside.
Sound(r) == GuardFits(r) /\ Fresh(r) /\ Budget(r)

\* The inductive invariant.
IInv == TypeOK /\ \A r \in Requests : Sound(r) /\ Watched(r)

\* No request but r is touched.
OthersStay(r) ==
  \A q \in Requests \ {r} :
    req'[q] = req[q] /\ guard'[q] = guard[q] /\ excluded'[q] = excluded[q]

-----------------------------------------------------------------------------
(* The building blocks of the steps.                                        *)

\* Lemma: a move with candidates sets the position and the candidates of one
\* request and nothing else.
LEMMA GotoTryingEffect ==
  ASSUME Typed, NEW r \in Requests, NEW p \in Positions, NEW S \in SUBSET Accounts,
         GotoTrying(r, p, S)
  PROVE  /\ req' \in [Requests -> Locals]
         /\ req'[r].pc = p /\ req'[r].candidates = S
         /\ req'[r].chosen = req[r].chosen /\ req'[r].left = req[r].left
         /\ Remaining(r)' = Remaining(r)
         /\ req'[r].snapshot = req[r].snapshot /\ req'[r].attempted = req[r].attempted
         /\ \A q \in Requests \ {r} : req'[q] = req[q]
<1>1. req \in [Requests -> Locals]
  BY DEF Typed
<1>2. req' = [req EXCEPT ![r] = [req[r] EXCEPT !.pc = p, !.candidates = S]]
  BY <1>1 DEF GotoTrying
<1>3. [req[r] EXCEPT !.pc = p, !.candidates = S] \in Locals
  BY <1>1 DEF Locals
<1> QED
  BY <1>1, <1>2, <1>3 DEF Remaining, Locals

\* Lemma: a move sets the position of one request and nothing else.
LEMMA GotoEffect ==
  ASSUME Typed, NEW r \in Requests, NEW p \in Positions, Goto(r, p)
  PROVE  /\ req' \in [Requests -> Locals]
         /\ req'[r].pc = p /\ req'[r].candidates = req[r].candidates
         /\ req'[r].chosen = req[r].chosen /\ req'[r].left = req[r].left
         /\ Remaining(r)' = Remaining(r)
         /\ req'[r].snapshot = req[r].snapshot /\ req'[r].attempted = req[r].attempted
         /\ \A q \in Requests \ {r} : req'[q] = req[q]
<1>1. req \in [Requests -> Locals]
  BY DEF Typed
<1>2. req' = [req EXCEPT ![r] = [req[r] EXCEPT !.pc = p]]
  BY <1>1 DEF Goto
<1>3. [req[r] EXCEPT !.pc = p] \in Locals
  BY <1>1 DEF Locals
<1> QED
  BY <1>1, <1>2, <1>3 DEF Remaining, Locals

\* Lemma: taking a guard sets the position, the choice and the guard of one
\* request and empties its candidates.
LEMMA TakeGuardEffect ==
  ASSUME Typed, NEW r \in Requests, NEW p \in Positions, NEW a \in Accounts,
         TakeGuard(r, a, p)
  PROVE  /\ req' \in [Requests -> Locals]
         /\ guard' \in [Requests -> Accounts \cup {None}]
         /\ req'[r].pc = p /\ req'[r].candidates = {}
         /\ req'[r].chosen = a /\ guard'[r] = a
         /\ req'[r].left = req[r].left
         /\ Remaining(r)' = Remaining(r)
         /\ req'[r].snapshot = req[r].snapshot /\ req'[r].attempted = req[r].attempted
         /\ \A q \in Requests \ {r} : req'[q] = req[q] /\ guard'[q] = guard[q]
<1>1. req \in [Requests -> Locals]
  BY DEF Typed
<1>2. req' = [req EXCEPT ![r] = [req[r] EXCEPT !.pc = p, !.chosen = a, !.candidates = {}]]
  BY <1>1 DEF TakeGuard
<1>3. [req[r] EXCEPT !.pc = p, !.chosen = a, !.candidates = {}] \in Locals
  BY <1>1 DEF Locals
<1>4. guard' = [guard EXCEPT ![r] = a]
  BY DEF TakeGuard
<1> QED
  BY <1>1, <1>2, <1>3, <1>4 DEF Remaining, Locals, Typed

\* Lemma: the state between two acquisitions is well typed.
LEMMA IdleType == Idle \in Locals
<1>1. 0 \in 0 .. Cardinality(Accounts)
  BY FS_CardinalityType
<1> QED
  BY <1>1 DEF Idle, Locals, Positions

\* Lemma: an acquisition or request that ends leaves its request sound.
LEMMA EndEffect ==
  ASSUME Typed, NEW r \in Requests, NEW S \in SUBSET Accounts, End(r, S)
  PROVE  /\ req' \in [Requests -> Locals]
         /\ guard' \in [Requests -> Accounts \cup {None}]
         /\ excluded' \in [Requests -> SUBSET Accounts]
         /\ Sound(r)' /\ OthersStay(r)
<1>1. /\ req' \in [Requests -> Locals] /\ req'[r] = Idle
      /\ guard' \in [Requests -> Accounts \cup {None}] /\ guard'[r] = None
      /\ excluded' \in [Requests -> SUBSET Accounts]
  BY IdleType DEF End, Typed
<1>2. OthersStay(r)
  BY DEF End, Typed, OthersStay
<1>3. Idle.pc = "idle"
  BY DEF Idle
<1> QED
  BY <1>1, <1>2, <1>3 DEF Sound, GuardFits, Fresh, Budget, Guarded, Searching, Probing, Chosen

-----------------------------------------------------------------------------
(* Steps of one request.                                                    *)

\* What a step of request r leaves behind.
Moved(r) == Typed' /\ OthersStay(r) /\ Sound(r)'

\* Lemma: the types of one request's fields; candidates were not attempted.
LEMMA CandidatesType ==
  ASSUME Typed, NEW r \in Requests
  PROVE  /\ Candidates(r) \subseteq Remaining(r)
         /\ Remaining(r) \subseteq Accounts
         /\ req[r].snapshot \in SUBSET Accounts
         /\ req[r].attempted \in SUBSET Accounts
         /\ req[r].candidates \in SUBSET Accounts
         /\ req[r].pc \in Positions
         /\ req[r].left \in 0 .. Cardinality(Accounts) /\ req[r].left \in Nat
         /\ Cardinality(Accounts) \in Nat
BY FS_CardinalityType DEF Typed, Locals, Candidates, Remaining, Eligible

\* Lemma: there are finitely many accounts left to attempt.
LEMMA RemainingFinite ==
  ASSUME Typed, NEW r \in Requests
  PROVE  IsFiniteSet(Remaining(r)) /\ Cardinality(Remaining(r)) \in Nat
<1>1. Remaining(r) \in SUBSET Accounts
  BY CandidatesType
<1> QED
  BY <1>1, FS_Subset, FS_CardinalityType

\* Lemma: every step of an acquisition keeps its request sound: what it chooses
\* was not attempted, and each attempt that fails takes one account out.
LEMMA AcquisitionMoves ==
  ASSUME Typed, NEW r \in Requests, Sound(r), AcquisitionStep(r)
  PROVE  Moved(r)
<1> USE DEF Moved, OthersStay, Guarded, Searching, Probing, Chosen
<1>0. /\ req[r].snapshot \in SUBSET Accounts
      /\ req[r].candidates \in SUBSET Accounts
      /\ req[r].attempted \in SUBSET Accounts
      /\ req[r].pc \in Positions
      /\ Candidates(r) \in SUBSET Accounts /\ Candidates(r) \subseteq Remaining(r)
      /\ Remaining(r) \in SUBSET Accounts
      /\ req[r].left \in Nat
      /\ Cardinality(Remaining(r)) \in Nat
  BY CandidatesType, RemainingFinite
<1>1. ASSUME PreferredServes(r) PROVE Moved(r)
  <2>1. req[r].pc = "preferred" /\ req[r].chosen \in Accounts
    BY <1>1 DEF PreferredServes, Sound, Fresh
  <2>2. "serving" \in Positions
    BY DEF Positions
  <2>3. Typed' /\ OthersStay(r)
    BY <1>1, <2>1, <2>2, TakeGuardEffect DEF PreferredServes, Typed, session
  <2>4. Sound(r)'
    BY <1>1, <1>0, <2>1, <2>2, TakeGuardEffect DEF PreferredServes, Sound, GuardFits, Fresh, Budget
  <2> QED
    BY <2>3, <2>4
<1>2. ASSUME PreferredFails(r) PROVE Moved(r)
  <2>1. req[r].pc = "preferred" /\ req \in [Requests -> Locals]
    BY <1>2 DEF PreferredFails, Typed
  <2>2. req' = [req EXCEPT ![r] = [req[r] EXCEPT !.pc = "loop", !.chosen = None]]
    BY <1>2, <2>1 DEF PreferredFails
  <2>3. [req[r] EXCEPT !.pc = "loop", !.chosen = None] \in Locals
    BY ZenonT(60), <2>1 DEF Locals, Positions
  <2>4. Typed' /\ OthersStay(r)
    BY <1>2, <2>2, <2>3 DEF PreferredFails, Typed, session
  <2>5. Sound(r)'
    BY <1>2, <2>1, <2>2, <2>3 DEF PreferredFails, Locals, Sound, GuardFits, Fresh, Budget, Remaining
  <2> QED
    BY <2>4, <2>5
<1>3. ASSUME StartAttempt(r) PROVE Moved(r)
  <2> DEFINE p == IF req[r].rotate THEN "scored" ELSE "ultra"
             S == IF req[r].rotate THEN Candidates(r) ELSE Candidates(r) \cap Ultra
             l == [req[r] EXCEPT !.left = req[r].left - 1, !.pc = p, !.candidates = S]
  <2>1. req[r].pc = "loop" /\ req[r].left > 0 /\ req \in [Requests -> Locals]
    BY <1>3 DEF StartAttempt, Typed
  <2>2. req' = [req EXCEPT ![r] = l]
    BY <1>3, <2>1 DEF StartAttempt
  <2>3. /\ p \in Searching /\ p \in Positions
        /\ S \in SUBSET Accounts /\ S \subseteq Remaining(r)
        /\ req[r].left - 1 \in 0 .. Cardinality(Accounts)
    BY <1>0, <2>1, CandidatesType DEF Positions
  <2> HIDE DEF p, S
  <2>4. l \in Locals
    BY <2>1, <2>3 DEF Locals
  <2>5. req' \in [Requests -> Locals] /\ \A q \in Requests \ {r} : req'[q] = req[q]
    BY <2>1, <2>2, <2>4
  <2>6. /\ req'[r].pc = p /\ req'[r].candidates = S /\ req'[r].left = req[r].left - 1
        /\ req'[r].snapshot = req[r].snapshot /\ req'[r].attempted = req[r].attempted
    BY <2>1, <2>2 DEF Locals
  <2>7. /\ bound' \in Accounts \cup {None} /\ failures' \in 0 .. Threshold
        /\ UNCHANGED <<status, guard, excluded>>
    BY <1>3 DEF StartAttempt, Typed, session
  <2>8. Typed' /\ OthersStay(r)
    BY <2>5, <2>7 DEF Typed
  <2>9. Sound(r)'
    BY <1>0, <2>1, <2>3, <2>6, <2>7 DEF Sound, GuardFits, Fresh, Budget, Remaining
  <2> QED
    BY <2>8, <2>9
<1>4. ASSUME Fail(r) PROVE Moved(r)
  BY <1>4, EndEffect DEF Fail, Typed, session
<1>5. ASSUME NEW a \in Accounts, TryCandidate(r, a) PROVE Moved(r)
  <2>1. req[r].pc \in Searching /\ a \in Remaining(r) /\ UNCHANGED <<status, session, excluded>>
    BY <1>5 DEF TryCandidate, Sound, Fresh
  <2>2. CASE TakeGuard(r, a, "bind")
    <3>1. "bind" \in Positions
      BY DEF Positions
    <3>2. Typed' /\ OthersStay(r)
      BY <2>1, <2>2, <3>1, TakeGuardEffect DEF Typed, session
    <3>3. Sound(r)'
      BY <1>0, <2>1, <2>2, <3>1, TakeGuardEffect DEF Sound, GuardFits, Fresh, Budget
    <3> QED
      BY <3>2, <3>3
  <2>3. CASE GotoTrying(r, req[r].pc, req[r].candidates \ {a}) /\ UNCHANGED guard
    <3>1. req[r].candidates \ {a} \in SUBSET Accounts
      BY <1>0
    <3>2. Typed' /\ OthersStay(r)
      BY <1>0, <2>1, <2>3, <3>1, GotoTryingEffect DEF Typed, session
    <3>3. Sound(r)'
      BY <1>0, <2>1, <2>3, <3>1, GotoTryingEffect DEF Sound, GuardFits, Fresh, Budget
    <3> QED
      BY <3>2, <3>3
  <2> QED
    BY <1>5, <2>2, <2>3 DEF TryCandidate
<1>6. ASSUME NoUltra(r) PROVE Moved(r)
  <2>1. req[r].pc = "ultra"
    BY <1>6 DEF NoUltra, Sound, Fresh
  <2>2. "sticky" \in Positions
    BY DEF Positions
  <2>3. Typed' /\ OthersStay(r)
    BY <1>6, <2>1, <2>2, GotoEffect DEF NoUltra, Typed, session
  <2>4. Sound(r)'
    BY <1>6, <1>0, <2>1, <2>2, GotoEffect DEF NoUltra, Sound, GuardFits, Fresh, Budget
  <2> QED
    BY <2>3, <2>4
<1>7. ASSUME Sticky(r) PROVE Moved(r)
  <2>1. /\ req[r].pc = "sticky" /\ UNCHANGED <<status, failures, excluded>>
        /\ "scored" \in Positions /\ "bind" \in Positions
    BY <1>7 DEF Sticky, Positions
  <2>2. CASE bound \in Remaining(r) /\ TakeGuard(r, bound, "bind") /\ UNCHANGED bound
    <3>1. bound \in Accounts
      BY <1>0, <2>2
    <3>2. Typed' /\ OthersStay(r)
      BY <2>1, <2>2, <3>1, TakeGuardEffect DEF Typed
    <3>3. Sound(r)'
      BY <1>0, <2>1, <2>2, <3>1, TakeGuardEffect DEF Sound, GuardFits, Fresh, Budget
    <3> QED
      BY <3>2, <3>3
  <2>3. CASE /\ GotoTrying(r, "scored", Candidates(r)) /\ UNCHANGED guard
             /\ bound' \in {bound, None}
    <3>1. Typed' /\ OthersStay(r)
      BY <1>0, <2>1, <2>3, GotoTryingEffect DEF Typed
    <3>2. Sound(r)'
      BY <1>0, <2>1, <2>3, GotoTryingEffect DEF Sound, GuardFits, Fresh, Budget
    <3> QED
      BY <3>1, <3>2
  <2> QED
    BY <1>7, <2>2, <2>3 DEF Sticky, Eligible, Remaining
<1>8. ASSUME NoCandidate(r) PROVE Moved(r)
  <2>1. req[r].pc = "scored"
    BY <1>8 DEF NoCandidate, Sound, Fresh
  <2>2. "recovery" \in Positions
    BY DEF Positions
  <2>3. Typed' /\ OthersStay(r)
    BY <1>8, <2>1, <2>2, GotoEffect DEF NoCandidate, Typed, session
  <2>4. Sound(r)'
    BY <1>8, <1>0, <2>1, <2>2, GotoEffect DEF NoCandidate, Sound, GuardFits, Fresh, Budget
  <2> QED
    BY <2>3, <2>4
<1>9. ASSUME Recover(r) PROVE Moved(r)
  <2>1. /\ req[r].pc = "recovery" /\ UNCHANGED <<status, session>>
        /\ "buffer" \in Positions /\ "wait" \in Positions
    BY <1>9 DEF Recover, Positions
  <2>2. CASE End(r, {})
    BY <2>1, <2>2, EndEffect DEF Typed, session
  <2>3. CASE /\ \E p \in {"buffer", "wait"} : GotoTrying(r, p, req[r].snapshot)
             /\ UNCHANGED <<guard, excluded>>
    <3>1. Typed' /\ OthersStay(r)
      BY <1>0, <2>1, <2>3, GotoTryingEffect DEF Typed, session
    <3>2. Sound(r)'
      BY <1>0, <2>1, <2>3, GotoTryingEffect DEF Sound, GuardFits, Fresh, Budget
    <3> QED
      BY <3>1, <3>2
  <2> QED
    BY <1>9, <2>2, <2>3 DEF Recover
<1>10. ASSUME NEW a \in Accounts, Probe(r, a) PROVE Moved(r)
  <2>1. req[r].pc \in Probing /\ a \in req[r].snapshot /\ UNCHANGED <<status, session, excluded>>
    BY <1>10 DEF Probe, Sound, Fresh
  <2>2. CASE a \notin req[r].attempted /\ TakeGuard(r, a, "probed")
    <3>1. "probed" \in Positions /\ a \in Remaining(r)
      BY <2>1, <2>2 DEF Positions, Remaining
    <3>2. Typed' /\ OthersStay(r)
      BY <2>1, <2>2, <3>1, TakeGuardEffect DEF Typed, session
    <3>3. Sound(r)'
      BY <1>0, <2>1, <2>2, <3>1, TakeGuardEffect DEF Sound, GuardFits, Fresh, Budget
    <3> QED
      BY <3>2, <3>3
  <2>3. CASE GotoTrying(r, req[r].pc, req[r].candidates \ {a}) /\ UNCHANGED guard
    <3>1. req[r].candidates \ {a} \in SUBSET Accounts
      BY <1>0
    <3>2. Typed' /\ OthersStay(r)
      BY <1>0, <2>1, <2>3, <3>1, GotoTryingEffect DEF Typed, session
    <3>3. Sound(r)'
      BY <1>0, <2>1, <2>3, <3>1, GotoTryingEffect DEF Sound, GuardFits, Fresh, Budget
    <3> QED
      BY <3>2, <3>3
  <2> QED
    BY <1>10, <2>2, <2>3 DEF Probe, Eligible
<1>11. ASSUME OptimisticReset(r) PROVE Moved(r)
  <2>1. /\ req[r].pc = "buffer" /\ GotoTrying(r, "reset", req[r].snapshot)
        /\ UNCHANGED <<session, guard, excluded>> /\ "reset" \in Positions
    BY <1>11 DEF OptimisticReset, Positions
  <2>2. status' \in [Accounts -> Statuses]
    BY <1>11 DEF OptimisticReset, Typed, Statuses
  <2>3. Typed' /\ OthersStay(r)
    BY <1>0, <2>1, <2>2, GotoTryingEffect DEF Typed, session
  <2>4. Sound(r)'
    BY <1>0, <2>1, GotoTryingEffect DEF Sound, GuardFits, Fresh, Budget
  <2> QED
    BY <2>3, <2>4
<1>12. ASSUME DropProbe(r) PROVE Moved(r)
  <2>1. /\ req[r].pc = "probed" /\ Goto(r, "reacquire") /\ "reacquire" \in Positions
        /\ guard' = [guard EXCEPT ![r] = None] /\ UNCHANGED <<status, session, excluded>>
    BY <1>12 DEF DropProbe, Positions
  <2>2. Typed' /\ OthersStay(r)
    BY <2>1, GotoEffect DEF Typed, session
  <2>3. Sound(r)'
    BY <2>1, GotoEffect DEF Typed, Sound, GuardFits, Fresh, Budget
  <2> QED
    BY <2>2, <2>3
<1>13. ASSUME Reacquire(r) PROVE Moved(r)
  <2>1. /\ req[r].pc = "reacquire" /\ req[r].chosen \in Remaining(r)
        /\ req[r].chosen \in Accounts
        /\ UNCHANGED <<status, session>> /\ "bind" \in Positions
    BY <1>0, <1>13 DEF Reacquire, Sound, Fresh, Positions
  <2>2. CASE TakeGuard(r, req[r].chosen, "bind") /\ UNCHANGED excluded
    <3>1. Typed' /\ OthersStay(r)
      BY <2>1, <2>2, TakeGuardEffect DEF Typed, session
    <3>2. Sound(r)'
      BY <1>0, <2>1, <2>2, TakeGuardEffect DEF Sound, GuardFits, Fresh, Budget
    <3> QED
      BY <3>1, <3>2
  <2>3. CASE End(r, {})
    BY <2>1, <2>3, EndEffect DEF Typed, session
  <2> QED
    BY <1>13, <2>2, <2>3 DEF Reacquire
<1>14. ASSUME Bind(r) PROVE Moved(r)
  <2>1. /\ req[r].pc = "bind" /\ req[r].chosen \in Accounts
        /\ Goto(r, "refresh") /\ "refresh" \in Positions
        /\ UNCHANGED <<status, failures, guard, excluded>>
    BY <1>0, <1>14 DEF Bind, Sound, Fresh, Positions
  <2>2. bound' \in Accounts \cup {None}
    BY <1>14, <2>1 DEF Bind, Typed
  <2>3. Typed' /\ OthersStay(r)
    BY <2>1, <2>2, GotoEffect DEF Typed
  <2>4. Sound(r)'
    BY <2>1, GotoEffect DEF Sound, GuardFits, Fresh, Budget
  <2> QED
    BY <2>3, <2>4
<1>15. ASSUME RefreshSucceeds(r) PROVE Moved(r)
  <2>1. req[r].pc = "refresh" /\ req[r].chosen \in Remaining(r)
    BY <1>15 DEF RefreshSucceeds, Sound, Fresh
  <2>2. "serving" \in Positions
    BY DEF Positions
  <2>3. Typed' /\ OthersStay(r)
    BY <1>15, <2>1, <2>2, GotoEffect DEF RefreshSucceeds, Typed, session
  <2>4. Sound(r)'
    BY <1>15, <1>0, <2>1, <2>2, GotoEffect DEF RefreshSucceeds, Sound, GuardFits, Fresh, Budget
  <2> QED
    BY <2>3, <2>4
<1>16. ASSUME RefreshFails(r) PROVE Moved(r)
  <2> DEFINE a == req[r].chosen
             l == [req[r] EXCEPT !.pc = "loop", !.rotate = TRUE, !.chosen = None,
                                 !.attempted = req[r].attempted \cup {a}]
  <2>1. /\ req[r].pc = "refresh" /\ req \in [Requests -> Locals]
        /\ a \in Remaining(r) /\ a \in Accounts
        /\ guard' = [guard EXCEPT ![r] = None] /\ UNCHANGED <<status, session, excluded>>
    BY <1>0, <1>16 DEF RefreshFails, Typed, Sound, Fresh
  <2>2. req' = [req EXCEPT ![r] = l]
    BY <1>16, <2>1 DEF RefreshFails
  <2> HIDE DEF a
  <2>3. l \in Locals
    BY ZenonT(60), <1>0, <2>1 DEF Locals, Positions
  <2>4. Typed' /\ OthersStay(r)
    BY <2>1, <2>2, <2>3 DEF Typed, session
  <2>5. /\ req'[r].pc = "loop" /\ req'[r].left = req[r].left /\ guard'[r] = None
        /\ req'[r].snapshot = req[r].snapshot
        /\ req'[r].attempted = req[r].attempted \cup {a}
    BY <2>1, <2>2 DEF Locals, Typed
  <2>6. Remaining(r)' = Remaining(r) \ {a}
    BY <2>5 DEF Remaining
  <2>7. Cardinality(Remaining(r) \ {a}) = Cardinality(Remaining(r)) - 1
    BY <2>1, RemainingFinite, FS_RemoveElement
  <2>8. Cardinality(Remaining(r)) <= req[r].left + 1
    BY <2>1 DEF Sound, Budget
  <2>9. GuardFits(r)' /\ Fresh(r)'
    BY <2>1, <2>5 DEF Sound, GuardFits, Fresh
  <2>10. Budget(r)'
    BY <1>0, <2>5, <2>6, <2>7, <2>8 DEF Budget
  <2> QED
    BY <2>4, <2>9, <2>10 DEF Sound
<1> QED
  BY <1>1, <1>2, <1>3, <1>4, <1>5, <1>6, <1>7, <1>8, <1>9, <1>10, <1>11, <1>12,
     <1>13, <1>14, <1>15, <1>16
  DEF AcquisitionStep, OutOfAttempts, NothingFound, Timeout

\* Lemma: an acquisition begins with an attempt for every account of the pool.
LEMMA BeginMoves ==
  ASSUME Typed, NEW r \in Requests, Sound(r), NEW pool \in SUBSET Accounts,
         NEW preferred \in Accounts \cup {None}, Begin(r, pool, preferred)
  PROVE  Moved(r) /\ req[r].pc = "idle" /\ req'[r].pc \in {"preferred", "loop"}
<1>1. PICK p \in {"preferred", "loop"}, c \in Accounts \cup {None}, snap \in SUBSET pool,
           rot \in BOOLEAN :
        /\ p = "preferred" => c \in Accounts
        /\ req' = [req EXCEPT ![r] = [Idle EXCEPT !.pc = p, !.chosen = c, !.snapshot = snap,
             !.attempted = excluded[r], !.left = Cardinality(pool), !.rotate = rot]]
  <2> DEFINE kept == {a \in pool : status[a] # "protected"}
             fixed == preferred \in kept /\ status[preferred] \notin Locks
  <2> WITNESS (IF fixed THEN "preferred" ELSE "loop") \in {"preferred", "loop"},
              (IF fixed THEN preferred ELSE None) \in Accounts \cup {None},
              kept \in SUBSET pool, (excluded[r] # {}) \in BOOLEAN
  <2> QED
    BY DEF Begin
<1>2. req[r].pc = "idle" /\ UNCHANGED <<status, session, guard, excluded>>
  BY DEF Begin
<1>3. IsFiniteSet(pool) /\ Cardinality(pool) \in 0 .. Cardinality(Accounts)
  <2>1. IsFiniteSet(pool) /\ Cardinality(pool) <= Cardinality(Accounts)
    BY FS_Subset
  <2> QED
    BY <2>1, FS_CardinalityType
<1>4. Cardinality(snap \ excluded[r]) <= Cardinality(pool)
  <2>1. snap \ excluded[r] \in SUBSET pool
    OBVIOUS
  <2> QED
    BY <2>1, <1>3, FS_Subset
<1> DEFINE l == [Idle EXCEPT !.pc = p, !.chosen = c, !.snapshot = snap,
                   !.attempted = excluded[r], !.left = Cardinality(pool), !.rotate = rot]
<1>5. /\ l \in Locals
      /\ l.pc = p /\ l.chosen = c /\ l.snapshot = snap /\ l.attempted = excluded[r]
      /\ l.left = Cardinality(pool)
  <2>1. p \in Positions /\ excluded[r] \in SUBSET Accounts
    BY DEF Positions, Typed
  <2> QED
    BY <2>1, <1>3 DEF Idle, Locals
<1> HIDE DEF l
<1>6. req' \in [Requests -> Locals] /\ req'[r] = l /\ \A q \in Requests \ {r} : req'[q] = req[q]
  BY <1>1, <1>5 DEF Typed, l
<1>7. Typed' /\ OthersStay(r)
  BY <1>2, <1>6 DEF Typed, session, OthersStay
<1>8. Sound(r)' /\ req'[r].pc \in {"preferred", "loop"}
  BY <1>1, <1>2, <1>4, <1>5, <1>6
  DEF Sound, GuardFits, Fresh, Budget, Remaining, Guarded, Searching, Probing, Chosen
<1> QED
  BY <1>2, <1>7, <1>8 DEF Moved

\* Lemma: what the handler does with the account keeps its request sound.
LEMMA HandlerMoves ==
  ASSUME Typed, NEW r \in Requests, Sound(r), HandlerStep(r)
  PROVE  Moved(r)
<1>1. ASSUME NEW pool \in SUBSET Accounts, NEW p \in Accounts \cup {None}, Begin(r, pool, p)
      PROVE  Moved(r)
  BY <1>1, BeginMoves
<1>2. ASSUME req[r].pc = "serving" PROVE req[r].chosen \in Accounts
  BY <1>2 DEF Sound, Fresh
<1>3. ASSUME RequestSucceeds(r) PROVE Moved(r)
  <2>1. status' \in [Accounts -> Statuses] /\ failures' \in 0 .. Threshold /\ bound' = bound
    BY <1>2, <1>3 DEF RequestSucceeds, Typed, Statuses, Locks, Restraints
  <2> QED
    BY <1>3, <2>1, EndEffect DEF RequestSucceeds, Moved, Typed
<1>4. ASSUME RequestLost(r) PROVE Moved(r)
  <2>1. excluded[r] \cup {req[r].chosen} \in SUBSET Accounts
    BY <1>2, <1>4 DEF RequestLost, Typed
  <2> QED
    BY <1>4, <2>1, EndEffect DEF RequestLost, Moved, Typed, session
<1>5. ASSUME GiveUp(r) PROVE Moved(r)
  BY <1>5 DEF GiveUp, Moved, Typed, OthersStay, session, Sound, GuardFits, Fresh, Budget, Remaining
<1>6. ASSUME NEW k \in LockKinds, RequestRefused(r, k) PROVE Moved(r)
  <2>1. status' \in [Accounts -> Statuses]
    BY <1>2, <1>6 DEF RequestRefused, Typed, Statuses, Locks
  <2>2. failures' \in 0 .. Threshold /\ bound' = bound
    BY <1>6 DEF RequestRefused, Typed
  <2>3. excluded[r] \cup {req[r].chosen} \in SUBSET Accounts
    BY <1>2, <1>6 DEF RequestRefused, Typed
  <2> QED
    BY <1>6, <2>1, <2>2, <2>3, EndEffect DEF RequestRefused, Moved, Typed
<1> QED
  BY <1>1, <1>3, <1>4, <1>5, <1>6 DEF HandlerStep

\* Lemma: what happens around the requests touches only the accounts and the
\* session.
LEMMA EnvironmentStays ==
  ASSUME Typed, EnvironmentStep
  PROVE  Typed' /\ UNCHANGED <<req, guard, excluded>>
<1>1. ASSUME NEW a \in Accounts, Relax(a) PROVE Typed' /\ UNCHANGED <<req, guard, excluded>>
  BY <1>1 DEF Relax, Typed, session, Statuses, Locks
<1>2. ASSUME NEW a \in Accounts, Restrain(a) PROVE Typed' /\ UNCHANGED <<req, guard, excluded>>
  <2>1. status' \in [Accounts -> Statuses]
    BY <1>2 DEF Restrain, Typed, Statuses, Restraints
  <2> QED
    BY <1>2, <2>1 DEF Restrain, Typed, session
<1>3. ASSUME CleanupTick PROVE Typed' /\ UNCHANGED <<req, guard, excluded>>
  BY <1>3 DEF CleanupTick, Typed
<1> QED
  BY <1>1, <1>2, <1>3 DEF EnvironmentStep

\* Lemma: every step keeps the types and every request sound.
LEMMA SoundStep ==
  ASSUME Typed, \A r \in Requests : Sound(r), [Next]_vars
  PROVE  Typed' /\ \A r \in Requests : Sound(r)'
<1> USE DEF Sound, GuardFits, Fresh, Budget, Remaining
<1>1. ASSUME NEW r \in Requests, AcquisitionStep(r) \/ HandlerStep(r)
      PROVE  Typed' /\ \A q \in Requests : Sound(q)'
  <2>1. Typed' /\ OthersStay(r) /\ Sound(r)'
    BY <1>1, AcquisitionMoves, HandlerMoves DEF Moved
  <2>2. ASSUME NEW q \in Requests \ {r} PROVE Sound(q)'
    BY <2>1, <2>2 DEF OthersStay
  <2> QED
    BY ZenonT(60), <2>1, <2>2
<1>2. CASE EnvironmentStep
  BY <1>2, EnvironmentStays
<1>3. CASE UNCHANGED vars
  BY <1>3 DEF vars, impl, Typed
<1> QED
  BY <1>1, <1>2, <1>3 DEF Next

-----------------------------------------------------------------------------
(* Accounts usable all along.                                               *)

\* Where an acquisition is once no candidate was left.
Fruitless == Probing \cup {"recovery", "probed", "reacquire"}

\* Lemma: the accounts usable all along only become fewer, and are usable now.
LEMMA WatchEffect ==
  ASSUME Watch, NEW r \in Requests
  PROVE  /\ req'[r].pc = "idle" => witness'[r] = {}
         /\ \A a \in witness'[r] : Usable(r, a)'
         /\ req[r].pc # "idle" => witness'[r] \subseteq witness[r]
BY DEF Watch

\* Lemma: a request without a guard of the account takes none of its slots.
LEMMA CountedOthers ==
  ASSUME NEW r \in Requests, NEW a, guard[r] # a
  PROVE  {q \in Requests \ {r} : guard[q] = a} = {q \in Requests : guard[q] = a}
OBVIOUS

\* Lemma: a step of a request loses no account that is usable all along: scoring
\* takes every usable account for a candidate, and a candidate is given up only
\* while the others fill it.
LEMMA WatchedMoves ==
  ASSUME Typed, NEW r \in Requests, Sound(r), Watched(r), Watch,
         AcquisitionStep(r) \/ HandlerStep(r)
  PROVE  Watched(r)'
<1> USE DEF Searching, Probing, Fruitless, Guarded
<1>0. /\ req'[r].pc = "idle" => witness'[r] = {}
      /\ \A a \in witness'[r] : Usable(r, a)'
      /\ req[r].pc # "idle" => witness'[r] \subseteq witness[r]
  BY WatchEffect
<1>a. /\ req[r].candidates \in SUBSET Accounts /\ req[r].snapshot \in SUBSET Accounts
      /\ Candidates(r) \in SUBSET Accounts /\ req[r].pc \in Positions
  BY CandidatesType
<1>1. SUFFICES /\ req'[r].pc = "scored" => witness'[r] \subseteq req'[r].candidates
               /\ req'[r].pc \in Fruitless => witness'[r] = {}
  BY <1>0 DEF Watched
<1>2. CASE req'[r].pc \notin Fruitless \cup {"scored"}
  BY <1>2
<1>3. ASSUME /\ req'[r].pc = "scored" /\ req'[r].candidates = Candidates(r)
             /\ req'[r].snapshot = req[r].snapshot /\ req'[r].attempted = req[r].attempted
             /\ status' = status
      PROVE  witness'[r] \subseteq req'[r].candidates
  BY <1>0, <1>3 DEF Usable, Candidates, Eligible
<1>4. CASE StartAttempt(r)
  <2>1. req' = [req EXCEPT ![r] = [req[r] EXCEPT
           !.left = req[r].left - 1,
           !.pc = IF req[r].rotate THEN "scored" ELSE "ultra",
           !.candidates = IF req[r].rotate THEN Candidates(r) ELSE Candidates(r) \cap Ultra]]
    BY <1>4 DEF StartAttempt, Typed
  <2>2. /\ req'[r].pc = "scored" => req'[r].candidates = Candidates(r)
        /\ req'[r].pc \in {"ultra", "scored"}
        /\ req'[r].snapshot = req[r].snapshot /\ req'[r].attempted = req[r].attempted
    BY <2>1 DEF Typed, Locals
  <2>3. status' = status
    BY <1>4 DEF StartAttempt
  <2> QED
    BY <1>3, <2>2, <2>3
<1>5. ASSUME NEW a \in Accounts, TryCandidate(r, a)
      PROVE  /\ req'[r].pc = "scored" => witness'[r] \subseteq req'[r].candidates
             /\ req'[r].pc \in Fruitless => witness'[r] = {}
  <2>1. CASE TakeGuard(r, a, "bind")
    BY <2>1, TakeGuardEffect DEF Positions
  <2>2. CASE ~ Free(a) /\ GotoTrying(r, req[r].pc, req[r].candidates \ {a}) /\ UNCHANGED guard
    <3>1. /\ req'[r].pc = req[r].pc /\ req'[r].candidates = req[r].candidates \ {a}
      BY <1>a, <2>2, GotoTryingEffect
    <3>2. guard[r] # a
      BY <1>5, TokenSelectionAssumption DEF TryCandidate, Sound, GuardFits, Guarded
    <3>3. ~ Usable(r, a)'
      BY <2>2, <3>2, CountedOthers DEF Usable, Free
    <3> QED
      BY <1>0, <1>5, <3>1, <3>3 DEF Watched, TryCandidate
  <2> QED
    BY <1>5, <2>1, <2>2 DEF TryCandidate
<1>6. CASE Sticky(r)
  <2>1. /\ "scored" \in Positions /\ "bind" \in Positions /\ status' = status
    BY <1>6 DEF Positions, Sticky
  <2>2. CASE bound \in Accounts /\ TakeGuard(r, bound, "bind")
    BY <2>1, <2>2, TakeGuardEffect
  <2>3. CASE GotoTrying(r, "scored", Candidates(r))
    BY <1>3, <1>a, <2>1, <2>3, GotoTryingEffect
  <2> QED
    BY <1>6, <1>a, <2>2, <2>3 DEF Sticky
<1>7. CASE NoCandidate(r)
  <2>1. req[r].pc = "scored" /\ witness[r] = {}
    BY <1>7 DEF NoCandidate, Watched
  <2>2. req'[r].pc = "recovery"
    BY <1>7, GotoEffect DEF NoCandidate, Positions
  <2> QED
    BY <1>0, <2>1, <2>2
<1>8. CASE req[r].pc \in Fruitless
  <2>1. witness'[r] = {}
    BY <1>0, <1>8 DEF Watched
  <2> QED
    BY <2>1
<1>9. ASSUME NEW p \in Positions, p \notin Fruitless \cup {"scored"}, Goto(r, p)
      PROVE  req'[r].pc \notin Fruitless \cup {"scored"}
  BY <1>9, GotoEffect
<1>10. ASSUME NEW S \in SUBSET Accounts, End(r, S)
       PROVE  req'[r].pc \notin Fruitless \cup {"scored"}
  BY <1>10 DEF End, Idle, Typed
<1>11. CASE PreferredServes(r)
  <2>1. req[r].chosen \in Accounts
    BY <1>11 DEF PreferredServes, Sound, Fresh
  <2> QED
    BY <1>2, <1>11, <2>1, TakeGuardEffect DEF PreferredServes, Positions
<1>12. CASE PreferredFails(r)
  <2>1. req'[r].pc = "loop"
    BY <1>12 DEF PreferredFails, Typed, Locals
  <2> QED
    BY <1>2, <2>1
<1>13. CASE NoUltra(r) \/ Bind(r) \/ RefreshSucceeds(r)
  BY <1>2, <1>9, <1>13 DEF NoUltra, Bind, RefreshSucceeds, Positions
<1>14. CASE RefreshFails(r)
  <2>1. req'[r].pc = "loop"
    BY <1>14 DEF RefreshFails, Typed, Locals
  <2> QED
    BY <1>2, <2>1
<1>15. CASE OutOfAttempts(r) \/ NothingFound(r) \/ Timeout(r)
  BY <1>2, <1>10, <1>15 DEF OutOfAttempts, NothingFound, Timeout, Fail
<1>16. CASE \/ \E a \in Accounts : Probe(r, a)
            \/ Recover(r) \/ OptimisticReset(r) \/ DropProbe(r) \/ Reacquire(r)
  BY <1>8, <1>16 DEF Probe, Recover, OptimisticReset, DropProbe, Reacquire
<1>17. CASE HandlerStep(r)
  <2>1. CASE \E pool \in SUBSET Accounts \ {{}}, p \in Accounts \cup {None} : Begin(r, pool, p)
    BY <1>2, <2>1, BeginMoves
  <2>2. CASE \E S \in SUBSET Accounts : End(r, S)
    BY <1>2, <1>10, <2>2
  <2>3. CASE GiveUp(r)
    <3>1. req'[r].pc = "idle"
      BY <2>3 DEF GiveUp
    <3> QED
      BY <1>2, <3>1
  <2>4. req[r].pc = "serving" => excluded[r] \cup {req[r].chosen} \in SUBSET Accounts
    BY DEF Sound, Fresh, Typed
  <2>5. CASE RequestSucceeds(r) \/ RequestLost(r) \/ \E k \in LockKinds : RequestRefused(r, k)
    BY <2>2, <2>4, <2>5 DEF RequestSucceeds, RequestLost, RequestRefused
  <2> QED
    BY <1>17, <2>1, <2>3, <2>5 DEF HandlerStep
<1> QED
  BY <1>4, <1>5, <1>6, <1>7, <1>11, <1>12, <1>13, <1>14, <1>15, <1>16, <1>17
  DEF AcquisitionStep

\* Lemma: every step of anyone keeps that for every request.
LEMMA WatchedStep ==
  ASSUME Typed, \A r \in Requests : Sound(r) /\ Watched(r), [Next]_vars
  PROVE  \A r \in Requests : Watched(r)'
<1> USE DEF Probing
<1>1. ASSUME NEW q \in Requests, req'[q] = req[q], Watch PROVE Watched(q)'
  <2>1. /\ req'[q].pc = "idle" => witness'[q] = {}
        /\ \A a \in witness'[q] : Usable(q, a)'
        /\ req[q].pc # "idle" => witness'[q] \subseteq witness[q]
    BY <1>1, WatchEffect
  <2> QED
    BY <1>1, <2>1 DEF Watched
<1>2. ASSUME NEW r \in Requests, AcquisitionStep(r) \/ HandlerStep(r), Watch,
             NEW q \in Requests
      PROVE  Watched(q)'
  <2>1. CASE q = r
    BY <1>2, <2>1, WatchedMoves
  <2>2. CASE q # r
    <3>1. OthersStay(r)
      BY <1>2, AcquisitionMoves, HandlerMoves DEF Moved
    <3> QED
      BY <1>1, <1>2, <2>2, <3>1 DEF OthersStay
  <2> QED
    BY <2>1, <2>2
<1>3. ASSUME EnvironmentStep, Watch, NEW q \in Requests PROVE Watched(q)'
  BY <1>1, <1>3, EnvironmentStays
<1>4. ASSUME UNCHANGED vars, NEW q \in Requests PROVE Watched(q)'
  BY <1>4 DEF vars, impl, Watched, Usable
<1> QED
  BY <1>2, <1>3, <1>4 DEF Next

-----------------------------------------------------------------------------
(* The theorems.                                                            *)

\* Lemma: the history variable stays a set of accounts for each request.
LEMMA WitnessType ==
  ASSUME witness \in [Requests -> SUBSET Accounts], [Next]_vars
  PROVE  witness' \in [Requests -> SUBSET Accounts]
<1>1. CASE Watch
  BY <1>1 DEF Watch
<1>2. CASE UNCHANGED vars
  BY <1>2 DEF vars, impl
<1> QED
  BY <1>1, <1>2 DEF Next

\* Lemma: the type invariant and its parts say the same.
LEMMA Types == TypeOK <=> Typed /\ witness \in [Requests -> SUBSET Accounts]
BY DEF TypeOK, Typed, Locals

\* Lemma: the invariant holds at the start.
LEMMA InitInvariant == Init => IInv
<1> SUFFICES ASSUME Init PROVE IInv
  OBVIOUS
<1>1. Typed /\ witness \in [Requests -> SUBSET Accounts]
  BY IdleType DEF Init, Typed, Statuses
<1>2. \A r \in Requests : req[r].pc = "idle" /\ guard[r] = None /\ witness[r] = {}
  BY DEF Init, Idle
<1>3. \A r \in Requests : Sound(r) /\ Watched(r)
  BY <1>2 DEF Sound, GuardFits, Fresh, Budget, Watched, Guarded, Searching, Probing, Chosen
<1> QED
  BY <1>1, <1>3, Types DEF IInv

\* Theorem: the inductive invariant holds in every reachable state: what each
\* request tries and has left to try, whatever the others do meanwhile.
THEOREM Invariance == Spec => []IInv
<1>1. IInv /\ [Next]_vars => IInv'
  <2> SUFFICES ASSUME IInv, [Next]_vars PROVE IInv'
    OBVIOUS
  <2>1. Typed /\ witness \in [Requests -> SUBSET Accounts]
    BY Types DEF IInv
  <2>2. Typed' /\ \A r \in Requests : Sound(r)' /\ Watched(r)'
    BY <2>1, SoundStep, WatchedStep DEF IInv
  <2>3. witness' \in [Requests -> SUBSET Accounts]
    BY <2>1, WitnessType
  <2>4. TypeOK'
    BY <2>2, <2>3 DEF TypeOK, Typed, Locals
  <2> QED
    BY <2>2, <2>4 DEF IInv
<1> QED
  BY <1>1, InitInvariant, PTL DEF Spec

\* Theorem: type correctness; in particular the attempts left never leave the
\* range of the pool.
THEOREM TypeCorrect == Spec => []TypeOK
<1>1. IInv => TypeOK
  BY DEF IInv
<1> QED
  BY <1>1, Invariance, PTL

\* Theorem: GuardFollowsChoice. A guard is held exactly of the account chosen, so
\* the slot of an account given up (a failed refresh, a timeout, an ended request)
\* is always free again.
THEOREM GuardsFollow == Spec => []GuardFollowsChoice
<1>1. IInv => GuardFollowsChoice
  BY DEF IInv, Sound, GuardFits, GuardFollowsChoice
<1> QED
  BY <1>1, Invariance, PTL

\* Lemma: whatever step takes a request from its refresh to serving, it serves
\* with the account it had chosen.
LEMMA LeavesRefresh ==
  ASSUME Typed, \A r \in Requests : Sound(r), [Next]_vars, NEW r \in Requests,
         req[r].pc = "refresh", req'[r].pc = "serving"
  PROVE  req'[r].chosen = req[r].chosen
<1> USE DEF Searching, Probing, Chosen, Guarded
<1>1. ASSUME NEW q \in Requests, AcquisitionStep(q) \/ HandlerStep(q), q # r
      PROVE  req'[r] = req[r]
  BY <1>1, AcquisitionMoves, HandlerMoves DEF Moved, OthersStay
<1>2. CASE RefreshSucceeds(r)
  BY <1>2, GotoEffect DEF RefreshSucceeds, Positions
<1>3. CASE RefreshFails(r)
  <2>1. req'[r].pc = "loop"
    BY <1>3 DEF RefreshFails, Typed, Locals
  <2> QED
    BY <2>1
<1>4. CASE Timeout(r)
  BY <1>4 DEF Timeout, Fail, End, Idle, Typed
<1>5. CASE AcquisitionStep(r)
  BY <1>2, <1>3, <1>4, <1>5 DEF AcquisitionStep, PreferredServes, PreferredFails, StartAttempt,
    OutOfAttempts, TryCandidate, Probe, NoUltra, Sticky, NoCandidate, Recover,
    OptimisticReset, NothingFound, DropProbe, Reacquire, Bind
<1>6. ~ HandlerStep(r)
  BY DEF HandlerStep, Begin, RequestSucceeds, RequestLost, GiveUp, RequestRefused
<1>7. CASE EnvironmentStep \/ UNCHANGED vars
  BY <1>7, EnvironmentStays DEF vars, impl
<1> QED
  BY <1>1, <1>5, <1>6, <1>7 DEF Next

\* Theorem: NeverAgain. But for the preferred path, no request is given an account
\* its handler excluded or its acquisition failed on.
THEOREM NeverAgainAlways == Spec => NeverAgain
<1>1. ASSUME IInv, [Next]_vars, NEW r \in Requests,
             req[r].pc = "refresh", req'[r].pc = "serving"
      PROVE  req'[r].chosen \notin excluded[r] \cup req[r].attempted
  <2>1. req'[r].chosen = req[r].chosen
    BY <1>1, LeavesRefresh, Types DEF IInv
  <2>2. /\ req[r].chosen \notin req[r].attempted
        /\ excluded[r] \subseteq req[r].attempted
    BY <1>1 DEF IInv, Sound, Fresh, Chosen, Remaining
  <2> QED
    BY <2>1, <2>2
<1>2. IInv /\ [Next]_vars =>
        [\A r \in Requests :
           req[r].pc = "refresh" /\ req'[r].pc = "serving"
             => req'[r].chosen \notin excluded[r] \cup req[r].attempted]_vars
  BY <1>1
<1> QED
  BY <1>2, Invariance, PTL DEF Spec, NeverAgain

\* Lemma: an acquisition ends at the head of its loop only without an attempt
\* left.
LEMMA GivesUpAtZero ==
  ASSUME Typed, \A r \in Requests : Sound(r), [Next]_vars, NEW r \in Requests,
         req[r].pc = "loop", req'[r].pc = "idle"
  PROVE  req[r].left = 0
<1>1. ASSUME NEW q \in Requests, AcquisitionStep(q) \/ HandlerStep(q), q # r
      PROVE  FALSE
  BY <1>1, AcquisitionMoves, HandlerMoves DEF Moved, OthersStay
<1>2. ~ StartAttempt(r)
  <2>1. StartAttempt(r) => req'[r].pc \in {"scored", "ultra"}
    BY DEF StartAttempt, Typed, Locals
  <2> QED
    BY <2>1
<1>3. AcquisitionStep(r) => OutOfAttempts(r)
  BY <1>2 DEF AcquisitionStep, PreferredServes, PreferredFails,
    TryCandidate, Probe, NoUltra, Sticky, NoCandidate, Recover,
    OptimisticReset, NothingFound, DropProbe, Reacquire, Bind, RefreshSucceeds, RefreshFails,
    Timeout
<1>4. ~ HandlerStep(r)
  BY DEF HandlerStep, Begin, RequestSucceeds, RequestLost, GiveUp, RequestRefused
<1>5. ~ (EnvironmentStep \/ UNCHANGED vars)
  BY EnvironmentStays DEF vars, impl
<1> QED
  BY <1>1, <1>3, <1>4, <1>5 DEF Next, OutOfAttempts

\* Theorem: UsableMeansServed. An acquisition gives up only if no account could
\* have served the request all along: every attempt that fails takes an account
\* out of the remaining ones, of which there are never more than attempts.
THEOREM UsableServed == Spec => UsableMeansServed
<1>1. ASSUME IInv, [Next]_vars, NEW r \in Requests, req'[r].pc = "idle",
             \/ req[r].pc \in {"loop", "recovery", "reset", "reacquire"}
             \/ req[r].pc = "wait" /\ req[r].candidates = {}
      PROVE  witness[r] = {}
  <2>1. CASE req[r].pc # "loop"
    BY <1>1, <2>1 DEF IInv, Watched, Probing
  <2>2. CASE req[r].pc = "loop"
    <3>1. req[r].left = 0
      BY <1>1, <2>2, GivesUpAtZero, Types DEF IInv
    <3>2. Cardinality(Remaining(r)) <= 0
      BY <1>1, <2>2, <3>1 DEF IInv, Sound, Budget
    <3>3. Remaining(r) = {}
      BY <1>1, <3>2, Types, RemainingFinite, FS_EmptySet DEF IInv
    <3>4. witness[r] \subseteq Remaining(r)
      BY <1>1 DEF IInv, Watched, Usable, Remaining
    <3> QED
      BY <3>3, <3>4
  <2> QED
    BY <2>1, <2>2
<1>2. IInv /\ [Next]_vars =>
        [\A r \in Requests :
           /\ req'[r].pc = "idle"
           /\ \/ req[r].pc \in {"loop", "recovery", "reset", "reacquire"}
              \/ req[r].pc = "wait" /\ req[r].candidates = {}
           => witness[r] = {}]_vars
  BY <1>1
<1> QED
  BY <1>2, Invariance, PTL DEF Spec, UsableMeansServed
=============================================================================
