--------------------------- MODULE RequestProofs ---------------------------
(***************************************************************************)
(* Theorems about RetryLoop for any number of requests, any finite set of  *)
(* accounts and any cap of the attempts.                                   *)
(*                                                                         *)
(* The argument for the bound: a counted attempt pays for two rounds; a    *)
(* grace retry uses the second round of the attempt it is part of, and is  *)
(* only possible while the flag is down.                                   *)
(*                                                                         *)
(* Then, each with constants and variables of its own, the numbers of a    *)
(* request: its thinking budget (ThinkingBudget), and the tokens estimated *)
(* and reported of it (TokenReports); the model that is asked              *)
(* (ModelRoutes); and what is noted of it (RequestLog).                    *)
(***************************************************************************)
EXTENDS RetryLoop, Integers, Sequences, FiniteSetTheorems, SequenceTheorems,
        WellFoundedInduction, TLAPS

\* How many rounds a request can have made at each position.
Rounds ==
  \A r \in Requests :
    /\ pc[r] = "idle" => calls[r] <= 2 * req[r].max_attempts
    /\ pc[r] = "selecting" =>
         \/ calls[r] <= 2 * req[r].attempt
         \/ /\ req[r].attempt < req[r].max_attempts /\ req[r].grace
            /\ calls[r] <= 2 * req[r].attempt + 1
    /\ pc[r] = "calling" =>
         \/ calls[r] <= 2 * req[r].attempt + 1
         \/ req[r].grace /\ calls[r] <= 2 * req[r].attempt + 2

\* Requests whose attempts each exclude another account.
Rotating(r) == req[r].kind \in {"chat", "claude"} /\ req[r].forced = None

Repairs(r) == IF req[r].thinking THEN 1 ELSE 0

\* Every excluded account was asked, and each attempt excluded a new one.
Different ==
  \A r \in Requests :
    /\ req[r].attempted \subseteq asked[r]
    /\ pc[r] = "calling" => req[r].account \in asked[r]
    /\ Rotating(r) =>
         /\ req[r].attempt <= Cardinality(req[r].attempted) + Repairs(r)
         /\ pc[r] = "calling" => req[r].account \notin req[r].attempted

IInv == TypeOK /\ Rounds /\ Different

-----------------------------------------------------------------------------

\* Lemma: a start-up satisfies the invariant.
LEMMA InitIInv == Init => IInv
<1> SUFFICES ASSUME Init PROVE IInv
  OBVIOUS
<1>1. TypeOK
  BY RetryLoopAssumption DEF Init, TypeOK, Fresh, Locals, Kinds
<1>2. Rounds
  BY DEF Init, Rounds, Fresh
<1>3. ASSUME NEW r \in Requests
      PROVE  /\ req[r].attempted = {} /\ req[r].attempt = 0 /\ ~ req[r].thinking
             /\ pc[r] = "idle"
  BY DEF Init, Fresh
<1>4. Different
  BY <1>3, FS_EmptySet DEF Different, Repairs
<1> QED
  BY <1>1, <1>2, <1>4 DEF IInv

\* Lemma: the number of attempts a request may make is between 1 and the cap.
LEMMA StartsWithAttempts ==
  ASSUME TypeOK, NEW n, n = Cardinality(pool)
  PROVE  (IF n = 0 THEN 1 ELSE IF n < MAX_RETRY_ATTEMPTS THEN n ELSE MAX_RETRY_ATTEMPTS)
           \in 1 .. MAX_RETRY_ATTEMPTS
<1>1. n \in Nat
  BY RetryLoopAssumption, FS_Subset, FS_CardinalityType DEF TypeOK
<1> QED
  BY <1>1, RetryLoopAssumption

\* Lemma: the chat and Claude handlers exclude the account of every attempt
\* that counts, but for a repaired signature.
LEMMA RotatingExcludes ==
  ASSUME NEW why \in DOMAIN Retried, NEW kind \in {"chat", "claude"},
         kind \in Retried[why]
  PROVE  kind \in Excluding[why] \/ (why = "signature" /\ kind = "claude")
BY DEF Retried, Excluding, Kinds

\* Lemma: a counted failure keeps the types of a handler's locals.
LEMMA RetryLocals ==
  ASSUME NEW q \in Locals, NEW n \in Nat, NEW S \in SUBSET Accounts,
         NEW g \in BOOLEAN, NEW t \in BOOLEAN
  PROVE  [q EXCEPT !.attempt = n, !.attempted = S, !.grace = g, !.thinking = t] \in Locals
BY DEF Locals

\* Lemma: so does a grace retry.
LEMMA GraceLocals ==
  ASSUME NEW q \in Locals, NEW n \in Nat
  PROVE  [q EXCEPT !.grace = TRUE, !.attempt = n] \in Locals
BY DEF Locals

\* Lemma: so does an acquisition.
LEMMA AcquireLocals ==
  ASSUME NEW q \in Locals, NEW a \in Accounts
  PROVE  [q EXCEPT !.account = a] \in Locals
BY DEF Locals

\* Lemma: every step keeps the types.
LEMMA TypeStep == TypeOK /\ [Next]_vars => TypeOK'
<1> SUFFICES ASSUME TypeOK, [Next]_vars PROVE TypeOK'
  OBVIOUS
<1> USE DEF TypeOK, history
<1>1. ASSUME NEW r \in Requests, Start(r) PROVE TypeOK'
  <2>1. PICK kind \in Kinds, forced \in Accounts \cup {None} :
          req' = [req EXCEPT ![r] = Fresh(kind, forced,
            LET n == Cardinality(pool)
            IN IF n = 0 THEN 1
               ELSE IF n < MAX_RETRY_ATTEMPTS THEN n ELSE MAX_RETRY_ATTEMPTS)]
    BY <1>1 DEF Start
  <2>2. PICK m \in 1 .. MAX_RETRY_ATTEMPTS : req' = [req EXCEPT ![r] = Fresh(kind, forced, m)]
    BY <2>1, StartsWithAttempts
  <2>3. Fresh(kind, forced, m) \in Locals /\ Fresh(kind, forced, m).attempt <= m
    BY <2>2 DEF Fresh, Locals
  <2> QED
    BY <1>1, <2>2, <2>3 DEF Start, Fresh
<1>2. ASSUME NEW r \in Requests, Acquire(r) PROVE TypeOK'
  <2>1. PICK a \in Accounts : req' = [req EXCEPT ![r].account = a]
    BY <1>2 DEF Acquire, Acquirable
  <2>2. req' \in [Requests -> Locals]
    <3>1. [req[r] EXCEPT !.account = a] \in Locals
      BY AcquireLocals
    <3>2. req' = [req EXCEPT ![r] = [req[r] EXCEPT !.account = a]]
      BY <2>1, Zenon
    <3> QED
      BY <3>1, <3>2
  <2>3. asked' \in [Requests -> SUBSET Accounts]
    BY <1>2 DEF Acquire, Acquirable
  <2>4. calls' \in [Requests -> Nat]
    BY <1>2 DEF Acquire
  <2> QED
    BY <1>2, <2>1, <2>2, <2>3, <2>4 DEF Acquire, Locals
<1>3. ASSUME NEW r \in Requests, AcquireFails(r) \/ Exhaust(r) PROVE TypeOK'
  BY <1>3 DEF AcquireFails, Exhaust
<1>4. ASSUME NEW r \in Requests, Answer(r) PROVE TypeOK'
  BY <1>4 DEF Answer
<1>5. ASSUME NEW r \in Requests, StopOnQuota(r) PROVE TypeOK'
  BY <1>5 DEF StopOnQuota, Locking
<1>6. ASSUME NEW r \in Requests, GraceRetry(r) PROVE TypeOK'
  <2>1. PICK n \in {req[r].attempt, req[r].attempt + 1} :
          req' = [req EXCEPT ![r].grace = TRUE, ![r].attempt = n]
    BY <1>6 DEF GraceRetry
  <2>2. n \in Nat /\ n <= req[r].max_attempts
    BY <1>6 DEF GraceRetry, Locals
  <2>3. req' \in [Requests -> Locals]
    <3>1. [req[r] EXCEPT !.grace = TRUE, !.attempt = n] \in Locals
      BY <2>2, GraceLocals
    <3>2. req' = [req EXCEPT ![r] = [req[r] EXCEPT !.grace = TRUE, !.attempt = n]]
      BY <2>1, Zenon
    <3> QED
      BY <3>1, <3>2
  <2>4. \A s \in Requests : req'[s].attempt <= req'[s].max_attempts
    BY <2>1, <2>2 DEF Locals
  <2>5. \A s \in Requests :
          pc'[s] = "calling" => s # r /\ pc[s] = "calling" /\ req'[s] = req[s]
    BY <1>6, <2>1 DEF GraceRetry
  <2>6. locked' \subseteq Accounts
    BY <1>6 DEF GraceRetry
  <2>7. /\ pc' \in [Requests -> {"idle", "selecting", "calling"}]
        /\ pool' = pool /\ calls' = calls /\ asked' = asked
    BY <1>6 DEF GraceRetry
  <2> QED
    BY <2>3, <2>4, <2>5, <2>6, <2>7
<1>7. ASSUME NEW r \in Requests, NEW why \in DOMAIN Retried, Retry(r, why) PROVE TypeOK'
  <2>1. PICK S \in SUBSET Accounts, g \in BOOLEAN, t \in BOOLEAN :
          req' = [req EXCEPT ![r].attempt = @ + 1, ![r].attempted = S,
                             ![r].grace = g, ![r].thinking = t]
    <3> DEFINE S == IF req[r].kind \in Excluding[why]
                      THEN req[r].attempted \cup {req[r].account} ELSE req[r].attempted
               g == req[r].grace /\ req[r].kind \notin ForgettingGrace[why]
               t == req[r].thinking \/ (why = "signature" /\ req[r].kind = "claude")
    <3>1. S \in SUBSET Accounts
      BY <1>7 DEF Retry, Locals
    <3>2. g \in BOOLEAN /\ t \in BOOLEAN
      BY Zenon DEF Locals
    <3>3. req' = [req EXCEPT ![r].attempt = @ + 1, ![r].attempted = S,
                             ![r].grace = g, ![r].thinking = t]
      BY <1>7, Zenon DEF Retry
    <3> QED
      BY <3>1, <3>2, <3>3, Zenon
  <2>2. req[r].attempt + 1 \in Nat /\ req[r].attempt + 1 <= req[r].max_attempts
    BY <1>7 DEF Retry, Locals
  <2>3. req' \in [Requests -> Locals]
    <3>1. [req[r] EXCEPT !.attempt = req[r].attempt + 1, !.attempted = S,
                         !.grace = g, !.thinking = t] \in Locals
      BY <2>2, RetryLocals
    <3>2. req' = [req EXCEPT ![r] =
            [req[r] EXCEPT !.attempt = req[r].attempt + 1, !.attempted = S,
                           !.grace = g, !.thinking = t]]
      BY <2>1, Zenon
    <3> QED
      BY <3>1, <3>2
  <2>4. \A s \in Requests : req'[s].attempt <= req'[s].max_attempts
    BY <2>1, <2>2 DEF Locals
  <2>5. \A s \in Requests :
          pc'[s] = "calling" => s # r /\ pc[s] = "calling" /\ req'[s] = req[s]
    BY <1>7, <2>1 DEF Retry
  <2>6. locked' \subseteq Accounts
    BY <1>7 DEF Retry, Locking
  <2>7. /\ pc' \in [Requests -> {"idle", "selecting", "calling"}]
        /\ pool' = pool /\ calls' = calls /\ asked' = asked
    BY <1>7 DEF Retry
  <2> QED
    BY <2>3, <2>4, <2>5, <2>6, <2>7
<1>8. ASSUME NEW a \in Accounts, Unlock(a) \/ ChangePool(a) PROVE TypeOK'
  BY <1>8 DEF Unlock, ChangePool
<1>9. CASE UNCHANGED vars
  BY <1>9 DEF vars
<1> QED
  BY <1>1, <1>2, <1>3, <1>4, <1>5, <1>6, <1>7, <1>8, <1>9 DEF Next, HandlerStep

\* Lemma: every step keeps the count of rounds below what attempts pay for.
LEMMA RoundsStep == TypeOK /\ Rounds /\ [Next]_vars => Rounds'
<1> SUFFICES ASSUME TypeOK, Rounds, [Next]_vars PROVE Rounds'
  OBVIOUS
<1> USE DEF TypeOK, Rounds, history, Locals
<1>1. ASSUME NEW r \in Requests, Start(r) PROVE Rounds'
  <2>1. req'[r].attempt = 0 /\ calls'[r] = 0 /\ pc'[r] = "selecting"
    BY <1>1 DEF Start, Fresh
  <2> QED
    BY <1>1, <2>1 DEF Start
<1>2. ASSUME NEW r \in Requests, Acquire(r) PROVE Rounds'
  <2>1. /\ req'[r].attempt = req[r].attempt /\ req'[r].grace = req[r].grace
        /\ calls'[r] = calls[r] + 1 /\ pc'[r] = "calling"
    BY <1>2 DEF Acquire
  <2> QED
    BY <1>2, <2>1 DEF Acquire
<1>3. ASSUME NEW r \in Requests,
             AcquireFails(r) \/ Exhaust(r) \/ Answer(r) \/ StopOnQuota(r)
      PROVE  Rounds'
  <2>1. /\ pc' = [pc EXCEPT ![r] = "idle"] /\ UNCHANGED <<req, calls>>
        /\ pc[r] \in {"selecting", "calling"}
    BY <1>3 DEF AcquireFails, Exhaust, Answer, StopOnQuota
  <2>2. calls[r] <= 2 * req[r].max_attempts
    BY <2>1
  <2> QED
    BY <2>1, <2>2
<1>4. ASSUME NEW r \in Requests, GraceRetry(r) PROVE Rounds'
  <2>1. /\ ~ req[r].grace /\ req'[r].grace /\ req'[r].max_attempts = req[r].max_attempts
        /\ req'[r].attempt \in {req[r].attempt, req[r].attempt + 1}
        /\ pc[r] = "calling" /\ pc'[r] = "selecting" /\ calls' = calls
    BY <1>4 DEF GraceRetry
  <2> QED
    BY <1>4, <2>1 DEF GraceRetry
<1>5. ASSUME NEW r \in Requests, NEW why \in DOMAIN Retried, Retry(r, why) PROVE Rounds'
  <2>1. /\ req'[r].attempt = req[r].attempt + 1
        /\ pc[r] = "calling" /\ pc'[r] = "selecting" /\ calls' = calls
    BY <1>5 DEF Retry
  <2> QED
    BY SMTT(30), <1>5, <2>1 DEF Retry
<1>6. ASSUME NEW a \in Accounts, Unlock(a) \/ ChangePool(a) PROVE Rounds'
  BY <1>6 DEF Unlock, ChangePool
<1>7. CASE UNCHANGED vars
  BY <1>7 DEF vars
<1> QED
  BY <1>1, <1>2, <1>3, <1>4, <1>5, <1>6, <1>7 DEF Next, HandlerStep

-----------------------------------------------------------------------------

\* Lemma: every step keeps the excluded accounts different and asked.
LEMMA DifferentStep == TypeOK /\ Different /\ [Next]_vars => Different'
<1> SUFFICES ASSUME TypeOK, Different, [Next]_vars PROVE Different'
  OBVIOUS
<1> USE DEF TypeOK, Different, Rotating, Repairs, history, Locals
<1>1. ASSUME NEW r \in Requests, Start(r) PROVE Different'
  <2>1. /\ req'[r].attempt = 0 /\ req'[r].attempted = {} /\ ~ req'[r].thinking
        /\ pc'[r] = "selecting"
    BY <1>1 DEF Start, Fresh
  <2>2. Cardinality({}) = 0
    BY FS_EmptySet
  <2>3. \A s \in Requests \ {r} :
          req'[s] = req[s] /\ pc'[s] = pc[s] /\ asked'[s] = asked[s]
    BY <1>1 DEF Start
  <2>4. req'[r].attempt <= Cardinality(req'[r].attempted) + Repairs(r)'
    BY <2>1, <2>2
  <2> QED
    BY <2>1, <2>3, <2>4
<1>2. ASSUME NEW r \in Requests, Acquire(r) PROVE Different'
  <2>1. PICK a \in Acquirable(r) \cup (pool \cap {req[r].forced}) :
          /\ req' = [req EXCEPT ![r].account = a]
          /\ asked' = [asked EXCEPT ![r] = @ \cup {a}]
    BY <1>2 DEF Acquire
  <2>2. Rotating(r) => a \notin req[r].attempted
    BY <2>1, RetryLoopAssumption DEF Acquirable
  <2> QED
    BY <1>2, <2>1, <2>2 DEF Acquire
<1>3. ASSUME NEW r \in Requests,
             AcquireFails(r) \/ Exhaust(r) \/ Answer(r) \/ StopOnQuota(r)
      PROVE  Different'
  BY <1>3 DEF AcquireFails, Exhaust, Answer, StopOnQuota
<1>4. ASSUME NEW r \in Requests, GraceRetry(r) PROVE Different'
  <2>1. /\ req'[r].attempted = req[r].attempted /\ req'[r].kind = req[r].kind
        /\ req'[r].forced = req[r].forced /\ req'[r].thinking = req[r].thinking
        /\ Rotating(r) => req'[r].attempt = req[r].attempt
        /\ pc'[r] = "selecting" /\ asked' = asked
    BY <1>4 DEF GraceRetry
  <2> QED
    BY <1>4, <2>1 DEF GraceRetry
<1>5. ASSUME NEW r \in Requests, NEW why \in DOMAIN Retried, Retry(r, why) PROVE Different'
  <2> DEFINE q == req[r]
  <2>1. /\ pc[r] = "calling" /\ pc'[r] = "selecting" /\ asked' = asked
        /\ req'[r].attempt = q.attempt + 1 /\ req'[r].kind = q.kind
        /\ req'[r].forced = q.forced
        /\ req'[r].attempted =
             IF q.kind \in Excluding[why] THEN q.attempted \cup {q.account} ELSE q.attempted
        /\ req'[r].thinking = (q.thinking \/ (why = "signature" /\ q.kind = "claude"))
    BY <1>5 DEF Retry
  <2>2. req'[r].attempted \subseteq asked'[r]
    BY <2>1
  <2>3. ASSUME Rotating(r)
        PROVE  q.attempt + 1 <= Cardinality(req'[r].attempted) + Repairs(r)'
    <3>1. IsFiniteSet(q.attempted) /\ Cardinality(q.attempted) \in Nat
      BY RetryLoopAssumption, FS_Subset, FS_CardinalityType
    <3>2. q.attempt <= Cardinality(q.attempted) + Repairs(r) /\ q.account \notin q.attempted
      BY <2>1, <2>3
    <3>3. CASE q.kind \in Excluding[why]
      <4>1. Cardinality(req'[r].attempted) = Cardinality(q.attempted) + 1
        <5>1. req'[r].attempted = q.attempted \cup {q.account}
          BY <2>1, <3>3
        <5> HIDE DEF q
        <5> QED
          BY <5>1, <3>1, <3>2, FS_AddElement
      <4>2. Repairs(r) <= Repairs(r)'
        BY <2>1
      <4> QED
        BY <3>1, <3>2, <4>1, <4>2
    <3>4. CASE why = "signature" /\ q.kind = "claude"
      <4>1. ~ q.thinking
        BY <1>5, <3>4 DEF Retry
      <4>2. Repairs(r) = 0 /\ Repairs(r)' = 1
        BY <2>1, <3>4, <4>1
      <4>3. req'[r].attempted = q.attempted
        BY <2>1, <3>4 DEF Excluding
      <4> QED
        BY <3>1, <3>2, <4>2, <4>3
    <3> QED
      BY <1>5, <2>3, <3>3, <3>4, RotatingExcludes DEF Retry
  <2> QED
    BY ZenonT(60), <1>5, <2>1, <2>2, <2>3 DEF Retry
<1>6. ASSUME NEW a \in Accounts, Unlock(a) \/ ChangePool(a) PROVE Different'
  BY <1>6 DEF Unlock, ChangePool
<1>7. CASE UNCHANGED vars
  BY <1>7 DEF vars
<1> QED
  BY <1>1, <1>2, <1>3, <1>4, <1>5, <1>6, <1>7 DEF Next, HandlerStep

-----------------------------------------------------------------------------

\* In every reachable state the inductive invariant holds: rounds are paid for
\* by attempts, and attempts exclude different accounts.
THEOREM Invariance == Spec => []IInv
<1>1. IInv /\ [Next]_vars => IInv'
  BY TypeStep, RoundsStep, DifferentStep DEF IInv
<1> QED
  BY <1>1, InitIInv, PTL DEF Spec

\* The types of the handlers' locals are right for any cap and any accounts.
THEOREM TypeCorrect == Spec => []TypeOK
<1>1. IInv => TypeOK
  BY DEF IInv
<1> QED
  BY <1>1, Invariance, PTL

\* A request makes at most two rounds for each attempt it is allowed, whatever
\* the upstream answers (handlers/*: the attempts and the grace retries).
THEOREM CallsAlwaysBounded == Spec => []CallsBounded
<1>1. IInv => CallsBounded
  BY DEF IInv, CallsBounded, Rounds, TypeOK, Locals
<1> QED
  BY <1>1, Invariance, PTL

\* The chat and Claude handlers never waste an attempt on an account that has
\* failed already (chat/mod.rs, claude/error_handling.rs: attempted_accounts).
THEOREM AttemptsRotate == Spec => []AttemptsAreAccounts
<1>1. ASSUME IInv PROVE AttemptsAreAccounts
  <2> SUFFICES ASSUME NEW r \in Requests, Rotating(r)
               PROVE  req[r].attempt <= Cardinality(asked[r]) + Repairs(r)
    BY DEF AttemptsAreAccounts, Rotating, Repairs
  <2>1. /\ IsFiniteSet(asked[r])
        /\ Cardinality(req[r].attempted) <= Cardinality(asked[r])
        /\ Cardinality(req[r].attempted) \in Nat
    BY <1>1, RetryLoopAssumption, FS_Subset, FS_CardinalityType
       DEF IInv, TypeOK, Different
  <2>2. req[r].attempt <= Cardinality(req[r].attempted) + Repairs(r)
    BY <1>1 DEF IInv, Different
  <2>3. Cardinality(asked[r]) \in Nat /\ req[r].attempt \in Nat /\ Repairs(r) \in Nat
    BY <1>1, <2>1, FS_CardinalityType DEF IInv, TypeOK, Locals, Repairs
  <2> QED
    BY <2>1, <2>2, <2>3
<1> QED
  BY <1>1, Invariance, PTL

(* Lemma: a set of numbers has a least one.                                *)
LEMMA LeastExists ==
  ASSUME NEW T, T \subseteq Nat, T # {}
  PROVE  \E m \in T : \A k \in T : m <= k
<1>1. PICK m \in T : \A k \in T : ~(<<k, m>> \in OpToRel(<, Nat))
  BY NatLessThanWellFounded, WFMin
<1>2. \A k \in T : ~(k < m)
  BY <1>1, Zenon DEF OpToRel
<1> QED
  BY ONLY <1>2, T \subseteq Nat, m \in T

-----------------------------------------------------------------------------
(* ThinkingBudget: each mapper balances budget and limit; what a later     *)
(* step undoes is what Unbalanced lists.                                   *)
CONSTANTS Budgets, Limits
VARIABLES tbMode, tbCustom, tbRequest, tbSent
TB == INSTANCE ThinkingBudget

(* What is sent is a configuration with or without numbers.                *)
Bodies == [budget : Int, level : {"none", "high", "low", "medium"}, max : Nat \union {TB!None}]
(* A limit that leaves room after the thoughts, or the mapper's excuse.    *)
Balanced(r, body) ==
    body.budget > 0 => \/ body.max > body.budget
                       \/ body.max = TB!None /\ r.protocol = "gemini"
                       \/ /\ r.protocol = "claude" /\ TB!ClaudeModel(r) \in TB!Claude
                          /\ body.budget >= TB!ClaudeCeiling
                       \/ /\ r.protocol = "claude" /\ TB!ClaudeModel(r) \in TB!Gemini2
                          /\ r.effort = "medium"
                       \/ r.protocol = "gemini" /\ (r.max <= r.budget \/ r.budget >= TB!AdaptiveLimit)

(* Lemma: the numbers of the mappers.                                      *)
LEMMA BudgetNumbers ==
  /\ TB!None = -2 /\ TB!DefaultBudget = 16000 /\ TB!Overhead = 32768 /\ TB!MinOverhead = 8192
  /\ TB!FlashBudget = 24576 /\ TB!ClaudeCeiling = 64000 /\ TB!AdaptiveLimit = 131072
BY DEF TB!None, TB!DefaultBudget, TB!Overhead, TB!MinOverhead, TB!FlashBudget, TB!ClaudeCeiling,
       TB!AdaptiveLimit

(* Lemma: a configuration with another budget and level, or none.          *)
LEMMA BodyWith ==
  ASSUME NEW body \in Bodies, NEW budget \in Int, NEW level \in {"none", "high", "low", "medium"}
  PROVE  LET next == [body EXCEPT !.budget = budget, !.level = level]
         IN  next \in Bodies /\ next.budget = budget /\ next.max = body.max
<1> DEFINE next == [body EXCEPT !.budget = budget, !.level = level]
<1>1. next = [budget |-> budget, level |-> level, max |-> body.max]
  <2> DEFINE max == body.max
  <2>1. body = [budget |-> body.budget, level |-> body.level, max |-> max]
    BY DEF Bodies
  <2> DEFINE first == [body EXCEPT !.budget = budget]
  <2> HIDE DEF max
  <2>2. first = [budget |-> budget, level |-> body.level, max |-> max]
    BY <2>1
  <2>3. next = [first EXCEPT !.level = level]
    BY Zenon
  <2> HIDE DEF first, next
  <2>4. next = [budget |-> budget, level |-> level, max |-> max]
    BY <2>2, <2>3
  <2> QED
    BY <2>4 DEF max
<1> HIDE DEF next
<1> QED
  BY <1>1 DEF Bodies, next

(* Lemma: without thoughts nothing is out of balance.                      *)
LEMMA WithoutThoughts ==
  ASSUME NEW r, NEW model, NEW body \in Bodies, Balanced(r, body)
  PROVE  TB!WithoutThoughtsFor(model, body) \in Bodies /\ Balanced(r, TB!WithoutThoughtsFor(model, body))
<1> DEFINE next == [body EXCEPT !.budget = TB!None, !.level = "none"]
<1>1. next \in Bodies /\ next.budget = TB!None
  <2>1. TB!None \in Int /\ "none" \in {"none", "high", "low", "medium"}
    BY BudgetNumbers
  <2> QED
    BY ONLY <2>1, BodyWith, body \in Bodies
<1>2. TB!WithoutThoughtsFor(model, body) \in {next, body}
  BY DEF TB!WithoutThoughtsFor
<1>3. Balanced(r, next)
  <2> HIDE DEF next
  <2> QED
    BY <1>1, BudgetNumbers DEF Balanced
<1> HIDE DEF next
<1> QED
  BY <1>1, <1>2, <1>3

(* Lemma: what a request may ask for.                                      *)
LEMMA Asked ==
  ASSUME TB!ThinkingBudgetAssumption, NEW r \in TB!Requests
  PROVE  /\ r.budget \in Nat \union {-1, TB!None} /\ r.max \in Nat \union {TB!None}
         /\ r.model \in TB!Models /\ r.effort \in {"none", "high", "medium"}
         /\ r.protocol \in {"claude", "openai", "gemini"}
         /\ (r.protocol # "gemini" => r.budget \in Nat \union {TB!None})
BY DEF TB!ThinkingBudgetAssumption, TB!Requests

(* Lemma: the Claude mapper.                                               *)
LEMMA ClaudeBalances ==
  ASSUME TB!ThinkingBudgetAssumption, NEW r \in TB!Requests, r.protocol = "claude",
         tbCustom \in Nat
  PROVE  TB!FromClaude(r) \in Bodies /\ Balanced(r, TB!FromClaude(r))
<1> DEFINE c == TB!Configured
           budget == TB!ClaudeBudget(r)
           max == TB!ClaudeMax(r, budget)
           body == TB!Body(budget, "none", max)
           strained == TB!ClaudeEffort(r, body)
<1>1. /\ r.budget \in Nat \union {TB!None} /\ r.max \in Nat \union {TB!None}
      /\ r.model \in TB!Models /\ r.effort \in {"none", "high", "medium"}
  BY Asked
<1>2. c \in Nat
  BY DEF TB!Configured, TB!DefaultBudget
<1>3. budget \in Nat \union {TB!None}
  <2> HIDE DEF c
  <2>1. CASE ~TB!ClaudeThinks(r)
    BY <2>1 DEF TB!ClaudeBudget
  <2>2. CASE TB!ClaudeThinks(r) /\ r.thinking = "absent"
    BY <1>2, <2>2 DEF TB!ClaudeBudget, c
  <2>3. CASE TB!ClaudeThinks(r) /\ r.thinking # "absent"
    <3> DEFINE wanted == IF r.budget = TB!None \/ tbMode = "custom" THEN c
                        ELSE IF tbMode # "passthrough" /\ (r.search \/ r.special)
                        THEN TB!Smaller(r.budget, TB!FlashBudget) ELSE r.budget
    <3>1. budget = IF wanted > 0 THEN wanted ELSE TB!None
      BY <2>3 DEF TB!ClaudeBudget, c
    <3>2. \/ wanted = c
          \/ r.budget # TB!None /\ wanted \in {r.budget, TB!Smaller(r.budget, TB!FlashBudget)}
      <4> HIDE DEF c
      <4> QED
        BY Zenon
    <3> HIDE DEF wanted
    <3>3. wanted \in Nat
      BY <1>1, <1>2, <3>2 DEF TB!Smaller, TB!FlashBudget
    <3> HIDE DEF budget
    <3> QED
      BY <3>1, <3>3
  <2> QED
    BY <2>1, <2>2, <2>3
<1> HIDE DEF budget
<1>4. /\ max \in Nat \union {TB!None}
      /\ \/ budget = TB!None \/ max > budget
         \/ TB!ClaudeModel(r) \in TB!Claude /\ budget >= TB!ClaudeCeiling
  <2> DEFINE current == IF r.max = TB!None THEN 0 ELSE r.max
             bumped == IF budget # TB!None /\ TB!LeavesNoRoom(current, budget)
                       THEN budget + TB!Overhead ELSE r.max
  <2>1. max = IF TB!ClaudeModel(r) \in TB!Claude THEN TB!Smaller(bumped, TB!ClaudeCeiling) ELSE bumped
    BY DEF TB!ClaudeMax
  <2>2. bumped \in Nat \union {TB!None} /\ (budget = TB!None \/ bumped > budget)
    BY <1>1, <1>3, BudgetNumbers DEF TB!LeavesNoRoom
  <2> HIDE DEF bumped, max
  <2>3. CASE TB!ClaudeModel(r) \in TB!Claude
    BY <1>3, <2>1, <2>2, <2>3, BudgetNumbers DEF TB!Smaller
  <2>4. CASE TB!ClaudeModel(r) \notin TB!Claude
    BY <2>1, <2>2, <2>4
  <2> QED
    BY <2>3, <2>4
<1> HIDE DEF max
<1>5. body = [budget |-> budget, level |-> "none", max |-> max]
  BY DEF TB!Body
<1> HIDE DEF body
<1>6. TB!ClaudeModel(r) \in TB!Models
  BY <1>1 DEF TB!ClaudeModel, TB!Models, TB!Gemini2
<1>7. strained \in Bodies /\ Balanced(r, strained)
  <2>1. CASE r.effort = "none" \/ ~TB!ClaudeThinks(r) \/ TB!ClaudeModel(r) \in TB!Claude
    <3>1. strained = body
      BY <2>1 DEF TB!ClaudeEffort
    <3> HIDE DEF strained
    <3> QED
      BY <1>3, <1>4, <1>5, <3>1 DEF Bodies, Balanced, TB!None
  <2>2. CASE /\ ~(r.effort = "none" \/ ~TB!ClaudeThinks(r) \/ TB!ClaudeModel(r) \in TB!Claude)
             /\ TB!ClaudeModel(r) \in TB!Gemini3
    <3>1. PICK level \in {"none", "high", "low", "medium"} :
            strained = [body EXCEPT !.budget = TB!None, !.level = level]
      BY <1>1, <2>2 DEF TB!ClaudeEffort
    <3> HIDE DEF strained
    <3>2. body \in Bodies
      BY <1>3, <1>4, <1>5, BudgetNumbers DEF Bodies
    <3>3. strained \in Bodies /\ strained.budget = TB!None
      <4>1. TB!None \in Int
        BY BudgetNumbers
      <4> HIDE DEF body
      <4> QED
        BY ONLY <3>1, <3>2, <4>1, BodyWith, level \in {"none", "high", "low", "medium"}
    <3> QED
      BY <3>3, BudgetNumbers DEF Balanced
  <2>3. CASE /\ ~(r.effort = "none" \/ ~TB!ClaudeThinks(r) \/ TB!ClaudeModel(r) \in TB!Claude)
             /\ TB!ClaudeModel(r) \notin TB!Gemini3
    <3>1. strained = [body EXCEPT !.budget = IF r.effort = "high" THEN -1 ELSE 2048]
      BY <2>3 DEF TB!ClaudeEffort
    <3>2. TB!ClaudeModel(r) \in TB!Gemini2
      BY <1>6, <2>3 DEF TB!Models
    <3> HIDE DEF strained
    <3>3. r.effort \in {"high", "medium"}
      BY <1>1, <2>3
    <3> QED
      BY <1>3, <1>4, <1>5, <3>1, <3>2, <3>3 DEF Bodies, Balanced, TB!None
  <2> QED
    BY <2>1, <2>2, <2>3
<1>8. TB!FromClaude(r) = TB!WithoutThoughtsFor(TB!ClaudeModel(r), strained)
  BY DEF TB!FromClaude, strained, body, max, budget
<1> HIDE DEF strained
<1> QED
  BY <1>7, <1>8, WithoutThoughts

(* Lemma: the OpenAI mapper.                                               *)
LEMMA OpenAIBalances ==
  ASSUME TB!ThinkingBudgetAssumption, NEW r \in TB!Requests, r.protocol = "openai",
         tbCustom \in Nat
  PROVE  TB!FromOpenAI(r) \in Bodies /\ Balanced(r, TB!FromOpenAI(r))
<1> DEFINE c == TB!Configured
<1>1. r.max \in Nat \union {TB!None}
  BY Asked
<1>2. c \in Nat
  BY DEF TB!Configured, TB!DefaultBudget
<1> HIDE DEF c
<1>3. \/ TB!FromOpenAI(r) = TB!Body(TB!None, "none", r.max)
      \/ TB!FromOpenAI(r) = TB!Body(c, "none", c + TB!Overhead)
      \/ /\ TB!FromOpenAI(r) = TB!Body(c, "none", IF TB!LeavesNoRoom(r.max, c)
                                              THEN c + TB!MinOverhead ELSE r.max)
         /\ r.max # TB!None
  BY Zenon DEF TB!FromOpenAI, c
<1> QED
  BY <1>1, <1>2, <1>3 DEF TB!Body, TB!Overhead, TB!MinOverhead, TB!LeavesNoRoom, Bodies, Balanced,
                          TB!None

(* Lemma: the Gemini protocol.                                             *)
LEMMA GeminiBalances ==
  ASSUME TB!ThinkingBudgetAssumption, NEW r \in TB!Requests, r.protocol = "gemini"
  PROVE  TB!FromGemini(r) \in Bodies /\ Balanced(r, TB!FromGemini(r))
<1> DEFINE thoughts == TB!ThoughtsOfGemini(r)
           capped == TB!FlashCapped(r, thoughts)
           wide == tbMode = "adaptive" /\ (r.thinking # "absent" \/ r.max # TB!None)
           body == IF wide THEN [capped EXCEPT !.max = TB!AdaptiveLimit] ELSE capped
<1>1. r.budget \in Nat \union {-1, TB!None} /\ r.max \in Nat \union {TB!None}
  BY Asked
<1>2. /\ thoughts \in Bodies /\ thoughts.max = r.max
      /\ \/ thoughts.budget = r.budget
         \/ thoughts.budget = TB!None
         \/ tbMode = "adaptive" /\ r.thinking # "absent" /\ thoughts.budget = TB!DefaultBudget
  <2> DEFINE wanted == TB!Body(r.budget, "none", r.max)
  <2>1. \/ thoughts = wanted
        \/ thoughts = [wanted EXCEPT !.budget = TB!None, !.level = "high"]
        \/ /\ tbMode = "adaptive" /\ r.thinking # "absent"
           /\ thoughts = [wanted EXCEPT !.budget = TB!DefaultBudget]
    BY Zenon DEF TB!ThoughtsOfGemini
  <2>2. /\ wanted \in Bodies /\ wanted.max = r.max /\ wanted.budget = r.budget
    BY <1>1, BudgetNumbers DEF TB!Body, Bodies
  <2>3. CASE thoughts = [wanted EXCEPT !.budget = TB!None, !.level = "high"]
    <3>1. TB!None \in Int /\ "high" \in {"none", "high", "low", "medium"}
      BY BudgetNumbers
    <3> HIDE DEF thoughts, wanted
    <3>2. thoughts \in Bodies /\ thoughts.budget = TB!None /\ thoughts.max = wanted.max
      BY ONLY <2>2, <2>3, <3>1, BodyWith
    <3> QED
      BY <2>2, <3>2
  <2>4. [wanted EXCEPT !.budget = TB!DefaultBudget]
           = [budget |-> TB!DefaultBudget, level |-> "none", max |-> r.max]
    BY DEF TB!Body
  <2>5. [wanted EXCEPT !.budget = TB!DefaultBudget] \in Bodies
    BY <1>1, <2>4, BudgetNumbers DEF Bodies
  <2> HIDE DEF thoughts, wanted
  <2> QED
    BY <2>1, <2>2, <2>3, <2>4, <2>5
<1> HIDE DEF thoughts
<1>3. /\ capped \in Bodies /\ capped.max = r.max
      /\ capped.budget = thoughts.budget \/ capped.budget = TB!Smaller(thoughts.budget, TB!FlashBudget)
  BY <1>2 DEF TB!FlashCapped, TB!Smaller, TB!FlashBudget, Bodies
<1> HIDE DEF capped
<1>4. body \in Bodies /\ Balanced(r, body)
  BY <1>1, <1>2, <1>3 DEF Bodies, Balanced, TB!Smaller, TB!FlashBudget, TB!DefaultBudget,
                          TB!AdaptiveLimit, TB!None
<1>5. TB!FromGemini(r) = TB!WithoutThoughtsFor(r.model, body)
  BY DEF TB!FromGemini, body, capped, thoughts
<1> HIDE DEF body
<1> QED
  BY <1>4, <1>5, WithoutThoughts

(* The inductive invariant of the budget.                                  *)
BudgetInv ==
    /\ tbMode \in TB!Modes /\ tbCustom \in Nat /\ tbRequest \subseteq TB!Requests
    /\ tbSent \in Bodies
    /\ \A r \in tbRequest : Balanced(r, tbSent)

(* Theorem: in every mode, for every budget and limit a client may send,   *)
(* the thinking budget leaves room for an answer within the limit of       *)
(* output tokens, but where a later step of the mapper undoes it           *)
(* (generation_config.rs, openai/request, gemini/wrapper.rs).              *)
THEOREM BudgetAlwaysFits ==
  ASSUME TB!ThinkingBudgetAssumption
  PROVE  TB!Spec => [](TB!TypeOK /\ TB!BudgetFits)
<1>1. ASSUME TB!Init PROVE BudgetInv
  BY <1>1 DEF TB!Init, BudgetInv, TB!Body, TB!None, Bodies, TB!FlashBudget, TB!Modes
<1>2. ASSUME BudgetInv, [TB!Next]_(TB!tbVars) PROVE BudgetInv'
  <2>1. CASE TB!Map
    <3>1. PICK r \in TB!Requests :
             /\ tbRequest' = {r}
             /\ tbSent' = CASE r.protocol = "claude" -> TB!FromClaude(r)
                           [] r.protocol = "openai" -> TB!FromOpenAI(r)
                           [] r.protocol = "gemini" -> TB!FromGemini(r)
      BY <2>1 DEF TB!Map
    <3>2. UNCHANGED <<tbMode, tbCustom>>
      BY <2>1 DEF TB!Map
    <3>3. tbSent' \in Bodies /\ Balanced(r, tbSent')
      <4>1. CASE r.protocol = "claude"
        BY <1>2, <3>1, <4>1, ClaudeBalances DEF BudgetInv
      <4>2. CASE r.protocol = "openai"
        BY <1>2, <3>1, <4>2, OpenAIBalances DEF BudgetInv
      <4>3. CASE r.protocol = "gemini"
        BY <1>2, <3>1, <4>3, GeminiBalances DEF BudgetInv
      <4> QED
        BY <4>1, <4>2, <4>3, Asked
    <3> QED
      BY <1>2, <3>1, <3>2, <3>3, Zenon DEF BudgetInv
  <2>2. CASE TB!Sent
    <3>1. tbSent' \in Bodies /\ tbRequest' = {} /\ UNCHANGED <<tbMode, tbCustom>>
      BY <2>2 DEF TB!Sent, TB!Body, TB!None, Bodies
    <3> QED
      BY <1>2, <3>1 DEF BudgetInv
  <2>3. CASE \E mode \in TB!Modes, custom \in Budgets \ {-1} : TB!Reload(mode, custom)
    BY <1>2, <2>3 DEF TB!Reload, BudgetInv, TB!ThinkingBudgetAssumption
  <2>4. CASE UNCHANGED TB!tbVars
    BY <1>2, <2>4 DEF TB!tbVars, BudgetInv
  <2> QED
    BY <1>2, <2>1, <2>2, <2>3, <2>4 DEF TB!Next
<1>3. BudgetInv => TB!TypeOK /\ TB!BudgetFits
  BY DEF BudgetInv, Bodies, Balanced, TB!TypeOK, TB!BudgetFits, TB!Unbalanced
<1> QED
  BY <1>1, <1>2, <1>3, PTL DEF TB!Spec

-----------------------------------------------------------------------------
(* TokenReports: what is reported of a prompt is a monotone function of    *)
(* it, by integer arithmetic; the calibrator is corrected once for each    *)
(* fifth record, by whoever counted it.                                    *)
CONSTANTS Models, Prompts, Answers, Asks, Actuals, MaxRecords
VARIABLES tkShows, tkModel, tkScaling, tkPrompt, tkReport, tkStep, tkEstimate, tkActual,
          tkTotalEstimated, tkTotalActual, tkCount, tkFactor, tkUpdates
TK == INSTANCE TokenReports WITH Requests <- Asks

(* Lemma: a quotient and what it leaves.                                   *)
LEMMA QuotientFits ==
  ASSUME NEW a \in Nat, NEW d \in Nat, d > 0
  PROVE  a \div d \in Nat /\ d * (a \div d) <= a /\ a < d * (a \div d) + d
OBVIOUS

(* Lemma: products grow with a factor.                                     *)
LEMMA ProductGrows ==
  ASSUME NEW d \in Nat, NEW p \in Nat, NEW q \in Nat, p >= q
  PROVE  d * p >= d * q /\ d * p \in Nat /\ d * q \in Nat
OBVIOUS

(* Lemma: quotients grow with what is divided.                             *)
LEMMA QuotientGrows ==
  ASSUME NEW a \in Nat, NEW b \in Nat, NEW d \in Nat, d > 0, a <= b
  PROVE  a \div d <= b \div d
<1> DEFINE p == a \div d
           q == b \div d
<1>1. p \in Nat /\ q \in Nat /\ d * p <= a /\ b < d * q + d
  BY QuotientFits
<1> HIDE DEF p, q
<1>2. ~(p >= q + 1)
  <2> SUFFICES ASSUME p >= q + 1 PROVE FALSE
    OBVIOUS
  <2>1. d * p >= d * (q + 1) /\ d * (q + 1) = d * q + d
    BY <1>1
  <2>2. d * p \in Int /\ d * q \in Int
    BY <1>1
  <2> QED
    BY <1>1, <2>1, <2>2
<1>3. p <= q
  BY <1>1, <1>2
<1> QED
  BY <1>3 DEF p, q

(* Lemma: a product divided by a factor.                                   *)
LEMMA QuotientOfProduct ==
  ASSUME NEW c \in Nat, NEW d \in Nat, d > 0
  PROVE  (c * d) \div d = c
OBVIOUS

(* Lemma: of a number below the square of its bound a unit has a root.     *)
LEMMA RootExists ==
  ASSUME NEW n \in Nat, NEW low \in Nat, NEW count \in Nat \ {0}, NEW unit \in Nat \ {0},
         (unit * low) * (unit * low) <= n, n < (unit * (low + count)) * (unit * (low + count))
  PROVE  \E r \in low..(low + count - 1) : TK!IsRoot(r, unit, n)
<1> DEFINE Over == {r \in Nat : r >= low /\ n < (unit * (r + 1)) * (unit * (r + 1))}
<1>1. low + count - 1 \in Over
  BY Z3
<1>2. PICK r \in Over : \A k \in Over : r <= k
  BY <1>1, LeastExists
<1>3. r \in low..(low + count - 1)
  BY <1>1, <1>2
<1>4. CASE r = low
  BY <1>2, <1>3, <1>4 DEF TK!IsRoot
<1>5. CASE r # low
  <2> DEFINE before == r - 1
  <2>1. before \in Nat /\ before >= low /\ before < r /\ before + 1 = r
    BY <1>3, <1>5
  <2>2. before \notin Over
    BY <1>2, <2>1
  <2>3. (unit * r) * (unit * r) <= n
    BY <1>3, <2>1, <2>2
  <2> QED
    BY <1>2, <1>3, <2>3 DEF TK!IsRoot
<1> QED
  BY <1>4, <1>5

(* What has a root of two bytes.                                           *)
Highest == 65536 * 65536

(* Lemma: the square root, rounded down.                                   *)
LEMMA RootFits ==
  ASSUME NEW n \in Nat, n < Highest
  PROVE  /\ TK!SquareRoot(n) \in Nat /\ TK!SquareRoot(n) <= 65535
         /\ TK!SquareRoot(n) * TK!SquareRoot(n) <= n
         /\ n < (TK!SquareRoot(n) + 1) * (TK!SquareRoot(n) + 1)
<1> DEFINE high == CHOOSE r \in 0..255 : TK!IsRoot(r, 256, n)
           root == CHOOSE r \in (256 * high)..(256 * high + 255) : TK!IsRoot(r, 1, n)
<1>1. high \in 0..255 /\ TK!IsRoot(high, 256, n)
  <2>1. \E r \in 0..(0 + 256 - 1) : TK!IsRoot(r, 256, n)
    <3> DEFINE byte == 256
               none == 0
    <3>1. (byte * none) * (byte * none) = 0
      OBVIOUS
    <3>2. (byte * (none + byte)) * (byte * (none + byte)) = Highest
      BY DEF Highest
    <3>3. none \in Nat /\ byte \in Nat \ {0}
      OBVIOUS
    <3> HIDE DEF byte, none
    <3>4. (byte * none) * (byte * none) <= n
      BY <3>1
    <3>5. n < (byte * (none + byte)) * (byte * (none + byte))
      BY <3>2, Zenon
    <3>6. \E r \in none..(none + byte - 1) : TK!IsRoot(r, byte, n)
      BY ONLY <3>3, <3>4, <3>5, n \in Nat, RootExists, Zenon
    <3> QED
      BY ONLY <3>6 DEF byte, none
  <2> DEFINE bytes == 0..255
  <2>2. \E r \in bytes : TK!IsRoot(r, 256, n)
    <3>1. bytes = 0..(0 + 256 - 1)
      OBVIOUS
    <3> HIDE DEF bytes
    <3> QED
      BY ONLY <2>1, <3>1, Zenon
  <2>3. high = CHOOSE r \in bytes : TK!IsRoot(r, 256, n)
    OBVIOUS
  <2> HIDE DEF bytes, high
  <2>4. high \in bytes /\ TK!IsRoot(high, 256, n)
    BY ONLY <2>2, <2>3, Zenon
  <2> QED
    BY ONLY <2>4, Zenon DEF bytes
<1> HIDE DEF high
<1>2. root \in (256 * high)..(256 * high + 255) /\ TK!IsRoot(root, 1, n)
  <2> DEFINE low == 256 * high
  <2>1. low \in Nat /\ low <= 65280
    BY <1>1
  <2>2. low * low <= n /\ n < (low + 256) * (low + 256)
    <3>1. 256 * (high + 1) = low + 256
      BY <1>1
    <3> QED
      BY <1>1, <3>1 DEF TK!IsRoot
  <2> HIDE DEF low
  <2>3. 1 * low = low /\ 1 * (low + 256) = low + 256
    BY <2>1
  <2>4. \E r \in low..(low + 256 - 1) : TK!IsRoot(r, 1, n)
    <3> DEFINE byte == 256
    <3>0. /\ low * low <= n /\ n < (low + byte) * (low + byte)
          /\ 1 * low = low /\ 1 * (low + byte) = low + byte
      BY <2>2, <2>3
    <3>1. (1 * low) * (1 * low) <= n /\ n < (1 * (low + byte)) * (1 * (low + byte))
      <4> HIDE DEF byte
      <4> QED
        BY ONLY <3>0, Zenon
    <3>2. low \in Nat /\ byte \in Nat \ {0} /\ 1 \in Nat \ {0} /\ n \in Nat
      BY <2>1
    <3> HIDE DEF byte
    <3>3. \E r \in low..(low + byte - 1) : TK!IsRoot(r, 1, n)
      BY ONLY <3>1, <3>2, RootExists, Zenon
    <3> QED
      BY ONLY <3>3 DEF byte
  <2>5. low + 256 - 1 = low + 255
    BY <2>1
  <2> QED
    BY <2>4, <2>5 DEF low
<1>3. TK!SquareRoot(n) = root
  BY DEF TK!SquareRoot, high
<1> HIDE DEF root
<1>4. root \in Nat /\ root <= 65535
  BY ONLY <1>1, <1>2
<1>5. 1 * root = root /\ 1 * (root + 1) = root + 1
  BY <1>4
<1>6. root * root <= n /\ n < (root + 1) * (root + 1)
  <2>1. (1 * root) * (1 * root) <= n /\ n < (1 * (root + 1)) * (1 * (root + 1))
    BY ONLY <1>2, Zenon DEF TK!IsRoot
  <2> QED
    BY ONLY <1>5, <2>1, Zenon
<1> QED
  BY ONLY <1>3, <1>4, <1>6

(* Lemma: larger numbers have larger roots.                                *)
LEMMA RootGrows ==
  ASSUME NEW n \in Nat, NEW m \in Nat, n <= m, m < Highest
  PROVE  TK!SquareRoot(n) <= TK!SquareRoot(m)
<1> DEFINE r == TK!SquareRoot(n)
           s == TK!SquareRoot(m)
<1>1. r \in Nat /\ s \in Nat /\ r * r <= n /\ m < (s + 1) * (s + 1)
  <2>1. n < Highest
    BY DEF Highest
  <2>2. r \in Nat /\ r * r <= n
    BY ONLY <2>1, n \in Nat, RootFits DEF r
  <2>3. s \in Nat /\ m < (s + 1) * (s + 1)
    BY ONLY m \in Nat, m < Highest, RootFits DEF s
  <2> QED
    BY ONLY <2>2, <2>3
<1> HIDE DEF r, s
<1> SUFFICES ASSUME r >= s + 1 PROVE FALSE
  BY <1>1 DEF r, s
<1>2. r * r >= (s + 1) * (s + 1)
  BY <1>1
<1> QED
  BY <1>1, <1>2

(* Lemma: where a model's limit has its places.                            *)
LEMMA PerceptionFits ==
  ASSUME TK!TokenReportsAssumption, tkModel \in Models
  PROVE  /\ TK!PerceptionStart \in Nat /\ TK!PerceptionStart >= 30000 /\ TK!PerceptionStart <= 6900000
        /\ tkModel \in Nat
         /\ TK!PerceptionStart + 1000 <= tkModel
         /\ TK!Threshold = 30000 /\ TK!TargetMax = 195000
<1>1. tkModel \in Nat /\ tkModel >= 50000 /\ tkModel <= 9000000
  BY DEF TK!TokenReportsAssumption
<1> QED
  BY <1>1 DEF TK!PerceptionStart, TK!Threshold, TK!TargetMax

(* Lemma: the compressed prompt.                                           *)
LEMMA CompressedGrows ==
  ASSUME NEW n \in Nat, NEW m \in Nat, 30000 <= n, n <= m, m <= 6900000
  PROVE  /\ TK!Compressed(n) \in Nat /\ 30000 <= TK!Compressed(n) /\ TK!Compressed(n) <= 95535
         /\ TK!Compressed(n) <= TK!Compressed(m)
<1> DEFINE a == 625 * (n - 30000)
           b == 625 * (m - 30000)
<1>1. a \in Nat /\ b \in Nat /\ a <= b /\ b < Highest
  BY DEF Highest
<1>2. TK!Compressed(n) = 30000 + TK!SquareRoot(a) /\ TK!Compressed(m) = 30000 + TK!SquareRoot(b)
  BY DEF TK!Compressed, TK!Threshold
<1> HIDE DEF a, b
<1>3. TK!SquareRoot(a) \in Nat /\ TK!SquareRoot(a) <= 65535 /\ TK!SquareRoot(b) \in Nat
      /\ TK!SquareRoot(a) <= TK!SquareRoot(b)
  <2>1. a < Highest
    BY <1>1 DEF Highest
  <2> QED
    BY ONLY <1>1, <2>1, RootFits, RootGrows
<1> QED
  BY <1>2, <1>3

(* Lemma: the regression to the target.                                    *)
LEMMA RegressionGrows ==
  ASSUME TK!TokenReportsAssumption, tkModel \in Models, NEW n \in Nat, NEW m \in Nat,
         TK!PerceptionStart <= n, n <= m
  PROVE  /\ TK!Regression(n) \in Nat /\ TK!Regression(m) \in Nat
         /\ TK!Compressed(TK!PerceptionStart) <= TK!Regression(n)
         /\ TK!Regression(n) <= TK!Regression(m)
         /\ n < tkModel => TK!Regression(n) <= TK!TargetMax
         /\ n >= tkModel => TK!Regression(n) >= TK!TargetMax
<1> DEFINE s == TK!PerceptionStart
           start == TK!Compressed(s)
           c == TK!TargetMax - start
           d == (tkModel - s) \div 1000
           p == (n - s) \div 1000
           q == (m - s) \div 1000
<1>1. s \in Nat /\ s >= 30000 /\ s <= 6900000 /\ tkModel \in Nat /\ s + 1000 <= tkModel
  BY PerceptionFits
<1>2. start \in Nat /\ start <= 95535
  BY <1>1, CompressedGrows
<1>3. c \in Nat /\ start + c = TK!TargetMax /\ start \in Nat
  BY <1>2 DEF TK!TargetMax
<1> HIDE DEF s
<1>4. d \in Nat /\ d > 0 /\ p \in Nat /\ q \in Nat /\ p <= q
      /\ (n < tkModel => p <= d) /\ (n >= tkModel => d <= p)
  BY <1>1 DEF s
<1>5. /\ TK!Regression(n) = start + (c * p) \div d
      /\ TK!Regression(m) = start + (c * q) \div d
  BY DEF TK!Regression, s
<1> HIDE DEF start, c, d, p, q
<1>6. c * p \in Nat /\ c * q \in Nat /\ c * d \in Nat /\ c * p <= c * q
      /\ (p <= d => c * p <= c * d) /\ (d <= p => c * d <= c * p)
  BY <1>3, <1>4, ProductGrows
<1>7. /\ (c * p) \div d \in Nat /\ (c * q) \div d \in Nat
      /\ (c * p) \div d <= (c * q) \div d /\ (c * d) \div d = c
      /\ (p <= d => (c * p) \div d <= (c * d) \div d)
      /\ (d <= p => (c * d) \div d <= (c * p) \div d)
  <2> DEFINE cp == c * p
             cq == c * q
             cd == c * d
  <2>1. cd \div d = c
    BY <1>3, <1>4, QuotientOfProduct
  <2> HIDE DEF cp, cq, cd
  <2>2. cp \in Nat /\ cq \in Nat /\ cd \in Nat /\ cp <= cq
        /\ (p <= d => cp <= cd) /\ (d <= p => cd <= cp)
    BY <1>6 DEF cp, cq, cd
  <2>3. /\ cp \div d \in Nat /\ cq \div d \in Nat /\ cp \div d <= cq \div d
        /\ (p <= d => cp \div d <= cd \div d) /\ (d <= p => cd \div d <= cp \div d)
    BY <1>4, <2>2, QuotientFits, QuotientGrows
  <2> QED
    BY <2>1, <2>3 DEF cp, cq, cd
<1> DEFINE x == (c * p) \div d
           y == (c * q) \div d
<1>8. x \in Nat /\ y \in Nat /\ x <= y /\ (p <= d => x <= c) /\ (d <= p => c <= x)
  BY <1>7
<1>9. TK!Regression(n) = start + x /\ TK!Regression(m) = start + y
  BY <1>5
<1> HIDE DEF x, y
<1>10. TK!TargetMax \in Nat
  BY DEF TK!TargetMax
<1> QED
  BY <1>3, <1>4, <1>8, <1>9, <1>10 DEF start, s

(* Lemma: a larger prompt is not reported smaller; the target is reached   *)
(* with the model's limit, and not before.                                 *)
LEMMA ScaledGrows ==
  ASSUME TK!TokenReportsAssumption, tkModel \in Models, tkScaling \in BOOLEAN,
         NEW n \in Nat, NEW m \in Nat, n <= m
  PROVE  /\ TK!Scaled(n) \in Nat /\ TK!Scaled(m) \in Nat /\ TK!Scaled(n) <= TK!Scaled(m)
         /\ tkScaling /\ m < tkModel => TK!Scaled(m) <= TK!TargetMax
         /\ tkScaling /\ m >= tkModel => TK!Scaled(m) >= TK!TargetMax
<1> DEFINE s == TK!PerceptionStart
<1>1. /\ s \in Nat /\ s >= 30000 /\ s <= 6900000 /\ tkModel \in Nat /\ s + 1000 <= tkModel
      /\ TK!Threshold = 30000 /\ TK!TargetMax = 195000
  BY PerceptionFits
<1>2. ASSUME NEW k \in Nat PROVE
        /\ (~tkScaling \/ k <= 30000) => TK!Scaled(k) = k
        /\ tkScaling /\ k > 30000 /\ k <= s => TK!Scaled(k) = TK!Compressed(k)
        /\ tkScaling /\ k > 30000 /\ ~(k <= s) => TK!Scaled(k) = TK!Regression(k)
  <2> DEFINE low == TK!Threshold
  <2>1. /\ ~tkScaling \/ k <= low => TK!Scaled(k) = k
        /\ tkScaling /\ ~(k <= low) /\ k <= s => TK!Scaled(k) = TK!Compressed(k)
        /\ tkScaling /\ ~(k <= low) /\ ~(k <= s) => TK!Scaled(k) = TK!Regression(k)
    BY ONLY Zenon DEF TK!Scaled, s, low
  <2>2. low = 30000
    BY <1>1
  <2> HIDE DEF low
  <2>3. (k <= low <=> k <= 30000) /\ (k > 30000 <=> ~(k <= low))
    BY <2>2
  <2> QED
    BY <2>1, <2>3
<1> HIDE DEF s
<1>4. CASE ~tkScaling
  <2>1. TK!Scaled(n) = n /\ TK!Scaled(m) = m
    BY <1>2, <1>4
  <2> QED
    BY ONLY <2>1, <1>4, n \in Nat, m \in Nat, n <= m
<1>5. CASE tkScaling /\ m <= 30000
  <2>1. n <= 30000
    BY <1>5
  <2>2. TK!Scaled(n) = n /\ TK!Scaled(m) = m
    BY <1>2, <1>5, <2>1
  <2> QED
    BY <2>2, <1>1, <1>5
<1>6. CASE tkScaling /\ m > 30000 /\ m <= s
  <2>1. 30000 <= m /\ m <= 6900000
    BY <1>1, <1>6
  <2>2. TK!Scaled(m) = TK!Compressed(m)
    BY <1>2, <1>6
  <2>3. TK!Compressed(m) \in Nat /\ TK!Compressed(m) >= 30000 /\ TK!Compressed(m) <= 95535
    BY <2>1, CompressedGrows
  <2>4. TK!Scaled(n) \in Nat /\ TK!Scaled(n) <= TK!Compressed(m)
    <3>1. CASE n <= 30000
      BY <1>2, <2>3, <3>1
    <3>2. CASE n > 30000
      <4>1. n <= s
        BY <1>1, <1>6
      <4>2. 30000 <= n /\ n <= 6900000 /\ TK!Scaled(n) = TK!Compressed(n)
        BY <1>1, <1>2, <1>6, <3>2, <4>1
      <4>3. TK!Compressed(n) \in Nat /\ TK!Compressed(n) >= 30000 /\ TK!Compressed(n) <= TK!Compressed(m)
        BY <2>1, <4>2, CompressedGrows
      <4> QED
        BY <4>2, <4>3
    <3> QED
      BY <3>1, <3>2
  <2>5. m < tkModel
    BY <1>1, <1>6
  <2> QED
    <3>1. TK!Scaled(m) \in Nat /\ TK!Scaled(n) <= TK!Scaled(m) /\ ~(m >= tkModel)
          /\ TK!Scaled(m) <= TK!TargetMax
      BY ONLY <1>1, <2>2, <2>3, <2>4, <2>5, m \in Nat
    <3> QED
      BY ONLY <2>4, <3>1, Zenon
<1>7. CASE tkScaling /\ m > 30000 /\ ~(m <= s)
  <2>1. TK!Scaled(m) = TK!Regression(m)
    BY <1>2, <1>7
  <2>2. s <= m
    BY <1>1, <1>7
  <2>3. /\ TK!Regression(m) \in Nat /\ TK!Compressed(s) <= TK!Regression(m)
        /\ m < tkModel => TK!Regression(m) <= TK!TargetMax
        /\ m >= tkModel => TK!Regression(m) >= TK!TargetMax
    BY <2>2, RegressionGrows DEF s
  <2>4. TK!Compressed(s) \in Nat /\ TK!Compressed(s) >= 30000
    BY <1>1, CompressedGrows
  <2>5. TK!Scaled(n) \in Nat /\ TK!Scaled(n) <= TK!Regression(m)
    <3>1. CASE n <= 30000
      BY <1>2, <2>3, <2>4, <3>1
    <3>2. CASE n > 30000 /\ n <= s
      <4>1. 30000 <= n /\ n <= 6900000 /\ TK!Scaled(n) = TK!Compressed(n)
        BY <1>1, <1>2, <1>7, <3>2
      <4>2. TK!Compressed(n) \in Nat /\ TK!Compressed(n) >= 30000 /\ TK!Compressed(n) <= TK!Compressed(s)
        BY <1>1, <3>2, <4>1, CompressedGrows
      <4> QED
        BY <4>1, <4>2, <2>3, <2>4
    <3>3. CASE n > 30000 /\ ~(n <= s)
      <4>1. s <= n /\ TK!Scaled(n) = TK!Regression(n)
        BY <1>1, <1>2, <1>7, <3>3
      <4>2. TK!Regression(n) \in Nat /\ TK!Regression(n) <= TK!Regression(m)
        BY <4>1, RegressionGrows DEF s
      <4> QED
        BY <4>1, <4>2
    <3> QED
      BY <1>1, <3>1, <3>2, <3>3
  <2> QED
    <3>1. TK!Scaled(m) \in Nat /\ TK!Scaled(n) <= TK!Scaled(m)
      BY ONLY <2>1, <2>3, <2>5, Zenon
    <3>2. (m < tkModel => TK!Scaled(m) <= TK!TargetMax)
          /\ (m >= tkModel => TK!Scaled(m) >= TK!TargetMax)
      BY ONLY <2>1, <2>3, Zenon
    <3> QED
      BY ONLY <2>5, <3>1, <3>2, Zenon
<1> QED
  BY ONLY <1>1, <1>4, <1>5, <1>6, <1>7, tkScaling \in BOOLEAN, m \in Nat

(* Lemma: the share of the cache is taken from the prompt, not added.      *)
LEMMA UsageAddsUp ==
  ASSUME NEW n, TK!Scaled(n) \in Nat, NEW cached \in {0, 50, 100}
  PROVE  TK!Usage(n, cached) \in [input : Nat, cache : Nat]
         /\ TK!Total(TK!Usage(n, cached)) = TK!Scaled(n)
<1> DEFINE whole == TK!Scaled(n)
           share == (whole * cached) \div 100
<1>1. TK!Usage(n, cached) = [input |-> whole - share, cache |-> share]
  BY DEF TK!Usage
<1>2. whole \in Nat
  OBVIOUS
<1> HIDE DEF whole
<1>3. share \in Nat /\ share <= whole
  <2>1. CASE cached = 0
    BY <1>2, <2>1
  <2>2. CASE cached = 50
    BY <1>2, <2>2
  <2>3. CASE cached = 100
    BY <1>2, <2>3
  <2> QED
    BY <2>1, <2>2, <2>3
<1> HIDE DEF share
<1> QED
  BY <1>1, <1>2, <1>3 DEF TK!Total, whole

(* What is reported is the scaled prompt.                                  *)
ReportInv == /\ tkModel \in Models /\ tkScaling \in BOOLEAN /\ tkPrompt \in Nat
             /\ TK!Total(tkReport) = TK!Scaled(tkPrompt)
             /\ tkReport \in [input : Nat, cache : Nat]

(* Lemma: nothing but a turn changes what is reported.                     *)
LEMMA TurnOnly ==
  ASSUME [TK!Next]_(TK!tkVars)
  PROVE  \/ UNCHANGED <<tkModel, tkScaling, tkPrompt, tkReport>>
         \/ \E n \in Prompts, cached \in {0, 50, 100} : TK!Turn(n, cached)
<1>1. CASE UNCHANGED TK!tkVars
  BY <1>1 DEF TK!tkVars
<1>2. ASSUME NEW a \in Answers, NEW r \in Asks, TK!Estimate(a, r)
      PROVE  UNCHANGED <<tkModel, tkScaling, tkPrompt, tkReport>>
  BY <1>2 DEF TK!Estimate, TK!tkFixed, TK!tkTurn
<1>3. ASSUME NEW a \in Answers, NEW n \in Actuals, TK!Answered(a, n)
      PROVE  UNCHANGED <<tkModel, tkScaling, tkPrompt, tkReport>>
  BY <1>3 DEF TK!Answered, TK!tkFixed, TK!tkTurn
<1>4. ASSUME NEW a \in Answers, TK!Record(a)
      PROVE  UNCHANGED <<tkModel, tkScaling, tkPrompt, tkReport>>
  BY <1>4 DEF TK!Record, TK!AddEstimated, TK!AddActual, TK!Count, TK!ReadEstimated, TK!Update,
              TK!tkFixed, TK!tkTurn
<1> QED
  BY <1>1, <1>2, <1>3, <1>4 DEF TK!Next

(* Lemma: the scale is fixed.                                              *)
LEMMA ScaleStays ==
  ASSUME NEW n, tkModel' = tkModel, tkScaling' = tkScaling, tkPrompt' = n
  PROVE  TK!Scaled(tkPrompt)' = TK!Scaled(n)
<1>1. TK!PerceptionStart' = TK!PerceptionStart
  BY DEF TK!PerceptionStart
<1>2. TK!Regression(tkPrompt)' = TK!Regression(n)
  BY <1>1 DEF TK!Regression, TK!Compressed, TK!Threshold, TK!TargetMax
<1>3. TK!Compressed(tkPrompt)' = TK!Compressed(n)
  BY DEF TK!Compressed, TK!Threshold
<1>4. TK!Threshold' = TK!Threshold
  BY DEF TK!Threshold
<1>5. (TK!Scaled(tkPrompt))' = IF ~tkScaling' \/ tkPrompt' <= TK!Threshold THEN tkPrompt'
                               ELSE IF tkPrompt' <= TK!PerceptionStart' THEN TK!Compressed(tkPrompt)'
                               ELSE TK!Regression(tkPrompt)'
  BY ONLY <1>4, Zenon DEF TK!Scaled
<1> QED
  BY <1>1, <1>2, <1>3, <1>5, Zenon DEF TK!Scaled

(* Lemma: the invariant is inductive, and each turn reports no less.       *)
LEMMA ReportStep ==
  ASSUME TK!TokenReportsAssumption, ReportInv, [TK!Next]_(TK!tkVars)
  PROVE  ReportInv' /\ TK!ReportsGrow
<1>1. CASE UNCHANGED <<tkModel, tkScaling, tkPrompt, tkReport>>
  <2>1. TK!Scaled(tkPrompt)' = TK!Scaled(tkPrompt)
    BY <1>1, ScaleStays
  <2>2. TK!Total(tkReport)' = TK!Total(tkReport)
    BY <1>1 DEF TK!Total
  <2> QED
    <3>1. ReportInv'
      BY ONLY <1>1, <2>1, <2>2, ReportInv, Zenon DEF ReportInv
    <3>2. TK!ReportsGrow
      BY ONLY <1>1, Zenon DEF TK!ReportsGrow
    <3> QED
      BY <3>1, <3>2
<1>2. ASSUME NEW n \in Prompts, NEW cached \in {0, 50, 100}, TK!Turn(n, cached)
      PROVE  ReportInv' /\ TK!ReportsGrow
  <2>1. /\ tkModel' = tkModel /\ tkScaling' = tkScaling /\ tkPrompt' = n
        /\ tkReport' = TK!Usage(n, cached) /\ n > tkPrompt
    BY <1>2, Zenon DEF TK!Turn, TK!tkFixed
  <2>2. n \in Nat /\ tkPrompt \in Nat /\ tkPrompt <= n
    <3>1. n \in Nat /\ tkPrompt \in Nat
      <4>1. Prompts \subseteq Nat
        BY DEF TK!TokenReportsAssumption
      <4> QED
        BY <4>1 DEF ReportInv
    <3> QED
      BY ONLY <2>1, <3>1
  <2>3. tkModel \in Models /\ tkScaling \in BOOLEAN
    BY DEF ReportInv
  <2>4. /\ TK!Scaled(tkPrompt) \in Nat /\ TK!Scaled(n) \in Nat
        /\ TK!Scaled(tkPrompt) <= TK!Scaled(n)
        /\ tkScaling /\ n < tkModel => TK!Scaled(n) <= TK!TargetMax
        /\ tkScaling /\ n >= tkModel => TK!Scaled(n) >= TK!TargetMax
    BY ONLY <2>2, <2>3, ScaledGrows, TK!TokenReportsAssumption
  <2>5. TK!Usage(n, cached) \in [input : Nat, cache : Nat]
        /\ TK!Total(TK!Usage(n, cached)) = TK!Scaled(n)
    BY <2>4, UsageAddsUp
  <2>6. TK!Total(tkReport') = TK!Scaled(n) /\ TK!Total(tkReport)' = TK!Scaled(n)
    BY <2>1, <2>5, Zenon DEF TK!Total
  <2>7. TK!Scaled(tkPrompt)' = TK!Scaled(n)
    BY <2>1, ScaleStays
  <2>8. ReportInv'
    BY <2>1, <2>2, <2>3, <2>5, <2>6, <2>7, Zenon DEF ReportInv
  <2>9. TK!Total(tkReport) = TK!Scaled(tkPrompt)
    BY DEF ReportInv
  <2>10. TK!TargetMax = 195000
    BY DEF TK!TargetMax
  <2>11. TK!Total(tkReport') >= TK!Total(tkReport)
    BY ONLY <2>4, <2>6, <2>9
  <2>12. tkScaling /\ tkPrompt' < tkModel => TK!Total(tkReport') <= TK!TargetMax
    BY ONLY <2>1, <2>4, <2>6
  <2>13. n >= tkModel /\ tkScaling => TK!Scaled(n) >= TK!TargetMax - 1
    BY ONLY <2>4, <2>10
  <2>14. tkScaling /\ tkPrompt' >= tkModel => TK!Total(tkReport') >= TK!TargetMax - 1
    BY ONLY <2>1, <2>13, <2>6
  <2>15. TK!ReportsGrow
    BY ONLY <2>11, <2>12, <2>14, Zenon DEF TK!ReportsGrow
  <2> QED
    BY <2>8, <2>15
<1> QED
  BY <1>1, <1>2, TurnOnly

(* Theorem: what a client is told of its prompts never shrinks while they  *)
(* grow, stays within 195,000 until the model's context is full, and is    *)
(* there when it is (to_claude_usage).                                     *)
THEOREM ReportsAlwaysGrow ==
  ASSUME TK!TokenReportsAssumption
  PROVE  TK!Spec => [][TK!ReportsGrow]_(TK!tkVars)
<1>1. TK!Init => ReportInv
  <2> SUFFICES ASSUME TK!Init PROVE ReportInv
    OBVIOUS
  <2>1. tkModel \in Models /\ tkScaling \in BOOLEAN /\ tkPrompt = 0
        /\ tkReport = [input |-> 0, cache |-> 0]
    BY DEF TK!Init
  <2>2. TK!Scaled(0) = 0
    <3>1. 0 <= TK!Threshold
      BY DEF TK!Threshold
    <3> QED
      BY <3>1, Zenon DEF TK!Scaled
  <2>3. TK!Total(tkReport) = 0
    BY <2>1 DEF TK!Total
  <2> QED
    BY <2>1, <2>2, <2>3 DEF ReportInv
<1>2. ReportInv /\ [TK!Next]_(TK!tkVars) => ReportInv' /\ [TK!ReportsGrow]_(TK!tkVars)
  BY ReportStep
<1> QED
  BY <1>1, <1>2, PTL DEF TK!Spec

(* Lemma: the sum of numbers exists and is a number.                       *)
Sums(w, s, n) == /\ DOMAIN w = 0..n
                 /\ \A i \in 0..n : w[i] = IF i = 0 THEN 0 ELSE w[i - 1] + s[i]

LEMMA SumsExist ==
  ASSUME NEW s, NEW last \in Nat
  PROVE  \E w : Sums(w, s, last)
<1> DEFINE T == {n \in Nat : ~\E w : Sums(w, s, n)}
<1> SUFFICES ASSUME T # {} PROVE FALSE
  OBVIOUS
<1>1. PICK n \in T : \A k \in T : n <= k
  <2>1. T \subseteq Nat
    OBVIOUS
  <2> HIDE DEF T
  <2> QED
    BY <2>1, LeastExists
<1>2. n \in Nat /\ ~\E w : Sums(w, s, n)
  OBVIOUS
<1>3. n # 0
  <2> SUFFICES ASSUME n = 0 PROVE FALSE
    OBVIOUS
  <2>1. Sums([i \in 0..0 |-> 0], s, 0)
    BY DEF Sums
  <2> QED
    BY <1>2, <2>1
<1>4. n - 1 \in Nat /\ ~(n <= n - 1)
  BY <1>2, <1>3
<1>5. PICK w : Sums(w, s, n - 1)
  <2>1. n - 1 \notin T
    BY <1>1, <1>4
  <2> QED
    BY <1>4, <2>1
<1> DEFINE v == [i \in 0..n |-> IF i = n THEN w[n - 1] + s[n] ELSE w[i]]
<1>6. Sums(v, s, n)
  <2>1. DOMAIN v = 0..n
    OBVIOUS
  <2>2. ASSUME NEW i \in 0..n PROVE v[i] = IF i = 0 THEN 0 ELSE v[i - 1] + s[i]
    <3>1. CASE i = n
      <4>1. i - 1 \in 0..n /\ i - 1 # n
        BY <1>2, <1>3, <3>1
      <4>2. v[i - 1] = w[i - 1] /\ v[i] = w[n - 1] + s[n]
        BY <3>1, <4>1
      <4> QED
        BY <1>3, <3>1, <4>2
    <3>2. CASE i = 0
      <4>1. 0 \in 0..(n - 1)
        BY <1>4
      <4>2. w[0] = 0
        BY <1>5, <4>1 DEF Sums
      <4> QED
        BY <1>3, <3>2, <4>2
    <3>3. CASE i # n /\ i # 0
      <4>1. i \in 0..(n - 1) /\ i - 1 \in 0..n /\ i - 1 # n
        BY <1>2, <3>3
      <4>2. w[i] = w[i - 1] + s[i]
        BY <1>5, <3>3, <4>1 DEF Sums
      <4> QED
        BY <3>3, <4>1, <4>2
    <3> QED
      BY <3>1, <3>2, <3>3
  <2> HIDE DEF v
  <2> QED
    BY <2>1, <2>2 DEF Sums
<1> QED
  BY <1>2, <1>6

LEMMA SumIsNat ==
  ASSUME NEW s \in Seq(Nat)
  PROVE  TK!SumOf(s) \in Nat
<1> DEFINE Step(f) == [i \in 0..Len(s) |-> IF i = 0 THEN 0 ELSE f[i - 1] + s[i]]
           sum == CHOOSE f : f = Step(f)
<1>1. Len(s) \in Nat /\ s \in [1..Len(s) -> Nat]
  OBVIOUS
<1>2. PICK w : w = Step(w)
  <2>1. PICK w : Sums(w, s, Len(s)) /\ w = [i \in 0..Len(s) |-> w[i]]
    <3>1. PICK v : Sums(v, s, Len(s))
      BY <1>1, SumsExist
    <3> DEFINE w == [i \in 0..Len(s) |-> v[i]]
    <3>2. ASSUME NEW i \in 0..Len(s), i # 0 PROVE w[i - 1] = v[i - 1]
      <4>1. i - 1 \in 0..Len(s)
        BY <1>1, <3>2
      <4> QED
        BY <4>1
    <3>3. \A i \in 0..Len(s) : w[i] = v[i]
      OBVIOUS
    <3>4. DOMAIN w = 0..Len(s) /\ w = [i \in 0..Len(s) |-> w[i]]
      BY <3>3
    <3> HIDE DEF w
    <3>5. \A i \in 0..Len(s) : w[i] = IF i = 0 THEN 0 ELSE w[i - 1] + s[i]
      BY <3>1, <3>2, <3>3 DEF Sums
    <3> QED
      BY <3>4, <3>5 DEF Sums
  <2> QED
    BY <2>1 DEF Sums
<1>3. sum = Step(sum)
  BY <1>2, Zenon
<1>4. TK!SumOf(s) = sum[Len(s)]
  BY DEF TK!SumOf
<1> HIDE DEF sum
<1>5. ASSUME NEW i \in 0..Len(s) PROVE sum[i] = IF i = 0 THEN 0 ELSE sum[i - 1] + s[i]
  BY <1>3
<1>6. \A i \in 0..Len(s) : sum[i] \in Nat
  <2> DEFINE T == {i \in 0..Len(s) : sum[i] \notin Nat}
  <2> SUFFICES ASSUME T # {} PROVE FALSE
    OBVIOUS
  <2>1. PICK n \in T : \A k \in T : n <= k
    <3>1. T \subseteq Nat
      BY <1>1
    <3> HIDE DEF T
    <3> QED
      BY <3>1, LeastExists
  <2>2. n \in 0..Len(s) /\ sum[n] \notin Nat
    BY <2>1
  <2>3. n # 0
    BY <1>5, <2>2
  <2>4. n - 1 \in 0..Len(s) /\ ~(n <= n - 1) /\ n \in 1..Len(s)
    BY <1>1, <2>2, <2>3
  <2>5. sum[n - 1] \in Nat
    BY <2>1, <2>4
  <2>6. s[n] \in Nat
    BY <1>1, <2>4
  <2> QED
    BY <1>5, <2>2, <2>3, <2>5, <2>6
<1> QED
  BY <1>1, <1>4, <1>6

(* Lemma: the estimate of a request is a number.                           *)
LEMMA EstimateIsNat ==
  ASSUME TK!TokenReportsAssumption, NEW r \in Asks
  PROVE  TK!RawEstimate(r) \in Nat
<1>1. /\ r.texts \in Seq(TK!Blocks) /\ r.messages \in Seq(Seq(TK!Blocks)) /\ r.budget \in Nat
  BY DEF TK!TokenReportsAssumption
<1>2. ASSUME NEW b \in TK!Blocks
      PROVE  TK!TokensOf(b) \in Nat /\ TK!BlockTokens(b) \in Nat
  <2>1. b.ascii \in Nat /\ b.other \in Nat
        /\ b.kind \in {"text", "thinking", "call", "result", "image"}
    BY DEF TK!Blocks
  <2>2. TK!TokensOf(b) \in Nat
    BY <2>1 DEF TK!TokensOf
  <2> QED
    BY <2>1, <2>2 DEF TK!BlockTokens
<1>3. ASSUME NEW D, NEW q \in Seq(D)
      PROVE  /\ Len(q) \in Nat /\ DOMAIN q = 1..Len(q) /\ \A i \in DOMAIN q : q[i] \in D
             /\ \A x \in [DOMAIN q -> Nat] : TK!SumOf(x) \in Nat
  <2>1. Len(q) \in Nat /\ DOMAIN q = 1..Len(q) /\ \A i \in DOMAIN q : q[i] \in D
    OBVIOUS
  <2>2. ASSUME NEW x \in [DOMAIN q -> Nat] PROVE TK!SumOf(x) \in Nat
    <3>1. x \in Seq(Nat)
      BY <2>1
    <3> QED
      BY <3>1, SumIsNat
  <2> QED
    BY <2>1, <2>2
<1>4. ASSUME NEW m \in Seq(TK!Blocks)
      PROVE  TK!MessageTokens(m) \in Nat
  <2> DEFINE x == [i \in DOMAIN m |-> TK!BlockTokens(m[i])]
  <2>1. x \in [DOMAIN m -> Nat]
    BY <1>2, <1>3
  <2>2. TK!SumOf(x) \in Nat
    BY <1>3, <2>1
  <2>3. TK!MessageTokens(m) = 4 + TK!SumOf(x)
    BY DEF TK!MessageTokens
  <2> HIDE DEF x
  <2> QED
    BY <2>2, <2>3
<1> DEFINE x == [i \in DOMAIN r.texts |-> TK!TokensOf(r.texts[i])]
           y == [i \in DOMAIN r.messages |-> TK!MessageTokens(r.messages[i])]
<1>5. TK!SumOf(x) \in Nat
  <2>1. x \in [DOMAIN r.texts -> Nat]
    BY <1>1, <1>2, <1>3
  <2> QED
    BY <1>1, <1>3, <2>1
<1>6. TK!SumOf(y) \in Nat
  <2>1. y \in [DOMAIN r.messages -> Nat]
    BY <1>1, <1>3, <1>4
  <2> QED
    BY <1>1, <1>3, <2>1
<1>7. TK!RawEstimate(r) = r.budget + TK!SumOf(x) + TK!SumOf(y)
  BY DEF TK!RawEstimate
<1> HIDE DEF x, y
<1> QED
  BY <1>1, <1>5, <1>6, <1>7

-----------------------------------------------------------------------------
(* The calibrator: what is divided by is never zero, and each fifth record *)
(* is owed one update by the answer whose record it was.                   *)
Late(step) == {a \in Answers : step[a] \in {"updates", "reads"}}
Places == {"idle", "asked", "answered", "added", "counts", "updates", "reads"}
CalibratorTypes ==
    /\ tkStep \in [Answers -> Places]
    /\ tkEstimate \in [Answers -> Nat] /\ tkActual \in [Answers -> Nat]
    /\ tkTotalEstimated \in Nat /\ tkTotalActual \in Nat /\ tkCount \in Nat /\ tkUpdates \in Nat
    /\ tkFactor \in 80..400
SharesPositive ==
    /\ \A a \in Answers : tkStep[a] = "answered" => tkEstimate[a] > 0
    /\ \A a \in Answers : tkStep[a] \in {"added", "counts", "updates", "reads"} => tkTotalEstimated > 0
    /\ \A a \in Answers : tkStep[a] = "reads" => tkEstimate[a] > 0
UpdatesOwed == tkUpdates + Cardinality(Late(tkStep)) = tkCount \div 5
CalibratorInv == CalibratorTypes /\ SharesPositive /\ UpdatesOwed

(* Lemma: how the number of those who owe an update changes.               *)
LEMMA LateChanges ==
  ASSUME TK!TokenReportsAssumption, tkStep \in [Answers -> Places],
         NEW a \in Answers, NEW to \in Places
  PROVE  LET next == [tkStep EXCEPT ![a] = to] IN
         /\ Cardinality(Late(tkStep)) \in Nat /\ Cardinality(Late(next)) \in Nat
         /\ (tkStep[a] \in {"updates", "reads"} <=> to \in {"updates", "reads"}) =>
                Cardinality(Late(next)) = Cardinality(Late(tkStep))
         /\ (tkStep[a] \notin {"updates", "reads"} /\ to \in {"updates", "reads"}) =>
                Cardinality(Late(next)) = Cardinality(Late(tkStep)) + 1
         /\ (tkStep[a] \in {"updates", "reads"} /\ to \notin {"updates", "reads"}) =>
                Cardinality(Late(next)) = Cardinality(Late(tkStep)) - 1
<1> DEFINE next == [tkStep EXCEPT ![a] = to]
           L == Late(tkStep)
           M == Late(next)
<1>1. IsFiniteSet(Answers)
  BY DEF TK!TokenReportsAssumption, TK!IsFiniteSet, IsFiniteSet
<1>2. L \subseteq Answers /\ M \subseteq Answers
  BY DEF Late
<1>3. IsFiniteSet(L) /\ IsFiniteSet(M)
  BY <1>1, <1>2, FS_Subset
<1>4. Cardinality(L) \in Nat /\ Cardinality(M) \in Nat
  BY <1>3, FS_CardinalityType
<1>5. next[a] = to /\ \A b \in Answers \ {a} : next[b] = tkStep[b]
  OBVIOUS
<1>6. /\ (tkStep[a] \in {"updates", "reads"} <=> to \in {"updates", "reads"}) => M = L
      /\ (tkStep[a] \notin {"updates", "reads"} /\ to \in {"updates", "reads"}) =>
             M = L \cup {a} /\ a \notin L
      /\ (tkStep[a] \in {"updates", "reads"} /\ to \notin {"updates", "reads"}) =>
             M = L \ {a} /\ a \in L
  <2> HIDE DEF next
  <2> QED
    BY <1>5 DEF Late
<1> HIDE DEF L, M
<1>7. /\ a \notin L => Cardinality(L \cup {a}) = Cardinality(L) + 1
      /\ a \in L => Cardinality(L \ {a}) = Cardinality(L) - 1
  BY <1>3, FS_AddElement, FS_RemoveElement
<1>8. /\ (tkStep[a] \in {"updates", "reads"} <=> to \in {"updates", "reads"}) =>
             Cardinality(M) = Cardinality(L)
      /\ (tkStep[a] \notin {"updates", "reads"} /\ to \in {"updates", "reads"}) =>
             Cardinality(M) = Cardinality(L) + 1
      /\ (tkStep[a] \in {"updates", "reads"} /\ to \notin {"updates", "reads"}) =>
             Cardinality(M) = Cardinality(L) - 1
  BY <1>6, <1>7, Zenon
<1> QED
  BY <1>4, <1>8, Zenon DEF L, M

(* Lemma: the part of the invariant that counts, kept by a step that is    *)
(* no fifth record.                                                        *)
LEMMA OwedStays ==
  ASSUME TK!TokenReportsAssumption, CalibratorInv, NEW a \in Answers, NEW to \in Places,
         tkStep' = [tkStep EXCEPT ![a] = to], tkUpdates' = tkUpdates, tkCount' = tkCount,
         tkStep[a] \in {"updates", "reads"} <=> to \in {"updates", "reads"}
  PROVE  UpdatesOwed'
<1>1. tkStep \in [Answers -> Places]
  BY DEF CalibratorInv, CalibratorTypes
<1>2. Cardinality(Late([tkStep EXCEPT ![a] = to])) = Cardinality(Late(tkStep))
  BY <1>1, LateChanges, Zenon
<1>3. tkUpdates + Cardinality(Late(tkStep)) = tkCount \div 5
  BY Zenon DEF CalibratorInv, UpdatesOwed
<1> QED
  BY <1>2, <1>3, Zenon DEF UpdatesOwed

(* Lemma: a correction stays where estimates remain usable.                *)
LEMMA FactorFits ==
  ASSUME NEW f \in 80..400, NEW ratio \in Nat
  PROVE  (f * 6 + TK!Clamp(ratio) * 4) \div 10 \in 80..400
<1> DEFINE c == TK!Clamp(ratio)
           x == f * 6 + c * 4
<1>1. c \in Nat /\ 80 <= c /\ c <= 400
  BY DEF TK!Clamp
<1> HIDE DEF c
<1>2. f \in Nat /\ 80 <= f /\ f <= 400
  OBVIOUS
<1>3. x \in Nat /\ 800 <= x /\ x <= 4000
  BY ONLY <1>1, <1>2
<1> HIDE DEF x
<1>4. x \div 10 \in Nat /\ 80 <= x \div 10 /\ x \div 10 <= 400
  BY ONLY <1>3
<1> QED
  BY ONLY <1>4 DEF x, c

(* Lemma: the steps of an answer.                                          *)
LEMMA CalibratorStep ==
  ASSUME TK!TokenReportsAssumption, CalibratorInv, [TK!Next]_(TK!tkVars)
  PROVE  CalibratorInv'
<1>0. /\ CalibratorTypes /\ SharesPositive /\ UpdatesOwed
  BY DEF CalibratorInv
<1> DEFINE rest == <<tkTotalEstimated, tkTotalActual, tkCount, tkFactor, tkUpdates>>
<1>1. CASE UNCHANGED <<tkStep, tkEstimate, tkActual, rest>>
  <2>1. CalibratorTypes'
    BY <1>0, <1>1 DEF CalibratorTypes
  <2>2. SharesPositive'
    BY <1>0, <1>1 DEF SharesPositive
  <2>3. UpdatesOwed'
    BY <1>0, <1>1, Zenon DEF UpdatesOwed, Late
  <2> QED
    BY <2>1, <2>2, <2>3 DEF CalibratorInv
<1>2. ASSUME NEW n, NEW cached, TK!Turn(n, cached) PROVE CalibratorInv'
  <2>1. UNCHANGED <<tkStep, tkEstimate, tkActual, rest>>
    BY <1>2 DEF TK!Turn, TK!tkRecords, TK!tkCalibrator
  <2> QED
    BY <1>1, <2>1
<1>3. ASSUME NEW a \in Answers, NEW r \in Asks, TK!Estimate(a, r) PROVE CalibratorInv'
  <2> DEFINE e == TK!Calibrated(TK!RawEstimate(r))
  <2>1. /\ tkStep[a] = "idle" /\ tkStep' = [tkStep EXCEPT ![a] = "asked"]
        /\ tkEstimate' = [tkEstimate EXCEPT ![a] = e] /\ tkActual' = tkActual /\ UNCHANGED rest
    BY <1>3, Zenon DEF TK!Estimate, TK!Steps, TK!tkCalibrator
  <2>2. e \in Nat
    <3>1. TK!RawEstimate(r) \in Nat
      BY EstimateIsNat
    <3>2. tkFactor \in Nat
      BY <1>0 DEF CalibratorTypes
    <3> HIDE DEF e
    <3>3. e = (TK!RawEstimate(r) * tkFactor + 99) \div 100
      BY DEF e, TK!Calibrated
    <3> QED
      BY <3>1, <3>2, <3>3
  <2> HIDE DEF e
  <2>3. CalibratorTypes'
    BY <1>0, <2>1, <2>2 DEF CalibratorTypes, Places
  <2>4. SharesPositive'
    BY <1>0, <2>1 DEF CalibratorTypes, SharesPositive
  <2>5. UpdatesOwed'
    BY <2>1, OwedStays DEF Places
  <2> QED
    BY <2>3, <2>4, <2>5 DEF CalibratorInv
<1>4. ASSUME NEW a \in Answers, NEW n \in Actuals, TK!Answered(a, n) PROVE CalibratorInv'
  <2> DEFINE ignored == n = 0 \/ tkEstimate[a] = 0
  <2>1. /\ tkStep[a] = "asked" /\ tkStep' = [tkStep EXCEPT ![a] = IF ignored THEN "idle" ELSE "answered"]
        /\ tkActual' = [tkActual EXCEPT ![a] = IF ignored THEN 0 ELSE n]
        /\ tkEstimate' = (IF ignored THEN [tkEstimate EXCEPT ![a] = 0] ELSE tkEstimate)
        /\ UNCHANGED rest
    BY <1>4, Zenon DEF TK!Answered, TK!Steps, TK!Drop, TK!tkCalibrator
  <2>2. n \in Nat
    BY DEF TK!TokenReportsAssumption
  <2>3. tkEstimate[a] \in Nat
    BY <1>0 DEF CalibratorTypes
  <2>4. CASE ignored
    <3> HIDE DEF ignored
    <3>1. /\ tkStep' = [tkStep EXCEPT ![a] = "idle"] /\ tkActual' = [tkActual EXCEPT ![a] = 0]
          /\ tkEstimate' = [tkEstimate EXCEPT ![a] = 0]
      BY <2>1, <2>4
    <3>2. CalibratorTypes'
      BY <1>0, <2>1, <3>1 DEF CalibratorTypes, Places
    <3>3. SharesPositive'
      BY <1>0, <2>1, <3>1 DEF CalibratorTypes, SharesPositive
    <3>4. UpdatesOwed'
      BY <2>1, <3>1, OwedStays DEF Places
    <3> QED
      BY <3>2, <3>3, <3>4 DEF CalibratorInv
  <2>5. CASE ~ignored
    <3>1. tkEstimate[a] > 0
      BY <2>3, <2>5
    <3> HIDE DEF ignored
    <3>2. /\ tkStep' = [tkStep EXCEPT ![a] = "answered"] /\ tkActual' = [tkActual EXCEPT ![a] = n]
          /\ tkEstimate' = tkEstimate
      BY <2>1, <2>5
    <3>3. CalibratorTypes'
      BY <1>0, <2>1, <2>2, <3>2 DEF CalibratorTypes, Places
    <3>4. SharesPositive'
      BY <1>0, <2>1, <3>1, <3>2 DEF CalibratorTypes, SharesPositive
    <3>5. UpdatesOwed'
      BY <2>1, <3>2, OwedStays DEF Places
    <3> QED
      BY <3>3, <3>4, <3>5 DEF CalibratorInv
  <2> QED
    BY <2>4, <2>5
<1>5. ASSUME NEW a \in Answers, TK!AddEstimated(a) PROVE CalibratorInv'
  <2>1. /\ tkStep[a] = "answered" /\ tkStep' = [tkStep EXCEPT ![a] = "added"]
        /\ tkEstimate' = [tkEstimate EXCEPT ![a] = 0] /\ tkActual' = tkActual
        /\ tkTotalEstimated' = tkTotalEstimated + tkEstimate[a]
        /\ UNCHANGED <<tkTotalActual, tkCount, tkFactor, tkUpdates>>
    BY <1>5, Zenon DEF TK!AddEstimated, TK!Steps, TK!Drop
  <2>2. tkEstimate[a] \in Nat /\ tkEstimate[a] > 0 /\ tkTotalEstimated \in Nat
    BY <1>0, <2>1 DEF CalibratorTypes, SharesPositive
  <2>3. tkTotalEstimated' \in Nat /\ tkTotalEstimated' > 0
    BY ONLY <2>1, <2>2
  <2>4. CalibratorTypes'
    BY <1>0, <2>1, <2>3 DEF CalibratorTypes, Places
  <2>5. SharesPositive'
    BY <1>0, <2>1, <2>3 DEF CalibratorTypes, SharesPositive
  <2>6. UpdatesOwed'
    BY <2>1, OwedStays DEF Places
  <2> QED
    BY <2>4, <2>5, <2>6 DEF CalibratorInv
<1>6. ASSUME NEW a \in Answers, TK!AddActual(a) PROVE CalibratorInv'
  <2>1. /\ tkStep[a] = "added" /\ tkStep' = [tkStep EXCEPT ![a] = "counts"]
        /\ tkActual' = [tkActual EXCEPT ![a] = 0] /\ tkEstimate' = tkEstimate
        /\ tkTotalActual' = tkTotalActual + tkActual[a]
        /\ UNCHANGED <<tkTotalEstimated, tkCount, tkFactor, tkUpdates>>
    BY <1>6, Zenon DEF TK!AddActual, TK!Steps, TK!Drop
  <2>2. CalibratorTypes'
    BY <1>0, <2>1 DEF CalibratorTypes, Places
  <2>3. SharesPositive'
    BY <1>0, <2>1 DEF CalibratorTypes, SharesPositive
  <2>4. UpdatesOwed'
    BY <2>1, OwedStays DEF Places
  <2> QED
    BY <2>2, <2>3, <2>4 DEF CalibratorInv
<1>7. ASSUME NEW a \in Answers, TK!Count(a) PROVE CalibratorInv'
  <2> DEFINE to == TK!AfterCount(tkCount + 1)
             fifth == (tkCount + 1) % 5 = 0
  <2>1. /\ tkStep[a] = "counts" /\ tkStep' = [tkStep EXCEPT ![a] = to]
        /\ tkCount' = tkCount + 1
        /\ UNCHANGED <<tkEstimate, tkActual, tkTotalEstimated, tkTotalActual, tkFactor, tkUpdates>>
    BY <1>7, Zenon DEF TK!Count, TK!Counted, TK!Steps
  <2>2. (fifth => to = "updates") /\ (~fifth => to = "idle")
    BY Zenon DEF TK!AfterCount
  <2>3. tkCount \in Nat /\ tkUpdates \in Nat
    BY <1>0 DEF CalibratorTypes
  <2>4. /\ fifth => (tkCount + 1) \div 5 = tkCount \div 5 + 1
        /\ ~fifth => (tkCount + 1) \div 5 = tkCount \div 5
    BY <2>3
  <2> HIDE DEF to, fifth
  <2>5. to \in {"updates", "idle"} /\ to \in Places
    BY <2>2 DEF Places
  <2>6. CalibratorTypes'
    BY <1>0, <2>1, <2>5 DEF CalibratorTypes
  <2>7. SharesPositive'
    BY <1>0, <2>1, <2>5 DEF CalibratorTypes, SharesPositive
  <2>8. UpdatesOwed'
    <3> DEFINE was == Cardinality(Late(tkStep))
               now == Cardinality(Late([tkStep EXCEPT ![a] = to]))
    <3>1. tkStep \in [Answers -> Places]
      BY <1>0 DEF CalibratorTypes
    <3>2. /\ was \in Nat /\ now \in Nat
          /\ (tkStep[a] \in {"updates", "reads"} <=> to \in {"updates", "reads"}) => now = was
          /\ (tkStep[a] \notin {"updates", "reads"} /\ to \in {"updates", "reads"}) => now = was + 1
      BY ONLY <3>1, <2>5, a \in Answers, TK!TokenReportsAssumption, LateChanges, Zenon
    <3>3. UpdatesOwed' <=> tkUpdates' + now = tkCount' \div 5
      BY <2>1, Zenon DEF UpdatesOwed
    <3>4. tkUpdates + was = tkCount \div 5
      BY <1>0, Zenon DEF UpdatesOwed
    <3> HIDE DEF was, now
    <3>5. CASE fifth
      <4>1. now = was + 1
        BY <2>1, <2>2, <3>2, <3>5
      <4> QED
        BY <2>1, <2>3, <2>4, <3>2, <3>3, <3>4, <3>5, <4>1
    <3>6. CASE ~fifth
      <4>1. now = was
        BY <2>1, <2>2, <3>2, <3>6
      <4> QED
        BY <2>1, <2>3, <2>4, <3>2, <3>3, <3>4, <3>6, <4>1
    <3> QED
      BY <3>5, <3>6
  <2> QED
    BY <2>6, <2>7, <2>8 DEF CalibratorInv
<1>8. ASSUME NEW a \in Answers, TK!ReadEstimated(a) PROVE CalibratorInv'
  <2>1. /\ tkStep[a] = "updates" /\ tkStep' = [tkStep EXCEPT ![a] = "reads"]
        /\ tkEstimate' = [tkEstimate EXCEPT ![a] = tkTotalEstimated] /\ tkActual' = tkActual
        /\ UNCHANGED rest
    BY <1>8, Zenon DEF TK!ReadEstimated, TK!Steps, TK!tkCalibrator
  <2>2. tkTotalEstimated \in Nat /\ tkTotalEstimated > 0
    BY <1>0, <2>1 DEF CalibratorTypes, SharesPositive
  <2>3. CalibratorTypes'
    BY <1>0, <2>1 DEF CalibratorTypes, Places
  <2>4. SharesPositive'
    BY <1>0, <2>1, <2>2 DEF CalibratorTypes, SharesPositive
  <2>5. UpdatesOwed'
    BY <2>1, OwedStays DEF Places
  <2> QED
    BY <2>3, <2>4, <2>5 DEF CalibratorInv
<1>9. ASSUME NEW a \in Answers, TK!Update(a) PROVE CalibratorInv'
  <2> DEFINE ratio == (tkTotalActual * 100) \div tkEstimate[a]
             f == (tkFactor * 6 + TK!Clamp(ratio) * 4) \div 10
  <2>1. /\ tkStep[a] = "reads" /\ tkStep' = [tkStep EXCEPT ![a] = "idle"]
        /\ tkFactor' = f /\ tkUpdates' = tkUpdates + 1
        /\ tkEstimate' = [tkEstimate EXCEPT ![a] = 0]
        /\ UNCHANGED <<tkActual, tkTotalEstimated, tkTotalActual, tkCount>>
    BY <1>9, Zenon DEF TK!Update, TK!Steps, TK!Drop
  <2>2. tkEstimate[a] \in Nat /\ tkEstimate[a] > 0 /\ tkTotalActual \in Nat /\ tkFactor \in 80..400
    BY <1>0, <2>1 DEF CalibratorTypes, SharesPositive
  <2>3. ratio \in Nat
    <3>1. tkTotalActual * 100 \in Nat
      BY <2>2
    <3> QED
      BY ONLY <2>2, <3>1, QuotientFits
  <2> HIDE DEF ratio
  <2>4. f \in 80..400
    BY <2>2, <2>3, FactorFits
  <2> HIDE DEF f
  <2>5. tkUpdates \in Nat
    BY <1>0 DEF CalibratorTypes
  <2>6. CalibratorTypes'
    BY <1>0, <2>1, <2>4, <2>5 DEF CalibratorTypes, Places
  <2>7. SharesPositive'
    BY <1>0, <2>1 DEF CalibratorTypes, SharesPositive
  <2>8. UpdatesOwed'
    <3> DEFINE was == Cardinality(Late(tkStep))
               now == Cardinality(Late([tkStep EXCEPT ![a] = "idle"]))
    <3>1. tkStep \in [Answers -> Places] /\ "idle" \in Places
      BY <1>0 DEF CalibratorTypes, Places
    <3>2. /\ was \in Nat /\ now \in Nat
          /\ (tkStep[a] \in {"updates", "reads"} /\ "idle" \notin {"updates", "reads"}) => now = was - 1
      BY ONLY <3>1, a \in Answers, TK!TokenReportsAssumption, LateChanges, Zenon
    <3>3. UpdatesOwed' <=> tkUpdates' + now = tkCount' \div 5
      BY <2>1, Zenon DEF UpdatesOwed
    <3>4. tkUpdates + was = tkCount \div 5
      BY <1>0, Zenon DEF UpdatesOwed
    <3> HIDE DEF was, now
    <3>5. now = was - 1
      BY <2>1, <3>2
    <3>6. tkUpdates' + now = tkCount' \div 5
      BY ONLY <2>1, <2>5, <3>2, <3>4, <3>5
    <3> QED
      BY <3>3, <3>6
  <2> QED
    BY <2>6, <2>7, <2>8 DEF CalibratorInv
<1>10. CASE UNCHANGED TK!tkVars
  BY <1>1, <1>10 DEF TK!tkVars
<1> QED
  BY <1>2, <1>3, <1>4, <1>5, <1>6, <1>7, <1>8, <1>9, <1>10 DEF TK!Next, TK!Record

(* Theorem: however the records of answers interleave, each fifth one      *)
(* corrects the factor once, no correction divides by zero, and the factor *)
(* stays within 0.8 and 4 (estimation_calibrator.rs).                      *)
THEOREM CalibratorAlwaysSound ==
  ASSUME TK!TokenReportsAssumption
  PROVE  TK!Spec => [](CalibratorInv /\ TK!CalibratorSound)
<1>1. TK!Init => CalibratorInv
  <2> SUFFICES ASSUME TK!Init PROVE CalibratorInv
    OBVIOUS
  <2>1. CalibratorTypes /\ SharesPositive
    BY DEF TK!Init, CalibratorTypes, SharesPositive, Places
  <2>2. Late(tkStep) = {}
    BY DEF TK!Init, Late
  <2>3. tkUpdates = 0 /\ tkCount = 0 /\ Cardinality(Late(tkStep)) = 0
    BY <2>2, FS_EmptySet DEF TK!Init
  <2>4. UpdatesOwed
    BY <2>3 DEF UpdatesOwed
  <2> QED
    BY <2>1, <2>4 DEF CalibratorInv
<1>2. CalibratorInv /\ [TK!Next]_(TK!tkVars) => CalibratorInv'
  BY CalibratorStep
<1>3. CalibratorInv => TK!CalibratorSound
  <2> SUFFICES ASSUME CalibratorInv PROVE TK!CalibratorSound
    OBVIOUS
  <2>1. tkFactor \in 80..400
    BY DEF CalibratorInv, CalibratorTypes
  <2>2. ASSUME \A a \in Answers : tkStep[a] = "idle" PROVE tkUpdates = tkCount \div 5
    <3>1. Late(tkStep) = {}
      BY <2>2 DEF Late
    <3>2. Cardinality(Late(tkStep)) = 0
      BY <3>1, FS_EmptySet
    <3>3. tkUpdates \in Nat
      BY DEF CalibratorInv, CalibratorTypes
    <3>4. tkUpdates + Cardinality(Late(tkStep)) = tkCount \div 5
      BY Zenon DEF CalibratorInv, UpdatesOwed
    <3> QED
      BY ONLY <3>2, <3>3, <3>4
  <2> QED
    BY <2>1, <2>2 DEF TK!CalibratorSound
<1> QED
  BY <1>1, <1>2, <1>3, PTL DEF TK!Spec

-----------------------------------------------------------------------------
(* ModelRoutes: unless one of the listed things comes between, the name    *)
(* that is sent is the name the account was chosen for, and a lock is put  *)
(* where the next choice looks.                                            *)
CONSTANTS Names, Reported, Mappings, Clients, MaxServed, MaxChanges
VARIABLES moMapping, moChanges, moServed, moPhase, moReq, moAccount, moRouted, moChosen,
          moMapped, moSent, moMoved, moTried, moAttempt, moLocks, moRefused
MO == INSTANCE ModelRoutes WITH Requests <- Clients

Vocabulary == MO!Aliases \union MO!OwnNames \union MO!PassThrough \union {"fast"}

(* Lemma: what the table says of a name.                                   *)
LEMMA TableNames ==
  /\ DOMAIN MO!Table = MO!OwnNames \union MO!Aliases
  /\ \A m \in MO!OwnNames : MO!Table[m] = m
  /\ \A m \in MO!Aliases : MO!Table[m] \in MO!OwnNames /\ MO!Table[m] # m
<1>1. DOMAIN MO!Table = MO!OwnNames \union MO!Aliases
  BY DEF MO!Table
<1>2. \A m \in MO!OwnNames : MO!Table[m] = m
  BY DEF MO!Table, MO!OwnNames, MO!Search, MO!Lite, MO!Image
<1>3. \A m \in MO!Aliases : MO!Table[m] \in MO!OwnNames /\ MO!Table[m] # m
  BY DEF MO!Table, MO!OwnNames, MO!Aliases, MO!Search, MO!Lite, MO!Image
<1> QED
  BY <1>1, <1>2, <1>3

(* Lemma: a name outside of both is passed through or unknown.             *)
LEMMA BuiltInNames ==
  ASSUME NEW m, NEW x \in MO!BuiltIn(m)
  PROVE  x \in Vocabulary /\ MO!BuiltIn(m) = {x}
<1>1. CASE m \in DOMAIN MO!Table
  <2>1. MO!BuiltIn(m) = {MO!Table[m]}
    BY <1>1, Zenon DEF MO!BuiltIn
  <2>2. MO!Table[m] \in MO!OwnNames
    BY <1>1, TableNames
  <2> QED
    BY <2>1, <2>2 DEF Vocabulary
<1>2. CASE m \notin DOMAIN MO!Table
  <2>1. MO!BuiltIn(m) = {m} \intersect MO!PassThrough
    BY <1>2, Zenon DEF MO!BuiltIn
  <2> QED
    BY <2>1 DEF Vocabulary
<1> QED
  BY <1>1, <1>2

(* Lemma: a name has at most one route.                                    *)
LEMMA RouteIsOne ==
  ASSUME MO!ModelRoutesAssumption, NEW m, NEW mapping \in Mappings,
         NEW x \in MO!Route(m, mapping)
  PROVE  x \in Names /\ \A y \in MO!Route(m, mapping) : y = x
<1> DEFINE exact == {i \in DOMAIN mapping : mapping[i][1] = m}
           matching == {i \in DOMAIN mapping : MO!Matches(mapping[i][1], m)}
<1>1. /\ mapping \in Seq(Names \X Names)
      /\ \A i, j \in DOMAIN mapping : mapping[i][1] = mapping[j][1] => i = j
  BY DEF MO!ModelRoutesAssumption
<1>2. \A i \in DOMAIN mapping : i \in Nat /\ mapping[i][2] \in Names
  BY <1>1
<1>3. CASE exact # {}
  <2>1. \A y \in MO!Route(m, mapping) : \E i \in exact : y = mapping[i][2]
    BY <1>3, Zenon DEF MO!Route
  <2>2. \A i, j \in exact : i = j
    BY <1>1
  <2> QED
    BY <1>2, <2>1, <2>2
<1>4. CASE exact = {} /\ matching # {}
  <2> DEFINE first == CHOOSE i \in matching : \A j \in matching : i <= j
  <2>1. first \in matching
    <3>1. matching \subseteq Nat
      BY <1>2
    <3>2. PICK i \in matching : \A j \in matching : i <= j
      BY <1>4, <3>1, LeastExists
    <3> QED
      BY <3>2, Zenon
  <2>2. MO!Route(m, mapping) = {mapping[first][2]}
    BY <1>4, Zenon DEF MO!Route
  <2> QED
    BY <1>2, <2>1, <2>2
<1>5. CASE exact = {} /\ matching = {}
  <2>1. MO!Route(m, mapping) = MO!BuiltIn(m)
    BY <1>5, Zenon DEF MO!Route
  <2> QED
    BY <2>1, BuiltInNames DEF Vocabulary, MO!ModelRoutesAssumption
<1> QED
  BY <1>3, <1>4, <1>5

(* Lemma: a name of the table, of the user's, or for images has a route.   *)
LEMMA ListedHasRoute ==
  ASSUME MO!ModelRoutesAssumption, NEW mapping \in Mappings,
         NEW m \in MO!Listed(mapping) \ Reported
  PROVE  MO!Route(m, mapping) # {}
<1> DEFINE exact == {i \in DOMAIN mapping : mapping[i][1] = m}
           matching == {i \in DOMAIN mapping : MO!Matches(mapping[i][1], m)}
<1>1. CASE exact # {}
  <2>1. MO!Route(m, mapping) = {mapping[i][2] : i \in exact}
    BY <1>1, Zenon DEF MO!Route
  <2> QED
    BY <1>1, <2>1
<1>2. CASE exact = {} /\ matching # {}
  <2>1. MO!Route(m, mapping) = {mapping[CHOOSE i \in matching : \A j \in matching : i <= j][2]}
    BY <1>2, Zenon DEF MO!Route
  <2> QED
    BY <2>1
<1>3. CASE exact = {} /\ matching = {}
  <2>1. MO!Route(m, mapping) = MO!BuiltIn(m)
    BY <1>3, Zenon DEF MO!Route
  <2>2. m \in DOMAIN MO!Table \/ m \in MO!ImageVariants
    BY <1>3 DEF MO!Listed
  <2> QED
    BY <2>1, <2>2 DEF MO!BuiltIn, MO!PassThrough
<1> QED
  BY <1>1, <1>2, <1>3

(* Lemma: a name that is its own translation.                              *)
LEMMA OwnTranslation ==
  ASSUME NEW m, MO!BuiltIn(m) = {m}
  PROVE  m \in MO!OwnNames \union MO!PassThrough
<1>1. CASE m \in DOMAIN MO!Table
  <2>1. MO!Table[m] = m
    BY <1>1, Zenon DEF MO!BuiltIn
  <2> QED
    BY <1>1, <2>1, TableNames
<1>2. CASE m \notin DOMAIN MO!Table
  BY <1>2 DEF MO!BuiltIn
<1> QED
  BY <1>1, <1>2

(* Lemma: the lock of a name the table leaves as it is.                    *)
LEMMA LockOfSettled ==
  ASSUME NEW m, MO!InTable(m) = m
  PROVE  MO!LockName(m) = IF MO!Family(m) # "none" THEN MO!Family(m) ELSE m
BY DEF MO!LockName

LEMMA ImagesShareLock ==
  ASSUME NEW m \in MO!ImageVariants
  PROVE  MO!LockName(m) = "gemini-3-pro-high"
<1>1. MO!InTable(m) = m
  <2>1. m \notin MO!Aliases
    BY DEF MO!ImageVariants, MO!Aliases, MO!Image
  <2> QED
    BY <2>1, TableNames DEF MO!InTable
<1>2. MO!Family(m) = "gemini-3-pro-high"
  BY DEF MO!Family, MO!ImageVariants, MO!Image
<1> QED
  BY <1>1, <1>2, LockOfSettled

LEMMA ProSharesLock ==
  /\ MO!LockName("gemini-3-pro-preview") = "gemini-3-pro-high"
  /\ MO!LockName("gemini-3-pro-high") = "gemini-3-pro-high"
<1>1. MO!InTable("gemini-3-pro-preview") = "gemini-3-pro-preview"
  BY TableNames DEF MO!InTable, MO!OwnNames
<1>2. MO!InTable("gemini-3-pro-high") = "gemini-3-pro-preview"
  BY DEF MO!InTable, MO!Table, MO!Aliases
<1>3. MO!Family("gemini-3-pro-preview") = "gemini-3-pro-high"
  BY DEF MO!Family
<1> QED
  BY <1>1, <1>2, <1>3 DEF MO!LockName

(* Lemma: a request that is no search locks the name it was mapped to.     *)
LEMMA LockOfFinal ==
  ASSUME NEW m, MO!BuiltIn(m) = {m}, m \notin MO!Online, NEW original, original \notin MO!Online
  PROVE  MO!LockName(MO!FinalModel(original, m, FALSE)) = MO!LockName(m)
<1>1. m \in MO!OwnNames \union MO!PassThrough
  BY OwnTranslation
<1>2. CASE m \in MO!ImageVariants
  <2>1. MO!FinalModel(original, m, FALSE) = MO!Image
    BY <1>2, Zenon DEF MO!FinalModel
  <2>2. MO!Image \in MO!ImageVariants
    BY DEF MO!ImageVariants
  <2> QED
    BY <1>2, <2>1, <2>2, ImagesShareLock
<1>3. CASE m \notin MO!ImageVariants
  <2>1. m \in {"claude-opus-4-5-thinking", "claude-sonnet-4-5", "gemini-3-pro-preview", "gemini-3-flash",
               MO!Search, MO!Lite}
    BY <1>1, <1>3 DEF MO!OwnNames, MO!PassThrough, MO!ImageVariants, MO!Online
  <2>2. MO!FinalModel(original, m, FALSE) = IF m = "gemini-3-pro-preview" THEN "gemini-3-pro-high" ELSE m
    BY <1>3, <2>1 DEF MO!FinalModel, MO!WithoutOnline, MO!Search, MO!Lite
  <2> QED
    BY <2>2, ProSharesLock
<1> QED
  BY <1>2, <1>3

(* Lemma: what is asked and what is locked are names.                      *)
LEMMA FinalIsName ==
  ASSUME MO!ModelRoutesAssumption, NEW m \in Names, NEW original, NEW searching \in BOOLEAN
  PROVE  MO!FinalModel(original, m, searching) \in Names
<1>1. {MO!Image, MO!Search, "gemini-3-pro-high", "gemini-3-flash", "fast"} \subseteq Names
  BY DEF MO!ModelRoutesAssumption, MO!OwnNames, MO!Aliases
<1>2. MO!WithoutOnline(m) \in Names
  BY <1>1 DEF MO!WithoutOnline
<1> QED
  BY <1>1, <1>2 DEF MO!FinalModel

LEMMA LockIsName ==
  ASSUME MO!ModelRoutesAssumption, NEW m \in Names
  PROVE  MO!LockName(m) \in Names
<1>1. {"gemini-3-flash", "gemini-3-pro-high", "claude-opus-4-5-thinking", "claude-sonnet-4-5"} \subseteq Names
  BY DEF MO!ModelRoutesAssumption, MO!OwnNames, MO!Aliases
<1>2. \A n : MO!Family(n) # "none" => MO!Family(n) \in Names
  BY <1>1 DEF MO!Family
<1> QED
  BY <1>2 DEF MO!LockName

LEMMA ClaudeSentIs ==
  ASSUME MO!ModelRoutesAssumption, NEW m, NEW searching \in BOOLEAN, NEW s \in MO!ClaudeSent(m, searching)
  PROVE  /\ s \in Names
         /\ searching => s = MO!Search
         /\ ~searching => \E x \in MO!BuiltIn(m) : s = MO!FinalModel(m, x, FALSE)
<1>1. MO!Search \in Names
  BY DEF MO!ModelRoutesAssumption, MO!OwnNames
<1>2. CASE searching
  <2>1. s = MO!FinalModel(m, MO!Search, TRUE)
    BY <1>2 DEF MO!ClaudeSent
  <2>2. MO!Search \notin MO!ImageVariants
    BY DEF MO!Search, MO!ImageVariants, MO!Image
  <2> QED
    BY <1>1, <1>2, <2>1, <2>2 DEF MO!FinalModel
<1>3. CASE ~searching
  <2>1. PICK x \in MO!BuiltIn(m) : s = MO!FinalModel(m, x, FALSE)
    BY <1>3 DEF MO!ClaudeSent
  <2>2. x \in Names
    BY BuiltInNames DEF Vocabulary, MO!ModelRoutesAssumption
  <2> QED
    BY <1>3, <2>1, <2>2, FinalIsName
<1> QED
  BY <1>2, <1>3

LEMMA TranslatedIsName ==
  ASSUME MO!ModelRoutesAssumption, NEW r, NEW m \in Names, NEW s \in MO!Translated(r, m)
  PROVE  s \in Names
<1> DEFINE searching == MO!IsSearch(r.tool, MO!SeenAs(r, m))
<1>1. searching \in BOOLEAN /\ (searching /\ ~MO!Own(r)) \in BOOLEAN
  BY DEF MO!IsSearch
<1>2. \/ s \in MO!ClaudeSent(m, searching /\ ~MO!Own(r))
      \/ s \in MO!ClaudeSent(m, searching)
      \/ s = MO!FinalModel(m, m, searching)
      \/ s = MO!FinalModel(r.model, m, searching)
  BY Zenon DEF MO!Translated
<1> HIDE DEF searching
<1>3. ASSUME NEW asks \in BOOLEAN, s \in MO!ClaudeSent(m, asks) PROVE s \in Names
  BY <1>3, ClaudeSentIs
<1>4. \A original : MO!FinalModel(original, m, searching) \in Names
  BY <1>1, FinalIsName, Zenon
<1> QED
  BY <1>1, <1>2, <1>3, <1>4, Zenon

(* Lemma: both decisions give one name, unless they come apart.            *)
LEMMA OneName ==
  ASSUME MO!ModelRoutesAssumption, NEW r \in Clients, NEW m \in Names, NEW s \in MO!Translated(r, m),
         ~MO!Own(r), (r.model \in MO!Online) = (m \in MO!Online),
         MO!IsSearch(r.tool, MO!SeenAs(r, m)) = MO!IsSearch(r.tool, "flat"),
         ~(r.proto = "claude" /\ r.tool # "none" /\ m \in MO!ImageVariants),
         MO!BuiltIn(m) = {m}
  PROVE  s = MO!FinalModel(r.model, m, MO!IsSearch(r.tool, "flat"))
<1> DEFINE searching == MO!IsSearch(r.tool, "flat")
<1>1. searching \in BOOLEAN /\ (searching => r.tool # "none")
  BY DEF MO!IsSearch
<1>2. MO!IsSearch(r.tool, MO!SeenAs(r, m)) = searching
  OBVIOUS
<1>3. ASSUME s \in MO!ClaudeSent(m, searching), searching => m \notin MO!ImageVariants
      PROVE  s = MO!FinalModel(r.model, m, searching)
  <2>1. CASE searching
    <3>1. s = MO!Search
      BY <1>3, <2>1, <1>1, ClaudeSentIs
    <3> QED
      BY <1>3, <2>1, <3>1 DEF MO!FinalModel
  <2>2. CASE ~searching
    <3>1. s = MO!FinalModel(m, m, FALSE)
      BY <1>3, <2>2, <1>1, ClaudeSentIs
    <3>2. MO!FinalModel(m, m, FALSE) = MO!FinalModel(r.model, m, FALSE)
      BY DEF MO!FinalModel
    <3> QED
      BY <1>1, <2>2, <3>1, <3>2
  <2> QED
    BY <2>1, <2>2
<1>4. (searching /\ ~MO!Own(r)) = searching
  BY <1>1
<1>5. CASE r.proto = "claude"
  <2>1. s \in MO!ClaudeSent(m, searching)
    BY <1>2, <1>4, <1>5, Zenon DEF MO!Translated
  <2>2. searching => m \notin MO!ImageVariants
    BY <1>1, <1>5
  <2> QED
    BY <1>3, <2>1, <2>2
<1>6. CASE r.proto = "chat" /\ MO!IsClaude(m)
  <2>1. s \in MO!ClaudeSent(m, searching)
    BY <1>2, <1>4, <1>6, Zenon DEF MO!Translated
  <2>2. m \notin MO!ImageVariants
    BY <1>6 DEF MO!IsClaude, MO!ImageVariants, MO!Image
  <2> QED
    BY <1>3, <2>1, <2>2
<1>7. CASE r.proto = "gemini"
  <2>1. s = MO!FinalModel(m, m, searching)
    BY <1>2, <1>7 DEF MO!Translated
  <2>2. MO!FinalModel(m, m, searching) = MO!FinalModel(r.model, m, searching)
    BY DEF MO!FinalModel
  <2> QED
    BY <2>1, <2>2
<1>8. CASE r.proto # "claude" /\ ~(r.proto = "chat" /\ MO!IsClaude(m)) /\ r.proto # "gemini"
  BY <1>2, <1>8 DEF MO!Translated
<1> QED
  BY <1>5, <1>6, <1>7, <1>8

(* Lemma: a turn of the client's own goes to a cheap model.                *)
LEMMA CheapIsSent ==
  ASSUME MO!ModelRoutesAssumption, NEW r \in Clients, r.proto = "claude", MO!Own(r),
         NEW s \in MO!Translated(r, MO!BackgroundModel(MO!Task(r.words)))
  PROVE  s \in {MO!Lite, MO!Search}
<1> DEFINE m == MO!BackgroundModel(MO!Task(r.words))
<1>1. m \in {MO!Lite, MO!Search}
  BY DEF MO!BackgroundModel
<1>2. s \in MO!ClaudeSent(m, FALSE)
  <2>1. s \in MO!ClaudeSent(m, MO!IsSearch(r.tool, MO!SeenAs(r, m)) /\ ~MO!Own(r))
    BY Zenon DEF MO!Translated
  <2>2. (MO!IsSearch(r.tool, MO!SeenAs(r, m)) /\ ~MO!Own(r)) = FALSE
    BY Zenon
  <2> QED
    BY <2>1, <2>2, Zenon
<1> HIDE DEF m
<1>3. PICK x \in MO!BuiltIn(m) : s = MO!FinalModel(m, x, FALSE)
  BY <1>2, ClaudeSentIs
<1>4. x = m
  <2>1. m \in MO!OwnNames
    BY <1>1 DEF MO!OwnNames
  <2> QED
    BY <2>1, TableNames DEF MO!BuiltIn
<1>5. m \notin MO!ImageVariants /\ m \notin MO!Online
  BY <1>1 DEF MO!Lite, MO!Search, MO!ImageVariants, MO!Image, MO!Online
<1>6. MO!WithoutOnline(m) = m /\ m # "gemini-3-pro-preview" /\ m # "gemini-3-flash-preview"
  BY <1>1 DEF MO!WithoutOnline, MO!Lite, MO!Search
<1> QED
  BY <1>1, <1>3, <1>4, <1>5, <1>6 DEF MO!FinalModel

(* The inductive invariant: what each stage of a request knows of the      *)
(* stages before it.                                                       *)
Decided ==
    moPhase \in {"acquire", "prepare", "sent"} =>
        /\ moRouted \in Names
        /\ moChosen = MO!FinalModel(moReq.model, moRouted, MO!IsSearch(moReq.tool, "flat"))
StillRouted ==
    moPhase \in {"acquire", "prepare"} /\ ~moMoved => moRouted \in MO!Route(moReq.model, moMapping)
Picked ==
    moPhase \in {"prepare", "sent"} =>
        /\ moAccount \in Accounts
        /\ <<moAccount, "any">> \notin moLocks
        /\ <<moAccount, MO!LockName(moChosen)>> \notin moLocks
Made ==
    moPhase = "sent" =>
        /\ moMapped \in Names /\ moSent \in MO!Translated(moReq, moMapped)
        /\ ~moMoved /\ ~MO!Own(moReq) => moMapped = moRouted
        /\ moReq.proto = "claude" /\ MO!Own(moReq) => moMapped = MO!BackgroundModel(MO!Task(moReq.words))
Remembered == \A p \in moRefused : p \in moLocks \/ <<p[1], "any">> \in moLocks
RoutesInv ==
    /\ MO!TypeOK /\ Decided /\ StillRouted /\ Picked /\ Made /\ Remembered
    /\ moPhase # "idle" => moReq \in Clients
    /\ moAttempt = 0 \/ moAttempt < MO!Cardinality(Accounts)

LEMMA AccountsCount ==
  ASSUME MO!ModelRoutesAssumption
  PROVE  MO!Cardinality(Accounts) \in Nat
<1>1. IsFiniteSet(Accounts)
  BY DEF MO!ModelRoutesAssumption, MO!IsFiniteSet, IsFiniteSet
<1>2. MO!Cardinality(Accounts) = Cardinality(Accounts)
  BY DEF MO!Cardinality, Cardinality, MO!IsFiniteSet, IsFiniteSet
<1> QED
  BY <1>1, <1>2, FS_CardinalityType

(* Lemma: what is sent, unless the decisions come apart.                   *)
LEMMA SentIsChosen ==
  ASSUME MO!ModelRoutesAssumption, RoutesInv, moPhase = "sent", ~MO!ComesApart
  PROVE  moMapped = moRouted /\ moSent = moChosen
<1>1. ~moMoved /\ ~MO!Own(moReq)
  BY DEF MO!ComesApart
<1>2. moMapped = moRouted /\ moReq \in Clients
  BY <1>1 DEF RoutesInv, Made
<1>3. /\ (moReq.model \in MO!Online) = (moRouted \in MO!Online)
      /\ MO!IsSearch(moReq.tool, MO!SeenAs(moReq, moRouted)) = MO!IsSearch(moReq.tool, "flat")
      /\ ~(moReq.proto = "claude" /\ moReq.tool # "none" /\ moRouted \in MO!ImageVariants)
      /\ MO!BuiltIn(moRouted) = {moRouted}
  BY Zenon DEF MO!ComesApart
<1>4. /\ moRouted \in Names /\ moSent \in MO!Translated(moReq, moRouted)
      /\ moChosen = MO!FinalModel(moReq.model, moRouted, MO!IsSearch(moReq.tool, "flat"))
  BY <1>2 DEF RoutesInv, Made, Decided
<1>5. moSent = MO!FinalModel(moReq.model, moRouted, MO!IsSearch(moReq.tool, "flat"))
  BY <1>1, <1>2, <1>3, <1>4, OneName
<1> QED
  BY <1>2, <1>4, <1>5

(* Lemma: what an exhausted answer locks covers what was found exhausted.  *)
LEMMA BlameCovers ==
  ASSUME MO!ModelRoutesAssumption, RoutesInv, moPhase = "sent", ~MO!ComesApart, ~MO!Searching
  PROVE  MO!Blamed = "any" \/ MO!Blamed = MO!LockName(moSent)
<1>1. moMapped = moRouted /\ moSent = moChosen
  BY SentIsChosen
<1>2. CASE moReq.proto = "gemini"
  BY <1>2 DEF MO!Blamed
<1>3. CASE moReq.proto = "chat"
  BY <1>1, <1>3 DEF MO!Blamed
<1>4. CASE moReq.proto \notin {"gemini", "chat"}
  <2>1. MO!Blamed = MO!LockName(moRouted)
    BY <1>1, <1>4 DEF MO!Blamed
  <2>2. moReq.tool = "none" /\ moReq.model \notin MO!Online
    BY DEF MO!Searching
  <2>3. MO!BuiltIn(moRouted) = {moRouted} /\ moRouted \notin MO!Online
    BY <2>2 DEF MO!ComesApart
  <2>4. MO!IsSearch(moReq.tool, "flat") = FALSE
    BY <2>2 DEF MO!IsSearch
  <2>5. moSent = MO!FinalModel(moReq.model, moRouted, FALSE)
    BY <1>1, <2>4 DEF RoutesInv, Decided
  <2> QED
    BY <2>1, <2>2, <2>3, <2>5, LockOfFinal
<1> QED
  BY <1>2, <1>3, <1>4

(* Lemma: the end of a request leaves what is locked and found.            *)
LEMMA EndKeeps ==
  ASSUME MO!ModelRoutesAssumption, RoutesInv, MO!End
  PROVE  RoutesInv'
<1>1. /\ moPhase' = "idle" /\ moReq' = MO!NoRequest /\ moAccount' = "none" /\ moRouted' = "none"
      /\ moChosen' = "none" /\ moMapped' = "none" /\ moSent' = "none" /\ moMoved' = FALSE
      /\ moTried' = {} /\ moAttempt' = 0
      /\ UNCHANGED <<moMapping, moChanges, moServed, moLocks, moRefused>>
  BY DEF MO!End, MO!Forgotten
<1>2. MO!TypeOK'
  <2>1. 0 \in 0..MO!Cardinality(Accounts)
    BY AccountsCount
  <2> QED
    BY <1>1, <2>1 DEF RoutesInv, MO!TypeOK
<1>3. Decided' /\ StillRouted' /\ Picked' /\ Made' /\ Remembered'
  BY <1>1 DEF RoutesInv, Decided, StillRouted, Picked, Made, Remembered
<1> QED
  BY <1>1, <1>2, <1>3 DEF RoutesInv

LEMMA ChangeKeeps ==
  ASSUME MO!ModelRoutesAssumption, RoutesInv, MO!ChangeMapping
  PROVE  RoutesInv'
<1>1. /\ moMapping' \in Mappings /\ moChanges' = moChanges + 1 /\ moChanges < MaxChanges
      /\ moMoved' = (moMoved \/ moPhase \in {"acquire", "prepare"})
      /\ UNCHANGED <<moServed, moPhase, moReq, moAccount, moRouted, moChosen, moMapped, moSent, moTried,
                     moAttempt, moLocks, moRefused>>
  BY DEF MO!ChangeMapping
<1>2. moMoved' \in BOOLEAN /\ (~moMoved' => ~moMoved /\ moPhase \notin {"acquire", "prepare"})
  BY <1>1
<1>3. moChanges' \in 0..MaxChanges
  BY <1>1 DEF RoutesInv, MO!TypeOK, MO!ModelRoutesAssumption
<1>4. MO!TypeOK'
  BY <1>1, <1>2, <1>3 DEF RoutesInv, MO!TypeOK
<1>5. Decided' /\ Picked' /\ Remembered'
  BY <1>1 DEF RoutesInv, Decided, Picked, Remembered
<1>6. StillRouted' /\ Made'
  BY <1>1, <1>2 DEF RoutesInv, StillRouted, Made
<1> QED
  BY <1>1, <1>4, <1>5, <1>6 DEF RoutesInv

LEMMA ReceiveKeeps ==
  ASSUME MO!ModelRoutesAssumption, RoutesInv, NEW r \in Clients, MO!Receive(r)
  PROVE  RoutesInv'
<1>1. /\ moPhase = "idle" /\ moServed < MaxServed /\ moServed' = moServed + 1
      /\ UNCHANGED <<moMapping, moChanges, moAccount, moRouted, moChosen, moMapped, moSent, moMoved, moTried,
                     moAttempt, moLocks, moRefused>>
  BY DEF MO!Receive
<1>2. (moPhase' = "idle" /\ moReq' = moReq) \/ (moPhase' = "route" /\ moReq' = r)
  BY <1>1 DEF MO!Receive
<1>3. moServed' \in 0..MaxServed
  BY <1>1 DEF RoutesInv, MO!TypeOK, MO!ModelRoutesAssumption
<1>4. MO!TypeOK'
  BY <1>1, <1>2, <1>3 DEF RoutesInv, MO!TypeOK
<1>5. Decided' /\ StillRouted' /\ Picked' /\ Made' /\ Remembered'
  BY <1>1, <1>2 DEF RoutesInv, Decided, StillRouted, Picked, Made, Remembered
<1> QED
  BY <1>1, <1>2, <1>4, <1>5 DEF RoutesInv

LEMMA ResolveKeeps ==
  ASSUME MO!ModelRoutesAssumption, RoutesInv, MO!Resolve
  PROVE  RoutesInv'
<1>1. PICK m \in MO!Route(moReq.model, moMapping) :
         moRouted' = m /\ moChosen' = MO!FinalModel(moReq.model, m, MO!IsSearch(moReq.tool, "flat"))
  BY DEF MO!Resolve
<1>2. /\ moPhase = "route" /\ moPhase' = "acquire" /\ moMoved' = FALSE
      /\ UNCHANGED <<moMapping, moChanges, moServed, moReq, moAccount, moMapped, moSent, moTried,
                     moAttempt, moLocks, moRefused>>
  BY DEF MO!Resolve
<1>3. moMapping \in Mappings /\ moReq \in Clients
  BY <1>2 DEF RoutesInv, MO!TypeOK
<1>4. m \in Names
  BY <1>3, RouteIsOne
<1>5. MO!IsSearch(moReq.tool, "flat") \in BOOLEAN
  BY DEF MO!IsSearch
<1>6. moChosen' \in Names
  BY <1>1, <1>4, <1>5, FinalIsName
<1>7. MO!TypeOK'
  BY <1>1, <1>2, <1>4, <1>6 DEF RoutesInv, MO!TypeOK
<1>8. Decided' /\ StillRouted'
  BY <1>1, <1>2, <1>4 DEF Decided, StillRouted
<1>9. Picked' /\ Made' /\ Remembered'
  BY <1>2 DEF RoutesInv, Picked, Made, Remembered
<1> QED
  BY <1>2, <1>3, <1>7, <1>8, <1>9 DEF RoutesInv

LEMMA AcquireKeeps ==
  ASSUME MO!ModelRoutesAssumption, RoutesInv, MO!Acquire
  PROVE  RoutesInv'
<1>1. /\ moPhase = "acquire" /\ moPhase' = "prepare" /\ moAccount' \in MO!Usable
      /\ UNCHANGED <<moMapping, moChanges, moServed, moReq, moRouted, moChosen, moMapped, moSent, moMoved, moTried,
                     moAttempt, moLocks, moRefused>>
  BY DEF MO!Acquire
<1>2. /\ moAccount' \in Accounts /\ <<moAccount', "any">> \notin moLocks
      /\ <<moAccount', MO!LockName(moChosen)>> \notin moLocks
  BY <1>1 DEF MO!Usable
<1>3. MO!TypeOK'
  BY <1>1, <1>2 DEF RoutesInv, MO!TypeOK
<1>4. Picked'
  BY <1>1, <1>2 DEF Picked
<1>5. Decided' /\ StillRouted' /\ Made' /\ Remembered'
  BY <1>1 DEF RoutesInv, Decided, StillRouted, Made, Remembered
<1> QED
  BY <1>1, <1>3, <1>4, <1>5 DEF RoutesInv

LEMMA PrepareKeeps ==
  ASSUME MO!ModelRoutesAssumption, RoutesInv, MO!Prepare
  PROVE  RoutesInv'
<1>1. PICK m \in MO!MappedNow : moMapped' = m /\ moSent' \in MO!Translated(moReq, m)
  BY DEF MO!Prepare
<1>2. /\ moPhase = "prepare" /\ moPhase' = "sent"
      /\ UNCHANGED <<moMapping, moChanges, moServed, moReq, moAccount, moRouted, moChosen, moMoved, moTried,
                     moAttempt, moLocks, moRefused>>
  BY DEF MO!Prepare
<1>3. /\ moMapping \in Mappings /\ moReq \in Clients /\ moRouted \in Names
      /\ ~moMoved => moRouted \in MO!Route(moReq.model, moMapping)
  BY <1>2 DEF RoutesInv, MO!TypeOK, Decided, StillRouted
<1>4. /\ m \in Names
      /\ ~moMoved /\ ~MO!Own(moReq) => m = moRouted
      /\ moReq.proto = "claude" /\ MO!Own(moReq) => m = MO!BackgroundModel(MO!Task(moReq.words))
  <2>1. CASE moReq.proto # "claude"
    <3>1. m = moRouted
      BY <1>1, <2>1 DEF MO!MappedNow
    <3> QED
      BY <1>3, <2>1, <3>1
  <2>2. CASE moReq.proto = "claude" /\ (~MO!Own(moReq) \/ MO!Route(moReq.model, moMapping) = {})
    <3>1. m \in MO!Route(moReq.model, moMapping)
      BY <1>1, <2>2, Zenon DEF MO!MappedNow
    <3>2. m \in Names /\ \A y \in MO!Route(moReq.model, moMapping) : y = m
      BY <1>3, <3>1, RouteIsOne
    <3> QED
      BY <1>3, <2>2, <3>1, <3>2
  <2>3. CASE moReq.proto = "claude" /\ MO!Own(moReq) /\ MO!Route(moReq.model, moMapping) # {}
    <3>1. m = MO!BackgroundModel(MO!Task(moReq.words))
      BY <1>1, <2>3 DEF MO!MappedNow
    <3>2. MO!BackgroundModel(MO!Task(moReq.words)) \in Names
      BY DEF MO!BackgroundModel, MO!ModelRoutesAssumption, MO!OwnNames
    <3> QED
      BY <2>3, <3>1, <3>2
  <2> QED
    BY <2>1, <2>2, <2>3
<1>5. moSent' \in Names
  BY <1>1, <1>4, TranslatedIsName
<1>6. MO!TypeOK'
  BY <1>1, <1>2, <1>4, <1>5 DEF RoutesInv, MO!TypeOK
<1>7. Made'
  BY <1>1, <1>2, <1>4 DEF Made
<1>8. Decided' /\ StillRouted' /\ Picked' /\ Remembered'
  BY <1>2 DEF RoutesInv, Decided, StillRouted, Picked, Remembered
<1> QED
  BY <1>2, <1>3, <1>6, <1>7, <1>8 DEF RoutesInv

LEMMA ExhaustedKeeps ==
  ASSUME MO!ModelRoutesAssumption, RoutesInv, MO!Exhausted
  PROVE  RoutesInv'
<1>1. /\ moPhase = "sent" /\ moLocks' = moLocks \union {<<moAccount, MO!Blamed>>}
      /\ moRefused' = moRefused \union (IF MO!ComesApart \/ MO!Searching THEN {}
                                        ELSE {<<moAccount, MO!LockName(moSent)>>})
      /\ UNCHANGED <<moMapping, moChanges, moServed>>
  BY DEF MO!Exhausted
<1>2. /\ moAccount \in Accounts /\ moChosen \in Names /\ moMapped \in Names /\ moSent \in Names
      /\ moReq \in Clients
  <2>1. moRouted \in Names /\ MO!IsSearch(moReq.tool, "flat") \in BOOLEAN
        /\ moChosen = MO!FinalModel(moReq.model, moRouted, MO!IsSearch(moReq.tool, "flat"))
    BY <1>1 DEF RoutesInv, Decided, MO!IsSearch
  <2>2. moChosen \in Names
    BY <2>1, FinalIsName
  <2>3. moMapped \in Names /\ moSent \in MO!Translated(moReq, moMapped) /\ moAccount \in Accounts
        /\ moReq \in Clients
    BY <1>1 DEF RoutesInv, Made, Picked
  <2> QED
    BY <2>2, <2>3, TranslatedIsName
<1>3. MO!Blamed \in Names \union {"any"} /\ MO!LockName(moSent) \in Names
  BY <1>2, LockIsName DEF MO!Blamed
<1>4. moLocks' \subseteq Accounts \X (Names \union {"any"}) /\ moRefused' \subseteq Accounts \X Names
  BY <1>1, <1>2, <1>3 DEF RoutesInv, MO!TypeOK
<1>5. Remembered'
  <2>1. CASE MO!ComesApart \/ MO!Searching
    BY <1>1, <2>1 DEF RoutesInv, Remembered
  <2>2. CASE ~MO!ComesApart /\ ~MO!Searching
    <3>1. MO!Blamed = "any" \/ MO!Blamed = MO!LockName(moSent)
      BY <1>1, <2>2, BlameCovers
    <3>2. ASSUME NEW p \in moRefused' PROVE p \in moLocks' \/ <<p[1], "any">> \in moLocks'
      <4>1. CASE p \in moRefused
        BY <1>1, <4>1 DEF RoutesInv, Remembered
      <4>2. CASE p = <<moAccount, MO!LockName(moSent)>>
        BY <1>1, <3>1, <4>2
      <4> QED
        BY <1>1, <2>2, <3>2, <4>1, <4>2
    <3> QED
      BY <3>2 DEF Remembered
  <2> QED
    BY <2>1, <2>2
<1>6. CASE moPhase' = "idle" /\ MO!Forgotten
  <2>1. /\ moReq' = MO!NoRequest /\ moAccount' = "none" /\ moRouted' = "none"
        /\ moChosen' = "none" /\ moMapped' = "none" /\ moSent' = "none" /\ moMoved' = FALSE
        /\ moTried' = {} /\ moAttempt' = 0
    BY <1>6 DEF MO!Forgotten
  <2>2. MO!TypeOK'
    <3>1. 0 \in 0..MO!Cardinality(Accounts)
      BY AccountsCount
    <3> QED
      BY <1>1, <1>4, <1>6, <2>1, <3>1 DEF RoutesInv, MO!TypeOK
  <2>3. Decided' /\ StillRouted' /\ Picked' /\ Made'
    BY <1>6 DEF Decided, StillRouted, Picked, Made
  <2> QED
    BY <1>5, <1>6, <2>1, <2>2, <2>3 DEF RoutesInv
<1>7. CASE moAttempt + 1 # MO!Cardinality(Accounts)
  <2>1. /\ moPhase' = "route" /\ moAttempt' = moAttempt + 1 /\ moMoved' = FALSE
        /\ moTried' = (IF moReq.proto = "completions" THEN {} ELSE moTried \union {moAccount})
        /\ moAccount' = "none" /\ moRouted' = "none" /\ moChosen' = "none"
        /\ moMapped' = "none" /\ moSent' = "none" /\ moReq' = moReq
    BY <1>7 DEF MO!Exhausted
  <2>2. moAttempt' < MO!Cardinality(Accounts) /\ moAttempt' \in 0..MO!Cardinality(Accounts)
    <3>1. MO!Cardinality(Accounts) \in Nat /\ MO!Cardinality(Accounts) # 0
      <4>1. IsFiniteSet(Accounts)
        BY DEF MO!ModelRoutesAssumption, MO!IsFiniteSet, IsFiniteSet
      <4>2. MO!Cardinality(Accounts) = Cardinality(Accounts)
        BY DEF MO!Cardinality, Cardinality, MO!IsFiniteSet, IsFiniteSet
      <4> QED
        BY <1>2, <4>1, <4>2, FS_CardinalityType, FS_EmptySet
    <3>2. moAttempt \in Nat /\ (moAttempt = 0 \/ moAttempt < MO!Cardinality(Accounts))
      BY DEF RoutesInv, MO!TypeOK
    <3> QED
      BY <1>7, <2>1, <3>1, <3>2
  <2>3. MO!TypeOK'
    BY <1>1, <1>2, <1>4, <2>1, <2>2 DEF RoutesInv, MO!TypeOK
  <2>4. Decided' /\ StillRouted' /\ Picked' /\ Made'
    BY <2>1 DEF Decided, StillRouted, Picked, Made
  <2> QED
    BY <1>2, <1>5, <2>1, <2>2, <2>3, <2>4 DEF RoutesInv
<1> QED
  BY <1>6, <1>7 DEF MO!Exhausted

(* Theorem: whatever the clients ask and however the user changes the      *)
(* mapping meanwhile, the model that is asked is the one its account was   *)
(* chosen for, unless the decisions come apart in one of the ways listed;  *)
(* an account found exhausted is not asked again, housekeeping stays with  *)
(* cheap models, and what is listed is served (handlers/claude, openai and *)
(* gemini, request_config, model_mapping.rs).                              *)
THEOREM RoutesAlwaysSound ==
  ASSUME MO!ModelRoutesAssumption
  PROVE  MO!Spec => [](MO!TypeOK /\ MO!RoutesSound)
<1>1. ASSUME MO!Init PROVE RoutesInv
  <2>1. MO!TypeOK
    <3>1. 0 \in 0..MO!Cardinality(Accounts) /\ 0 \in 0..MaxChanges /\ 0 \in 0..MaxServed
      BY AccountsCount DEF MO!ModelRoutesAssumption
    <3> QED
      BY <1>1, <3>1 DEF MO!Init, MO!TypeOK
  <2> QED
    BY <1>1, <2>1 DEF MO!Init, RoutesInv, Decided, StillRouted, Picked, Made, Remembered
<1>2. ASSUME RoutesInv, [MO!Next]_(MO!moVars) PROVE RoutesInv'
  <2>1. CASE MO!ChangeMapping
    BY <1>2, <2>1, ChangeKeeps
  <2>2. CASE \E r \in Clients : MO!Receive(r)
    BY <1>2, <2>2, ReceiveKeeps
  <2>3. CASE MO!End
    BY <1>2, <2>3, EndKeeps
  <2>4. CASE MO!Resolve
    BY <1>2, <2>4, ResolveKeeps
  <2>5. CASE MO!Acquire
    BY <1>2, <2>5, AcquireKeeps
  <2>6. CASE MO!Prepare
    BY <1>2, <2>6, PrepareKeeps
  <2>7. CASE MO!Exhausted
    BY <1>2, <2>7, ExhaustedKeeps
  <2>8. CASE UNCHANGED MO!moVars
    <3>1. UNCHANGED <<moMapping, moChanges, moServed, moPhase, moReq, moAccount, moRouted, moChosen,
                      moMapped, moSent, moMoved, moTried, moAttempt, moLocks, moRefused>>
      BY <2>8 DEF MO!moVars
    <3> QED
      BY <1>2, <3>1 DEF RoutesInv, MO!TypeOK, Decided, StillRouted, Picked, Made, Remembered
  <2> QED
    BY <1>2, <2>1, <2>2, <2>3, <2>4, <2>5, <2>6, <2>7, <2>8, Zenon
       DEF MO!Next, MO!Unknown, MO!NoAccount, MO!NotPrepared, MO!Answered, MO!Finished
<1>3. ASSUME RoutesInv PROVE MO!TypeOK /\ MO!RoutesSound
  <2>1. MO!SentAsChosen
    BY <1>3, SentIsChosen DEF MO!SentAsChosen
  <2>2. MO!NotAskedAgain
    <3> SUFFICES ASSUME moPhase = "sent", ~MO!ComesApart
                 PROVE  <<moAccount, MO!LockName(moSent)>> \notin moRefused
      BY DEF MO!NotAskedAgain
    <3>1. moSent = moChosen
      BY <1>3, SentIsChosen
    <3>2. <<moAccount, "any">> \notin moLocks /\ <<moAccount, MO!LockName(moSent)>> \notin moLocks
      BY <1>3, <3>1 DEF RoutesInv, Picked
    <3> QED
      BY <1>3, <3>2 DEF RoutesInv, Remembered
  <2>3. MO!OwnTurnsCheap
    <3> SUFFICES ASSUME moPhase = "sent", moReq.proto = "claude", MO!Own(moReq)
                 PROVE  moSent \in {MO!Lite, MO!Search}
      BY DEF MO!OwnTurnsCheap
    <3>1. moReq \in Clients /\ moSent \in MO!Translated(moReq, MO!BackgroundModel(MO!Task(moReq.words)))
      BY <1>3 DEF RoutesInv, Made
    <3> QED
      BY <3>1, CheapIsSent
  <2>4. MO!ListedServed
    BY <1>3, ListedHasRoute DEF MO!ListedServed, RoutesInv, MO!TypeOK
  <2> QED
    BY <1>3, <2>1, <2>2, <2>3, <2>4 DEF MO!RoutesSound, RoutesInv
<1> QED
  BY <1>1, <1>2, <1>3, PTL DEF MO!Spec
-----------------------------------------------------------------------------
(* RequestLog: a request is counted in one step and stored in another; it  *)
(* is the stage of its task that both are counted by.                      *)
CONSTANTS Chunks, LogAnswers, TailSize, MaxBody, CutSize, MaxLogs, MaxChunks, MaxClears
VARIABLES rqTask, rqFrom, rqSent, rqGone, rqStats, rqLogs, rqLoaded, rqJobs, rqRows, rqStored, rqClears
RQ == INSTANCE RequestLog WITH Answers <- LogAnswers

(* The inductive invariant: until the send fails or the answer ends, the   *)
(* client has all there was.                                               *)
StillComplete ==
    \A r \in Requests : rqTask[r].stage \in {"new", "run", "forward"} => rqSent[r] = rqFrom[r]
LogInv == RQ!TypeOK /\ RQ!LogsSound /\ RQ!AnswerForwarded /\ StillComplete

(* Lemma: one more request among finitely many.                            *)
LEMMA OneMore ==
  ASSUME RQ!RequestLogAssumption, NEW S \in SUBSET Requests
  PROVE  /\ RQ!Cardinality(S) \in Nat
         /\ \A r \in Requests \ S : RQ!Cardinality(S \union {r}) = RQ!Cardinality(S) + 1
<1>1. IsFiniteSet(Requests)
  BY DEF RQ!RequestLogAssumption, RQ!IsFiniteSet, IsFiniteSet
<1>2. IsFiniteSet(S)
  BY <1>1, FS_Subset
<1>3. \A T : RQ!Cardinality(T) = Cardinality(T)
  BY DEF RQ!Cardinality, Cardinality, RQ!IsFiniteSet, IsFiniteSet
<1>4. Cardinality(S) \in Nat
  BY <1>2, FS_CardinalityType
<1>5. ASSUME NEW r \in Requests \ S PROVE Cardinality(S \union {r}) = Cardinality(S) + 1
  BY <1>2, FS_AddElement
<1> QED
  BY <1>3, <1>4, <1>5

(* Lemma: the last entries stay the last ones when one is pushed.          *)
LEMMA LastStay ==
  ASSUME RQ!RequestLogAssumption, NEW s \in Seq(Requests), NEW r \in Requests
  PROVE  RQ!Pushed(RQ!LastN(s, MaxLogs), r) = RQ!LastN(Append(s, r), MaxLogs)
<1> DEFINE kept == RQ!LastN(s, MaxLogs)
           longer == Append(s, r)
<1>1. MaxLogs \in Nat /\ MaxLogs > 0
  BY DEF RQ!RequestLogAssumption
<1>2. longer \in Seq(Requests) /\ Len(longer) = Len(s) + 1 /\ Len(s) \in Nat
  OBVIOUS
<1>3. CASE Len(s) < MaxLogs
  <2>1. kept = s
    BY <1>1, <1>2, <1>3 DEF RQ!LastN
  <2>2. RQ!LastN(longer, MaxLogs) = longer
    BY <1>1, <1>2, <1>3 DEF RQ!LastN
  <2>3. RQ!Pushed(s, r) = longer
    <3>1. ~(Len(s) >= MaxLogs)
      BY <1>1, <1>2, <1>3
    <3> QED
      BY <3>1, Zenon DEF RQ!Pushed
  <2> QED
    BY <2>1, <2>2, <2>3, Zenon
<1>4. CASE Len(s) >= MaxLogs
  <2>1. kept = SubSeq(s, Len(s) - MaxLogs + 1, Len(s))
    <3>1. CASE Len(s) = MaxLogs
      BY <1>1, <1>2, <3>1, SubSeqFull DEF RQ!LastN
    <3> QED
      BY <1>1, <1>2, <1>4, <3>1 DEF RQ!LastN
  <2>2. kept \in Seq(Requests) /\ Len(kept) = MaxLogs
        /\ \A i \in 1..MaxLogs : kept[i] = s[Len(s) - MaxLogs + i]
    BY <1>1, <1>2, <1>4, <2>1
  <2> DEFINE rest == SubSeq(kept, 2, MaxLogs)
             last == SubSeq(longer, Len(s) - MaxLogs + 2, Len(s) + 1)
  <2>3. RQ!Pushed(kept, r) = Append(rest, r)
    BY <1>1, <2>2 DEF RQ!Pushed
  <2>4. RQ!LastN(longer, MaxLogs) = last
    BY <1>1, <1>2, <1>4 DEF RQ!LastN
  <2> HIDE DEF kept, longer
  <2>5. rest \in Seq(Requests) /\ Len(rest) = MaxLogs - 1
        /\ \A i \in 1..(MaxLogs - 1) : rest[i] = kept[i + 1]
    BY <1>1, <2>2
  <2>6. last \in Seq(Requests) /\ Len(last) = MaxLogs
        /\ \A i \in 1..MaxLogs : last[i] = longer[Len(s) - MaxLogs + 1 + i]
    BY <1>1, <1>2, <1>4
  <2> HIDE DEF rest, last
  <2>7. Append(rest, r) \in Seq(Requests) /\ Len(Append(rest, r)) = MaxLogs
    BY <1>1, <2>5
  <2>8. ASSUME NEW i \in 1..MaxLogs PROVE Append(rest, r)[i] = last[i]
    <3>1. CASE i = MaxLogs
      BY <1>1, <1>2, <1>4, <2>5, <2>6, <3>1 DEF longer
    <3>2. CASE i < MaxLogs
      <4>1. Append(rest, r)[i] = s[Len(s) - MaxLogs + i + 1]
        BY <1>1, <1>2, <1>4, <2>2, <2>5, <3>2
      <4>2. last[i] = s[Len(s) - MaxLogs + 1 + i]
        BY <1>1, <1>2, <1>4, <2>6, <3>2 DEF longer
      <4> QED
        BY <1>1, <1>2, <4>1, <4>2
    <3>3. i = MaxLogs \/ i < MaxLogs
      BY <1>1
    <3> QED
      BY <3>1, <3>2, <3>3, Zenon
  <2>9. Append(rest, r) = last
    BY <2>6, <2>7, <2>8, SeqEqual
  <2> QED
    BY <2>3, <2>4, <2>9 DEF kept, longer
<1> QED
  BY <1>1, <1>2, <1>3, <1>4

(* Lemma: a task moves on without being logged, and nothing else does.     *)
LEMMA UnloggedStep ==
  ASSUME LogInv, NEW r \in Requests, NEW u \in RQ!Tasks, RQ!Becomes(r, u),
         rqTask[r].stage \notin {"store", "done"}, u.stage \notin {"store", "done"},
         UNCHANGED <<rqStats, rqLogs, rqJobs, rqRows, rqStored>>
  PROVE  /\ RQ!LogsSound' /\ rqTask' \in [Requests -> RQ!Tasks]
         /\ rqTask'[r] = u /\ \A q \in Requests \ {r} : rqTask'[q] = rqTask[q]
<1>1. /\ rqTask' \in [Requests -> RQ!Tasks]
      /\ rqTask'[r] = u /\ \A q \in Requests \ {r} : rqTask'[q] = rqTask[q]
  BY DEF LogInv, RQ!TypeOK, RQ!Becomes
<1>2. RQ!Logged' = RQ!Logged /\ \A q \in RQ!Logged : rqTask'[q] = rqTask[q]
  BY <1>1 DEF RQ!Logged
<1>3. /\ {q \in RQ!Logged' : rqTask'[q].ok} = {q \in RQ!Logged : rqTask[q].ok}
      /\ {q \in RQ!Logged' : ~rqTask'[q].ok} = {q \in RQ!Logged : ~rqTask[q].ok}
      /\ {q \in RQ!Logged' : rqTask'[q].usage} = {q \in RQ!Logged : rqTask[q].usage}
      /\ {q \in RQ!Logged' : rqTask'[q].row # RQ!NoAccount} = {q \in RQ!Logged : rqTask[q].row # RQ!NoAccount}
  BY <1>2, Zenon
<1>4. RQ!LogsSound'
  BY <1>2, <1>3 DEF LogInv, RQ!LogsSound
<1> QED
  BY <1>1, <1>4

(* Lemma: the same, for the steps that leave what is forwarded.            *)
LEMMA QuietStep ==
  ASSUME LogInv, NEW r \in Requests, NEW u \in RQ!Tasks, RQ!Becomes(r, u),
         rqTask[r].stage \in {"new", "run", "forward", "ended"},
         u.stage \notin {"store", "done"},
         u.stage \in {"new", "run", "forward"} => rqTask[r].stage \in {"new", "run", "forward"},
         RQ!Quiet, RQ!Forwarding, UNCHANGED <<rqGone, rqLoaded>>
  PROVE  LogInv'
<1>1. UNCHANGED <<rqStats, rqLogs, rqJobs, rqRows, rqStored, rqFrom, rqSent, rqGone, rqLoaded>>
  BY DEF RQ!Quiet, RQ!Forwarding
<1>2. /\ RQ!LogsSound' /\ rqTask' \in [Requests -> RQ!Tasks]
      /\ rqTask'[r] = u /\ \A q \in Requests \ {r} : rqTask'[q] = rqTask[q]
  BY <1>1, UnloggedStep
<1>3. RQ!TypeOK'
  BY <1>1, <1>2 DEF LogInv, RQ!TypeOK
<1>4. RQ!AnswerForwarded'
  BY <1>1 DEF LogInv, RQ!AnswerForwarded
<1>5. StillComplete'
  BY <1>1, <1>2 DEF LogInv, StillComplete
<1> QED
  BY <1>2, <1>3, <1>4, <1>5 DEF LogInv

(* Lemma: what the steps of a task make of it.                             *)
LEMMA TaskMoves ==
  ASSUME NEW t \in RQ!Tasks,
         NEW stage \in {"new", "passed", "refused", "run", "forward", "ended", "lost", "count", "store", "done"}
  PROVE  LET u == [t EXCEPT !.stage = stage]
         IN  u \in RQ!Tasks /\ u.stage = stage /\ u.ok = t.ok /\ u.usage = t.usage /\ u.row = t.row
BY DEF RQ!Tasks

LEMMA TaskCloses ==
  ASSUME LogInv, NEW t \in RQ!Tasks
  PROVE  RQ!Closing(t) \in RQ!Tasks /\ RQ!Closing(t).stage = "count"
<1>1. RQ!Row(t.account) \in Accounts \union {RQ!NoAccount}
  BY DEF RQ!Row, LogInv, RQ!TypeOK
<1> QED
  BY <1>1 DEF RQ!Closing, RQ!Tasks

LEMMA TailFits ==
  ASSUME RQ!RequestLogAssumption, NEW tail \in Seq({"u", "x"}), NEW chunk \in Chunks
  PROVE  RQ!Tail8K(tail, chunk) \in Seq({"u", "x"}) /\ tail \o chunk \in Seq({"u", "x"})
<1>1. chunk \in Seq({"u", "x"}) /\ TailSize \in Nat
  BY DEF RQ!RequestLogAssumption
<1>2. ASSUME NEW s \in Seq({"u", "x"}) PROVE RQ!LastN(s, TailSize) \in Seq({"u", "x"})
  <2>1. CASE Len(s) <= TailSize
    BY <2>1 DEF RQ!LastN
  <2>2. CASE ~(Len(s) <= TailSize)
    <3>1. Len(s) \in Nat /\ Len(s) > TailSize
      BY <1>1, <2>2
    <3>2. SubSeq(s, Len(s) - TailSize + 1, Len(s)) \in Seq({"u", "x"})
      BY <1>1, <3>1
    <3> QED
      BY <2>2, <3>2 DEF RQ!LastN
  <2> QED
    BY <2>1, <2>2
<1>3. tail \o chunk \in Seq({"u", "x"})
  BY <1>1
<1> QED
  BY <1>1, <1>2, <1>3 DEF RQ!Tail8K

LEMMA TaskKeeps ==
  ASSUME RQ!RequestLogAssumption, NEW t \in RQ!Tasks, NEW chunk \in Chunks
  PROVE  RQ!Kept(t, chunk) \in RQ!Tasks /\ RQ!Kept(t, chunk).stage = t.stage
<1>1. t.tail \in Seq({"u", "x"}) /\ <<>> \in Seq({"u", "x"})
  BY DEF RQ!Tasks
<1>2. ASSUME NEW tail \in Seq({"u", "x"}), NEW failed \in BOOLEAN
      PROVE  /\ [t EXCEPT !.tail = tail] \in RQ!Tasks /\ [t EXCEPT !.tail = tail].stage = t.stage
             /\ [t EXCEPT !.failed = failed, !.tail = tail] \in RQ!Tasks
             /\ [t EXCEPT !.failed = failed, !.tail = tail].stage = t.stage
  BY DEF RQ!Tasks
<1>3. RQ!Tail8K(t.tail, chunk) \in Seq({"u", "x"}) /\ t.tail \o chunk \in Seq({"u", "x"})
  BY <1>1, TailFits
<1>4. RQ!Buffered(t, chunk) \in RQ!Tasks /\ RQ!Buffered(t, chunk).stage = t.stage
  BY <1>1, <1>2, <1>3, Zenon DEF RQ!Buffered
<1> QED
  BY <1>2, <1>3, <1>4, Zenon DEF RQ!Kept

LEMMA BeginKeeps ==
  ASSUME LogInv, NEW r \in Requests, RQ!Begin(r) PROVE LogInv'
<1>1. rqTask[r] \in RQ!Tasks
  BY DEF LogInv, RQ!TypeOK
<1>2. PICK stage \in {"passed", "refused", "run"} : RQ!Becomes(r, [rqTask[r] EXCEPT !.stage = stage])
  BY DEF RQ!Begin, RQ!Moves
<1>3. rqTask[r].stage = "new" /\ RQ!Quiet /\ RQ!Forwarding /\ UNCHANGED <<rqGone, rqLoaded>>
  BY DEF RQ!Begin, RQ!At
<1> DEFINE u == [rqTask[r] EXCEPT !.stage = stage]
<1>4. u \in RQ!Tasks /\ u.stage = stage
  <2>1. stage \in {"new", "passed", "refused", "run", "forward", "ended", "lost", "count", "store", "done"}
    BY <1>2
  <2> HIDE DEF u
  <2> QED
    BY <1>1, <2>1, TaskMoves DEF u
<1> HIDE DEF u
<1>5. RQ!Becomes(r, u)
  BY <1>2 DEF u
<1>6. u.stage \notin {"store", "done"}
  BY <1>2, <1>4
<1> QED
  BY <1>3, <1>4, <1>5, <1>6, QuietStep

LEMMA AnswerKeeps ==
  ASSUME RQ!RequestLogAssumption, LogInv, NEW r \in Requests, NEW answer \in LogAnswers[r], RQ!Answer(r, answer)
  PROVE  LogInv'
<1>1. rqTask[r] \in RQ!Tasks
  BY DEF LogInv, RQ!TypeOK
<1>2. /\ answer.kind \in {"stream", "json", "other"} /\ answer.ok \in BOOLEAN
      /\ answer.account \in Accounts \union {RQ!NoAccount}
  BY DEF RQ!RequestLogAssumption
<1>3. rqTask[r].stage = "run" /\ RQ!Quiet /\ RQ!Forwarding /\ UNCHANGED <<rqGone, rqLoaded>>
  BY DEF RQ!Answer, RQ!At
<1> DEFINE task == [rqTask[r] EXCEPT !.kind = answer.kind, !.ok = answer.ok, !.account = answer.account]
           json == answer.kind = "json"
           failed == [task EXCEPT !.kind = "other", !.error = json /\ ~answer.ok]
           goes == [task EXCEPT !.stage = "forward"]
<1>4. task \in RQ!Tasks
  BY <1>1, <1>2 DEF RQ!Tasks
<1>5. RQ!Becomes(r, RQ!Closing(failed)) \/ RQ!Becomes(r, goes)
  BY DEF RQ!Answer
<1> HIDE DEF task
<1>6. goes \in RQ!Tasks /\ goes.stage = "forward"
  BY <1>4, TaskMoves
<1>7. failed \in RQ!Tasks
  <2> DEFINE error == json /\ ~answer.ok
  <2>1. error \in BOOLEAN
    OBVIOUS
  <2> HIDE DEF error
  <2>2. [task EXCEPT !.kind = "other", !.error = error] \in RQ!Tasks
    BY <1>4, <2>1 DEF RQ!Tasks
  <2> QED
    BY <2>2 DEF error
<1> HIDE DEF failed, goes
<1>8. RQ!Closing(failed) \in RQ!Tasks /\ RQ!Closing(failed).stage = "count"
  BY <1>7, TaskCloses
<1>9. CASE RQ!Becomes(r, RQ!Closing(failed))
  BY <1>3, <1>8, <1>9, QuietStep
<1>10. CASE RQ!Becomes(r, goes)
  BY <1>3, <1>6, <1>10, QuietStep
<1> QED
  BY <1>5, <1>9, <1>10

LEMMA ForwardKeeps ==
  ASSUME RQ!RequestLogAssumption, LogInv, NEW r \in Requests, NEW chunk \in Chunks, RQ!Forward(r, chunk)
  PROVE  LogInv'
<1>1. rqTask[r] \in RQ!Tasks /\ rqTask[r].stage = "forward"
  BY DEF LogInv, RQ!TypeOK, RQ!Forward, RQ!At
<1>2. rqFrom[r] \in Seq(Chunks) /\ rqSent[r] = rqFrom[r]
  BY <1>1 DEF LogInv, RQ!TypeOK, StillComplete
<1>3. /\ rqFrom' = [rqFrom EXCEPT ![r] = Append(@, chunk)]
      /\ UNCHANGED <<rqStats, rqLogs, rqJobs, rqRows, rqStored, rqGone, rqLoaded>>
  BY DEF RQ!Forward, RQ!Quiet
<1> DEFINE task == RQ!Kept(rqTask[r], chunk)
           ends == [task EXCEPT !.stage = "ended"]
<1>4. task \in RQ!Tasks /\ task.stage = "forward"
  BY <1>1, TaskKeeps
<1>5. \/ r \in rqGone /\ RQ!Becomes(r, ends) /\ rqSent' = rqSent
      \/ RQ!Becomes(r, task) /\ rqSent' = [rqSent EXCEPT ![r] = Append(@, chunk)]
  BY DEF RQ!Forward
<1> HIDE DEF task
<1>6. ends \in RQ!Tasks /\ ends.stage = "ended"
  BY <1>4, TaskMoves
<1> HIDE DEF ends
<1>7. /\ Append(rqFrom[r], chunk) \in Seq(Chunks)
      /\ SubSeq(Append(rqFrom[r], chunk), 1, Len(Append(rqFrom[r], chunk)) - 1) = rqFrom[r]
  <2>1. Append(rqFrom[r], chunk) \in Seq(Chunks) /\ Len(Append(rqFrom[r], chunk)) = Len(rqFrom[r]) + 1
        /\ Len(rqFrom[r]) \in Nat
    BY <1>2
  <2>2. SubSeq(Append(rqFrom[r], chunk), 1, Len(rqFrom[r])) = rqFrom[r]
    BY <1>2, <2>1
  <2> QED
    BY <2>1, <2>2
<1>8. rqFrom' \in [Requests -> Seq(Chunks)]
      /\ rqFrom'[r] = Append(rqFrom[r], chunk) /\ \A q \in Requests \ {r} : rqFrom'[q] = rqFrom[q]
  BY <1>3, <1>7 DEF LogInv, RQ!TypeOK
<1>9. CASE r \in rqGone /\ RQ!Becomes(r, ends) /\ rqSent' = rqSent
  <2>1. /\ RQ!LogsSound' /\ rqTask' \in [Requests -> RQ!Tasks]
        /\ rqTask'[r] = ends /\ \A q \in Requests \ {r} : rqTask'[q] = rqTask[q]
    BY <1>1, <1>3, <1>6, <1>9, UnloggedStep
  <2>2. RQ!TypeOK'
    BY <1>3, <1>8, <1>9, <2>1 DEF LogInv, RQ!TypeOK
  <2>3. RQ!AnswerForwarded'
    <3> SUFFICES ASSUME NEW q \in Requests
                 PROVE  \/ rqSent'[q] = rqFrom'[q]
                        \/ q \in rqGone' /\ rqSent'[q] = SubSeq(rqFrom'[q], 1, Len(rqFrom'[q]) - 1)
      BY DEF RQ!AnswerForwarded
    <3>1. CASE q = r
      BY <1>2, <1>3, <1>7, <1>8, <1>9, <3>1
    <3>2. CASE q # r
      BY <1>3, <1>8, <1>9, <3>2 DEF LogInv, RQ!AnswerForwarded
    <3> QED
      BY <3>1, <3>2
  <2>4. StillComplete'
    BY <1>6, <1>8, <1>9, <2>1 DEF LogInv, StillComplete
  <2> QED
    BY <2>1, <2>2, <2>3, <2>4 DEF LogInv
<1>10. CASE RQ!Becomes(r, task) /\ rqSent' = [rqSent EXCEPT ![r] = Append(@, chunk)]
  <2>1. /\ RQ!LogsSound' /\ rqTask' \in [Requests -> RQ!Tasks]
        /\ rqTask'[r] = task /\ \A q \in Requests \ {r} : rqTask'[q] = rqTask[q]
    BY <1>1, <1>3, <1>4, <1>10, UnloggedStep
  <2>2. rqSent' \in [Requests -> Seq(Chunks)]
        /\ rqSent'[r] = rqFrom'[r] /\ \A q \in Requests \ {r} : rqSent'[q] = rqSent[q]
    BY <1>2, <1>7, <1>8, <1>10 DEF LogInv, RQ!TypeOK
  <2>3. RQ!TypeOK'
    BY <1>3, <1>8, <2>1, <2>2 DEF LogInv, RQ!TypeOK
  <2>4. RQ!AnswerForwarded'
    <3> SUFFICES ASSUME NEW q \in Requests, q # r
                 PROVE  \/ rqSent'[q] = rqFrom'[q]
                        \/ q \in rqGone' /\ rqSent'[q] = SubSeq(rqFrom'[q], 1, Len(rqFrom'[q]) - 1)
      BY <2>2 DEF RQ!AnswerForwarded
    <3> QED
      BY <1>3, <1>8, <2>2 DEF LogInv, RQ!AnswerForwarded
  <2>5. StillComplete'
    BY <1>8, <2>1, <2>2 DEF LogInv, StillComplete
  <2> QED
    BY <2>1, <2>3, <2>4, <2>5 DEF LogInv
<1> QED
  BY <1>5, <1>9, <1>10

LEMMA BreakKeeps ==
  ASSUME LogInv, NEW r \in Requests, RQ!Break(r) PROVE LogInv'
<1>1. rqTask[r] \in RQ!Tasks
  BY DEF LogInv, RQ!TypeOK
<1>2. rqTask[r].stage = "forward" /\ RQ!Quiet /\ RQ!Forwarding /\ UNCHANGED <<rqGone, rqLoaded>>
  BY DEF RQ!Break, RQ!At
<1> DEFINE error == rqTask[r].kind = "stream"
           u == [rqTask[r] EXCEPT !.stage = "ended", !.error = error, !.cut = TRUE]
<1>3. RQ!Becomes(r, u)
  BY DEF RQ!Break
<1>4. error \in BOOLEAN
  OBVIOUS
<1> HIDE DEF error
<1>5. u \in RQ!Tasks /\ u.stage = "ended"
  BY <1>1, <1>4 DEF RQ!Tasks
<1> HIDE DEF u
<1> QED
  BY <1>2, <1>3, <1>5, QuietStep

(* Lemma: an answer ends, or its task panics.                              *)
LEMMA EndsKeeps ==
  ASSUME LogInv, NEW r \in Requests, RQ!Complete(r) \/ RQ!Panic(r) PROVE LogInv'
<1>1. rqTask[r] \in RQ!Tasks
  BY DEF LogInv, RQ!TypeOK
<1>2. /\ rqTask[r].stage \in {"forward", "ended"} /\ RQ!Quiet /\ RQ!Forwarding /\ UNCHANGED <<rqGone, rqLoaded>>
      /\ \E stage \in {"ended", "lost"} : RQ!Becomes(r, [rqTask[r] EXCEPT !.stage = stage])
  BY DEF RQ!Complete, RQ!Panic, RQ!At, RQ!Moves
<1>3. PICK stage \in {"ended", "lost"} : RQ!Becomes(r, [rqTask[r] EXCEPT !.stage = stage])
  BY <1>2
<1> DEFINE u == [rqTask[r] EXCEPT !.stage = stage]
<1>4. u \in RQ!Tasks /\ u.stage = stage
  <2>1. stage \in {"new", "passed", "refused", "run", "forward", "ended", "lost", "count", "store", "done"}
    BY <1>3
  <2> HIDE DEF u
  <2> QED
    BY <1>1, <2>1, TaskMoves DEF u
<1> HIDE DEF u
<1>5. RQ!Becomes(r, u)
  BY <1>3 DEF u
<1> QED
  BY <1>2, <1>3, <1>4, <1>5, QuietStep

LEMMA SumKeeps ==
  ASSUME LogInv, NEW r \in Requests, NEW last \in BOOLEAN, RQ!Sum(r, last) PROVE LogInv'
<1>1. rqTask[r] \in RQ!Tasks
  BY DEF LogInv, RQ!TypeOK
<1>2. rqTask[r].stage = "ended" /\ RQ!Quiet /\ RQ!Forwarding /\ UNCHANGED <<rqGone, rqLoaded>>
  BY DEF RQ!Sum, RQ!At
<1> DEFINE usage == RQ!UsageRead(r, last)
           error == rqTask[r].error \/ ~rqTask[r].ok
           u == [rqTask[r] EXCEPT !.usage = usage, !.error = error]
<1>3. RQ!Becomes(r, RQ!Closing(u))
  BY DEF RQ!Sum
<1>4. usage \in BOOLEAN /\ error \in BOOLEAN
  BY DEF RQ!UsageRead
<1> HIDE DEF usage, error
<1>5. u \in RQ!Tasks
  BY <1>1, <1>4 DEF RQ!Tasks
<1> HIDE DEF u
<1>6. RQ!Closing(u) \in RQ!Tasks /\ RQ!Closing(u).stage = "count"
  BY <1>5, TaskCloses
<1> QED
  BY <1>2, <1>3, <1>6, QuietStep

LEMMA LeaveKeeps ==
  ASSUME LogInv, NEW r \in Requests, RQ!Leave(r) PROVE LogInv'
<1>1. rqGone' = rqGone \union {r}
      /\ UNCHANGED <<rqTask, rqFrom, rqSent, rqStats, rqLogs, rqLoaded, rqJobs, rqRows, rqStored>>
  BY DEF RQ!Leave, RQ!Quiet, RQ!Forwarding
<1>2. RQ!TypeOK'
  BY <1>1 DEF LogInv, RQ!TypeOK
<1>3. RQ!LogsSound'
  BY <1>1 DEF LogInv, RQ!LogsSound, RQ!Logged
<1>4. RQ!AnswerForwarded'
  BY <1>1 DEF LogInv, RQ!AnswerForwarded
<1>5. StillComplete'
  BY <1>1 DEF LogInv, StillComplete
<1> QED
  BY <1>2, <1>3, <1>4, <1>5 DEF LogInv

(* Lemma: what a step of the log leaves of the answer, of the task it      *)
(* moves by its stage alone, and of the other tasks.                       *)
LEMMA LoggingStep ==
  ASSUME LogInv, NEW r \in Requests, NEW stage \in {"store", "done"}, RQ!Moves(r, stage),
         RQ!Forwarding, UNCHANGED <<rqGone, rqLoaded>>
  PROVE  /\ rqTask' \in [Requests -> RQ!Tasks]
         /\ rqTask'[r].stage = stage
         /\ \A q \in Requests : /\ rqTask'[q].ok = rqTask[q].ok /\ rqTask'[q].usage = rqTask[q].usage
                                /\ rqTask'[q].row = rqTask[q].row
                                /\ q # r => rqTask'[q].stage = rqTask[q].stage
         /\ RQ!AnswerForwarded' /\ StillComplete'
<1> DEFINE u == [rqTask[r] EXCEPT !.stage = stage]
<1>1. rqTask \in [Requests -> RQ!Tasks] /\ rqTask[r] \in RQ!Tasks
  BY DEF LogInv, RQ!TypeOK
<1>2. rqTask' = [rqTask EXCEPT ![r] = u]
  BY DEF RQ!Moves, RQ!Becomes
<1>3. /\ u \in RQ!Tasks /\ u.stage = stage
      /\ u.ok = rqTask[r].ok /\ u.usage = rqTask[r].usage /\ u.row = rqTask[r].row
  <2>1. stage \in {"new", "passed", "refused", "run", "forward", "ended", "lost", "count", "store", "done"}
    OBVIOUS
  <2>2. u \in RQ!Tasks
    BY <1>1, <2>1 DEF RQ!Tasks
  <2>3. u.stage = stage
    BY <1>1 DEF RQ!Tasks
  <2>4. u.ok = rqTask[r].ok /\ u.usage = rqTask[r].usage /\ u.row = rqTask[r].row
    BY <1>1 DEF RQ!Tasks
  <2> QED
    BY <2>2, <2>3, <2>4
<1> HIDE DEF u
<1>4. /\ rqTask' \in [Requests -> RQ!Tasks] /\ rqTask'[r] = u
      /\ \A q \in Requests \ {r} : rqTask'[q] = rqTask[q]
  BY <1>1, <1>2, <1>3
<1>5. RQ!AnswerForwarded'
  BY DEF LogInv, RQ!AnswerForwarded, RQ!Forwarding
<1>6. StillComplete'
  BY <1>3, <1>4 DEF LogInv, StillComplete, RQ!Forwarding
<1> QED
  BY <1>3, <1>4, <1>5, <1>6

LEMMA CountKeeps ==
  ASSUME RQ!RequestLogAssumption, LogInv, NEW r \in Requests, RQ!Count(r)
  PROVE  LogInv'
<1>1. /\ rqTask[r].stage = "count" /\ RQ!Moves(r, "store") /\ RQ!Forwarding
      /\ UNCHANGED <<rqGone, rqLoaded, rqLogs, rqRows, rqStored>>
      /\ rqStats' = RQ!Counted(rqStats, rqTask[r])
      /\ rqJobs' = IF rqTask[r].row = RQ!NoAccount THEN rqJobs ELSE rqJobs \union {r}
  BY DEF RQ!Count, RQ!At
<1>2. /\ rqTask' \in [Requests -> RQ!Tasks]
      /\ rqTask'[r].stage = "store"
      /\ \A q \in Requests : /\ rqTask'[q].ok = rqTask[q].ok /\ rqTask'[q].usage = rqTask[q].usage
                             /\ rqTask'[q].row = rqTask[q].row
                             /\ q # r => rqTask'[q].stage = rqTask[q].stage
      /\ RQ!AnswerForwarded' /\ StillComplete'
  BY <1>1, LoggingStep
<1>3. rqJobs' \subseteq rqJobs \union {r} /\ (rqTask[r].row = RQ!NoAccount => rqJobs' = rqJobs)
  BY <1>1
<1>4. RQ!TypeOK'
  BY <1>1, <1>2, <1>3 DEF LogInv, RQ!TypeOK, RQ!Forwarding
<1> DEFINE logged == RQ!Logged
           good == {q \in RQ!Logged : rqTask[q].ok}
           bad == {q \in RQ!Logged : ~rqTask[q].ok}
           used == {q \in RQ!Logged : rqTask[q].usage}
           goodNow == {q \in RQ!Logged' : rqTask'[q].ok}
           badNow == {q \in RQ!Logged' : ~rqTask'[q].ok}
           usedNow == {q \in RQ!Logged' : rqTask'[q].usage}
<1>5. RQ!Logged' = logged \union {r} /\ r \notin logged /\ logged \subseteq Requests
  BY <1>1, <1>2 DEF RQ!Logged
<1>6. /\ goodNow = IF rqTask[r].ok THEN good \union {r} ELSE good
      /\ badNow = IF rqTask[r].ok THEN bad ELSE bad \union {r}
      /\ usedNow = IF rqTask[r].usage THEN used \union {r} ELSE used
  BY <1>2, <1>5, Zenon
<1>7. /\ good \in SUBSET Requests /\ bad \in SUBSET Requests /\ used \in SUBSET Requests /\ logged \in SUBSET Requests
      /\ r \in Requests \ good /\ r \in Requests \ bad /\ r \in Requests \ used /\ r \in Requests \ logged
  BY <1>5
<1>8. rqStats = [total |-> RQ!Cardinality(logged), success |-> RQ!Cardinality(good),
                 errors |-> RQ!Cardinality(bad), usage |-> RQ!Cardinality(used)]
  BY DEF LogInv, RQ!LogsSound
<1> HIDE DEF logged, good, bad, used, goodNow, badNow, usedNow
<1>9. /\ RQ!Cardinality(logged \union {r}) = RQ!Cardinality(logged) + 1
      /\ RQ!Cardinality(good \union {r}) = RQ!Cardinality(good) + 1
      /\ RQ!Cardinality(bad \union {r}) = RQ!Cardinality(bad) + 1
      /\ RQ!Cardinality(used \union {r}) = RQ!Cardinality(used) + 1
      /\ RQ!Cardinality(good) \in Nat /\ RQ!Cardinality(bad) \in Nat /\ RQ!Cardinality(used) \in Nat
  BY <1>7, OneMore
<1>10. /\ RQ!Cardinality(RQ!Logged') = rqStats.total + 1
       /\ RQ!Cardinality(goodNow) = rqStats.success + (IF rqTask[r].ok THEN 1 ELSE 0)
       /\ RQ!Cardinality(badNow) = rqStats.errors + (IF rqTask[r].ok THEN 0 ELSE 1)
       /\ RQ!Cardinality(usedNow) = rqStats.usage + (IF rqTask[r].usage THEN 1 ELSE 0)
  <2>1. RQ!Cardinality(RQ!Logged') = rqStats.total + 1
    BY <1>5, <1>8, <1>9
  <2>2. /\ RQ!Cardinality(goodNow) = rqStats.success + (IF rqTask[r].ok THEN 1 ELSE 0)
        /\ RQ!Cardinality(badNow) = rqStats.errors + (IF rqTask[r].ok THEN 0 ELSE 1)
    <3>1. CASE rqTask[r].ok = TRUE
      BY <1>6, <1>8, <1>9, <3>1
    <3>2. CASE rqTask[r].ok = FALSE
      BY <1>6, <1>8, <1>9, <3>2
    <3>3. rqTask[r].ok \in BOOLEAN
      BY DEF LogInv, RQ!TypeOK, RQ!Tasks
    <3> QED
      BY <3>1, <3>2, <3>3
  <2>3. RQ!Cardinality(usedNow) = rqStats.usage + (IF rqTask[r].usage THEN 1 ELSE 0)
    <3>1. CASE rqTask[r].usage = TRUE
      BY <1>6, <1>8, <1>9, <3>1
    <3>2. CASE rqTask[r].usage = FALSE
      BY <1>6, <1>8, <1>9, <3>2
    <3>3. rqTask[r].usage \in BOOLEAN
      BY DEF LogInv, RQ!TypeOK, RQ!Tasks
    <3> QED
      BY <3>1, <3>2, <3>3
  <2> QED
    BY <2>1, <2>2, <2>3
<1>11. rqStats' = [total |-> RQ!Cardinality(RQ!Logged'), success |-> RQ!Cardinality(goodNow),
                   errors |-> RQ!Cardinality(badNow), usage |-> RQ!Cardinality(usedNow)]
  BY <1>1, <1>10 DEF RQ!Counted
<1>12. rqLogs' = RQ!LastN(rqStored', MaxLogs)
  BY <1>1 DEF LogInv, RQ!LogsSound
<1>13. rqRows' \union rqJobs' \subseteq {q \in RQ!Logged' : rqTask'[q].row # RQ!NoAccount}
  BY <1>1, <1>2, <1>3, <1>5 DEF LogInv, RQ!LogsSound, logged
<1>14. RQ!LogsSound'
  BY <1>11, <1>12, <1>13 DEF RQ!LogsSound, goodNow, badNow, usedNow
<1> QED
  BY <1>2, <1>4, <1>14 DEF LogInv

LEMMA StoreKeeps ==
  ASSUME RQ!RequestLogAssumption, LogInv, NEW r \in Requests, RQ!Store(r)
  PROVE  LogInv'
<1>1. /\ rqTask[r].stage = "store" /\ RQ!Moves(r, "done") /\ RQ!Forwarding
      /\ UNCHANGED <<rqGone, rqLoaded, rqStats, rqJobs, rqRows>>
      /\ rqLogs' = RQ!Pushed(rqLogs, r) /\ rqStored' = Append(rqStored, r)
  BY DEF RQ!Store, RQ!At
<1>2. /\ rqTask' \in [Requests -> RQ!Tasks]
      /\ rqTask'[r].stage = "done"
      /\ \A q \in Requests : /\ rqTask'[q].ok = rqTask[q].ok /\ rqTask'[q].usage = rqTask[q].usage
                             /\ rqTask'[q].row = rqTask[q].row
                             /\ q # r => rqTask'[q].stage = rqTask[q].stage
      /\ RQ!AnswerForwarded' /\ StillComplete'
  BY <1>1, LoggingStep
<1>3. rqStored \in Seq(Requests) /\ rqStored' \in Seq(Requests)
  BY <1>1 DEF LogInv, RQ!TypeOK
<1>4. RQ!TypeOK'
  BY <1>1, <1>2, <1>3 DEF LogInv, RQ!TypeOK, RQ!Forwarding
<1>5. RQ!Logged' = RQ!Logged
  BY <1>1, <1>2 DEF RQ!Logged
<1>6. /\ {q \in RQ!Logged' : rqTask'[q].ok} = {q \in RQ!Logged : rqTask[q].ok}
      /\ {q \in RQ!Logged' : ~rqTask'[q].ok} = {q \in RQ!Logged : ~rqTask[q].ok}
      /\ {q \in RQ!Logged' : rqTask'[q].usage} = {q \in RQ!Logged : rqTask[q].usage}
      /\ {q \in RQ!Logged' : rqTask'[q].row # RQ!NoAccount} = {q \in RQ!Logged : rqTask[q].row # RQ!NoAccount}
  <2>1. RQ!Logged \subseteq Requests
    BY DEF RQ!Logged
  <2> QED
    BY <1>2, <1>5, <2>1, Zenon
<1>7. rqLogs' = RQ!LastN(rqStored', MaxLogs)
  BY <1>1, <1>3, LastStay DEF LogInv, RQ!LogsSound
<1>8. RQ!LogsSound'
  BY <1>1, <1>5, <1>6, <1>7 DEF LogInv, RQ!LogsSound
<1> QED
  BY <1>2, <1>4, <1>8 DEF LogInv

LEMMA InsertKeeps ==
  ASSUME LogInv, NEW r \in Requests, NEW works \in BOOLEAN, RQ!Insert(r, works) PROVE LogInv'
<1>1. /\ r \in rqJobs /\ rqJobs' \subseteq rqJobs /\ rqRows' \subseteq rqRows \union {r}
      /\ UNCHANGED <<rqTask, rqFrom, rqSent, rqGone, rqLoaded, rqStats, rqLogs, rqStored>>
  BY DEF RQ!Insert, RQ!Forwarding
<1>2. RQ!TypeOK'
  BY <1>1 DEF LogInv, RQ!TypeOK
<1>3. RQ!LogsSound'
  BY <1>1 DEF LogInv, RQ!LogsSound, RQ!Logged
<1>4. RQ!AnswerForwarded' /\ StillComplete'
  BY <1>1 DEF LogInv, RQ!AnswerForwarded, StillComplete
<1> QED
  BY <1>2, <1>3, <1>4 DEF LogInv

(* Lemma: the entries are cleared, or an account is unloaded.              *)
LEMMA ClearKeeps ==
  ASSUME RQ!RequestLogAssumption, LogInv, RQ!ClearLogs PROVE LogInv'
<1>1. /\ rqLogs' = <<>> /\ rqStored' = <<>>
      /\ UNCHANGED <<rqTask, rqFrom, rqSent, rqGone, rqLoaded, rqStats, rqJobs, rqRows>>
  BY DEF RQ!ClearLogs, RQ!Forwarding
<1>2. RQ!LastN(<<>>, MaxLogs) = <<>>
  BY DEF RQ!LastN, RQ!RequestLogAssumption
<1>3. RQ!TypeOK'
  BY <1>1 DEF LogInv, RQ!TypeOK
<1>4. RQ!LogsSound'
  BY <1>1, <1>2 DEF LogInv, RQ!LogsSound, RQ!Logged
<1>5. RQ!AnswerForwarded' /\ StillComplete'
  BY <1>1 DEF LogInv, RQ!AnswerForwarded, StillComplete
<1> QED
  BY <1>3, <1>4, <1>5 DEF LogInv

LEMMA UnloadKeeps ==
  ASSUME LogInv, NEW a \in Accounts, RQ!Unload(a) PROVE LogInv'
<1>1. /\ rqLoaded' \subseteq rqLoaded
      /\ UNCHANGED <<rqTask, rqFrom, rqSent, rqGone, rqStats, rqLogs, rqJobs, rqRows, rqStored>>
  BY DEF RQ!Unload, RQ!Quiet, RQ!Forwarding
<1>2. RQ!TypeOK'
  BY <1>1 DEF LogInv, RQ!TypeOK
<1>3. RQ!LogsSound'
  BY <1>1 DEF LogInv, RQ!LogsSound, RQ!Logged
<1>4. RQ!AnswerForwarded' /\ StillComplete'
  BY <1>1 DEF LogInv, RQ!AnswerForwarded, StillComplete
<1> QED
  BY <1>2, <1>3, <1>4 DEF LogInv

LEMMA LogStarts ==
  ASSUME RQ!RequestLogAssumption, RQ!Init PROVE LogInv
<1> DEFINE t == [stage |-> "new", kind |-> "none", ok |-> TRUE, account |-> RQ!NoAccount, tail |-> <<>>,
                 failed |-> FALSE, cut |-> FALSE, error |-> FALSE, usage |-> FALSE, row |-> RQ!NoAccount]
<1>1. /\ rqTask = [r \in Requests |-> t]
      /\ rqFrom = [r \in Requests |-> <<>>] /\ rqSent = [r \in Requests |-> <<>>] /\ rqGone = {}
      /\ rqStats = [total |-> 0, success |-> 0, errors |-> 0, usage |-> 0]
      /\ rqLogs = <<>> /\ rqLoaded = Accounts /\ rqJobs = {} /\ rqRows = {} /\ rqStored = <<>>
  BY DEF RQ!Init
<1>2. t \in RQ!Tasks /\ t.stage = "new"
  BY DEF RQ!Tasks
<1> HIDE DEF t
<1>3. RQ!TypeOK
  BY <1>1, <1>2 DEF RQ!TypeOK
<1>4. RQ!Logged = {}
  BY <1>1, <1>2 DEF RQ!Logged
<1>5. RQ!Cardinality({}) = 0
  BY FS_EmptySet DEF RQ!Cardinality, Cardinality, RQ!IsFiniteSet, IsFiniteSet
<1>6. RQ!LastN(<<>>, MaxLogs) = <<>>
  BY DEF RQ!LastN, RQ!RequestLogAssumption
<1>7. /\ {q \in RQ!Logged : rqTask[q].ok} = {} /\ {q \in RQ!Logged : ~rqTask[q].ok} = {}
      /\ {q \in RQ!Logged : rqTask[q].usage} = {}
  BY <1>4
<1>8. RQ!LogsSound
  BY <1>1, <1>4, <1>5, <1>6, <1>7 DEF RQ!LogsSound
<1>9. RQ!AnswerForwarded /\ StillComplete
  BY <1>1 DEF RQ!AnswerForwarded, StillComplete
<1> QED
  BY <1>3, <1>8, <1>9 DEF LogInv

(* THEOREM: for any finite set of requests, any chunks and any size of the *)
(* log, what is noted of the requests stays right whatever runs between    *)
(* the steps of ProxyMonitor::log_request: the statistics count every      *)
(* request that was logged once, the entries in memory are the last ones   *)
(* stored, a row is of a logged request whose account was known; and the   *)
(* task that reads an answer on its way hands on every chunk of it, in     *)
(* order, up to the one that found the client gone.                        *)
THEOREM LogsAlwaysSound ==
  ASSUME RQ!RequestLogAssumption
  PROVE  RQ!Spec => [](RQ!TypeOK /\ RQ!LogsSound /\ RQ!AnswerForwarded)
<1>1. RQ!Init => LogInv
  BY LogStarts
<1>2. LogInv /\ [RQ!Next]_RQ!rqVars => LogInv'
  <2> SUFFICES ASSUME LogInv, [RQ!Next]_RQ!rqVars PROVE LogInv'
    OBVIOUS
  <2>1. CASE UNCHANGED RQ!rqVars
    BY <2>1 DEF LogInv, RQ!TypeOK, RQ!LogsSound, RQ!Logged, RQ!AnswerForwarded, StillComplete, RQ!rqVars
  <2>2. ASSUME NEW r \in Requests, RQ!Begin(r) \/ RQ!Break(r) \/ RQ!Complete(r) \/ RQ!Leave(r) \/ RQ!Panic(r)
                                   \/ RQ!Count(r) \/ RQ!Store(r)
        PROVE  LogInv'
    BY <2>2, BeginKeeps, BreakKeeps, EndsKeeps, LeaveKeeps, CountKeeps, StoreKeeps
  <2>3. ASSUME NEW r \in Requests, NEW answer \in LogAnswers[r], RQ!Answer(r, answer) PROVE LogInv'
    BY <2>3, AnswerKeeps
  <2>4. ASSUME NEW r \in Requests, NEW chunk \in Chunks, RQ!Forward(r, chunk) PROVE LogInv'
    BY <2>4, ForwardKeeps
  <2>5. ASSUME NEW r \in Requests, NEW last \in BOOLEAN, RQ!Sum(r, last) PROVE LogInv'
    BY <2>5, SumKeeps
  <2>6. ASSUME NEW r \in Requests, NEW works \in BOOLEAN, RQ!Insert(r, works) PROVE LogInv'
    BY <2>6, InsertKeeps
  <2>7. CASE RQ!ClearLogs
    BY <2>7, ClearKeeps
  <2>8. ASSUME NEW a \in Accounts, RQ!Unload(a) PROVE LogInv'
    BY <2>8, UnloadKeeps
  <2> QED
    BY <2>1, <2>2, <2>3, <2>4, <2>5, <2>6, <2>7, <2>8 DEF RQ!Next
<1>3. LogInv => RQ!TypeOK /\ RQ!LogsSound /\ RQ!AnswerForwarded
  BY DEF LogInv
<1> QED
  BY <1>1, <1>2, <1>3, PTL DEF RQ!Spec
=============================================================================
