----------------------- MODULE ActiveRequestsProofs -----------------------
(***************************************************************************)
(* Proofs about ActiveRequests for any finite set of requests, any set of  *)
(* accounts and any set of configured limits.                              *)
(*                                                                         *)
(* The argument: while a request is inside its CAS loop it pins the map    *)
(* entry, so the entry exists (Pinned) and the value it compared with was  *)
(* below its limit (Below).  With these, each counter is the number of     *)
(* guards alive, and everything else follows from that one equation.       *)
(***************************************************************************)
EXTENDS ActiveRequests, FiniteSetTheorems, TLAPS

USE ActiveRequestsAssumption

\* An entry some request holds a reference to is in the map.
Pinned == \A r \in Requests : pc[r] \in Pinning => active_requests[key[r]] # Absent

\* The value a request compares with was below its limit when it was loaded.
Below == \A r \in Requests : pc[r] = "swap" => current[r] < cap[r]

IInv == TypeOK /\ Pinned /\ Below /\ CountIsGuards

-----------------------------------------------------------------------------

\* The holders of an account are finitely many, so they can be counted.
LEMMA HoldersFinite ==
  ASSUME NEW a
  PROVE  /\ IsFiniteSet(Holders(a))
         /\ Cardinality(Holders(a)) \in Nat
<1>1. Holders(a) \subseteq Requests
  BY DEF Holders
<1> QED
  BY <1>1, FS_Subset, FS_CardinalityType

\* A step that leaves every request's hold alone leaves the holders alone.
LEMMA HoldersUnchanged ==
  ASSUME NEW a, \A r \in Requests : (pc'[r] = "held" /\ key'[r] = a) <=> (pc[r] = "held" /\ key[r] = a)
  PROVE  Holders(a)' = Holders(a)
BY DEF Holders

\* The type invariant of ActiveRequests, by induction on its steps alone
\* except that the CAS arithmetic needs the entry to be there.
LEMMA TypeStep ==
  ASSUME TypeOK, Pinned, [Next]_vars
  PROVE  TypeOK'
<1> USE DEF TypeOK, Trying, Pinning
<1>1. ASSUME NEW r \in Requests, NEW a \in Accounts, ChooseAccount(r, a)
      PROVE  TypeOK'
  BY <1>1 DEF ChooseAccount
<1>2. ASSUME NEW r \in Requests, InsertEntry(r) PROVE TypeOK'
  BY <1>2 DEF InsertEntry
<1>3. ASSUME NEW r \in Requests, Get(r) PROVE TypeOK'
  BY <1>3 DEF Get
<1>4. ASSUME NEW r \in Requests, GetMissing(r) PROVE TypeOK'
  BY <1>4 DEF GetMissing
<1>5. ASSUME NEW r \in Requests, Load(r) PROVE TypeOK'
  BY <1>5 DEF Load, Pinned
<1>6. ASSUME NEW r \in Requests, LoadFull(r) PROVE TypeOK'
  BY <1>6 DEF LoadFull
<1>7. ASSUME NEW r \in Requests, Swap(r) PROVE TypeOK'
  BY <1>7 DEF Swap
<1>8. ASSUME NEW r \in Requests, SwapFails(r) PROVE TypeOK'
  BY <1>8 DEF SwapFails
<1>9. ASSUME NEW r \in Requests, Release(r) PROVE TypeOK'
  BY <1>9 DEF Release
<1>10. ASSUME NEW a \in Accounts, Reap(a) PROVE TypeOK'
  BY <1>10 DEF Reap
<1>11. ASSUME NEW n \in Limits, UpdateRoutingConfig(n) PROVE TypeOK'
  BY <1>11 DEF UpdateRoutingConfig
<1>12. CASE UNCHANGED vars
  BY <1>12 DEF vars
<1> QED
  BY <1>1, <1>2, <1>3, <1>4, <1>5, <1>6, <1>7, <1>8, <1>9, <1>10, <1>11, <1>12 DEF Next

\* No step takes away an entry that is pinned.
LEMMA PinnedStep ==
  ASSUME TypeOK, Pinned, [Next]_vars
  PROVE  Pinned'
<1> USE DEF TypeOK, Pinned, Trying, Pinning
<1>1. ASSUME NEW r \in Requests, NEW a \in Accounts, ChooseAccount(r, a)
      PROVE  Pinned'
  BY <1>1 DEF ChooseAccount
<1>2. ASSUME NEW r \in Requests, InsertEntry(r) PROVE Pinned'
  BY <1>2 DEF InsertEntry
<1>3. ASSUME NEW r \in Requests, Get(r) PROVE Pinned'
  BY <1>3 DEF Get
<1>4. ASSUME NEW r \in Requests, GetMissing(r) PROVE Pinned'
  BY <1>4 DEF GetMissing
<1>5. ASSUME NEW r \in Requests, Load(r) PROVE Pinned'
  BY <1>5 DEF Load
<1>6. ASSUME NEW r \in Requests, LoadFull(r) PROVE Pinned'
  BY <1>6 DEF LoadFull
<1>7. ASSUME NEW r \in Requests, Swap(r) PROVE Pinned'
  BY <1>7 DEF Swap
<1>8. ASSUME NEW r \in Requests, SwapFails(r) PROVE Pinned'
  BY <1>8 DEF SwapFails
<1>9. ASSUME NEW r \in Requests, Release(r) PROVE Pinned'
  BY <1>9 DEF Release
<1>10. ASSUME NEW a \in Accounts, Reap(a) PROVE Pinned'
  BY <1>10 DEF Reap
<1>11. ASSUME NEW n \in Limits, UpdateRoutingConfig(n) PROVE Pinned'
  BY <1>11 DEF UpdateRoutingConfig
<1>12. CASE UNCHANGED vars
  BY <1>12 DEF vars
<1> QED
  BY <1>1, <1>2, <1>3, <1>4, <1>5, <1>6, <1>7, <1>8, <1>9, <1>10, <1>11, <1>12 DEF Next

\* A request's limit does not move between its load and its exchange.
LEMMA BelowStep ==
  ASSUME TypeOK, Pinned, Below, [Next]_vars
  PROVE  Below'
BY DEF TypeOK, Below, Trying, Pinning, vars, Next, ChooseAccount, InsertEntry, Get,
       GetMissing, Load, LoadFull, Swap, SwapFails, Release, Reap, UpdateRoutingConfig

-----------------------------------------------------------------------------

\* Taking a slot adds one holder to one account.
LEMMA SwapHolders ==
  ASSUME TypeOK, NEW r \in Requests, Swap(r), NEW a \in Accounts
  PROVE  /\ a = key[r] => /\ r \notin Holders(a)
                          /\ Holders(a)' = Holders(a) \cup {r}
                          /\ Cardinality(Holders(a)') = Cardinality(Holders(a)) + 1
         /\ a # key[r] => Holders(a)' = Holders(a)
<1>1. CASE a = key[r]
  <2>1. r \notin Holders(a)
    BY DEF Swap, Holders
  <2>2. Holders(a)' = Holders(a) \cup {r}
    BY <1>1 DEF TypeOK, Swap, Holders
  <2>3. Cardinality(Holders(a) \cup {r}) = Cardinality(Holders(a)) + 1
    BY <2>1, HoldersFinite, FS_AddElement
  <2> QED
    BY <1>1, <2>1, <2>2, <2>3
<1>2. CASE a # key[r]
  BY <1>2 DEF TypeOK, Swap, Holders
<1> QED
  BY <1>1, <1>2

\* Dropping a guard removes one holder from one account.
LEMMA ReleaseHolders ==
  ASSUME TypeOK, NEW r \in Requests, Release(r), NEW a \in Accounts
  PROVE  /\ a = key[r] => /\ r \in Holders(a)
                          /\ Holders(a)' = Holders(a) \ {r}
                          /\ Cardinality(Holders(a)') = Cardinality(Holders(a)) - 1
         /\ a # key[r] => Holders(a)' = Holders(a)
<1>1. CASE a = key[r]
  <2>1. r \in Holders(a)
    BY <1>1 DEF Release, Holders
  <2>2. Holders(a)' = Holders(a) \ {r}
    BY <1>1 DEF TypeOK, Release, Holders
  <2>3. Cardinality(Holders(a) \ {r}) = Cardinality(Holders(a)) - 1
    BY <2>1, HoldersFinite, FS_RemoveElement
  <2> QED
    BY <1>1, <2>1, <2>2, <2>3
<1>2. CASE a # key[r]
  BY <1>2 DEF TypeOK, Release, Holders
<1> QED
  BY <1>1, <1>2

\* Every other step leaves all holders alone.
LEMMA OtherHolders ==
  ASSUME TypeOK, [Next]_vars,
         ~ \E r \in Requests : Swap(r) \/ Release(r),
         NEW a \in Accounts
  PROVE  Holders(a)' = Holders(a)
<1>1. \A r \in Requests : (pc'[r] = "held" /\ key'[r] = a) <=> (pc[r] = "held" /\ key[r] = a)
  BY DEF TypeOK, Trying, vars, Next, ChooseAccount, InsertEntry, Get, GetMissing, Load,
         LoadFull, SwapFails, Reap, UpdateRoutingConfig
<1> QED
  BY <1>1, HoldersUnchanged

\* Every step keeps each counter equal to the number of guards alive.
LEMMA CountStep ==
  ASSUME IInv, [Next]_vars
  PROVE  CountIsGuards'
<1> SUFFICES ASSUME NEW a \in Accounts
             PROVE  GetActiveRequests(a)' = Cardinality(Holders(a)')
  BY DEF CountIsGuards
<1> USE DEF IInv, GetActiveRequests
<1>0. /\ GetActiveRequests(a) = Cardinality(Holders(a))
      /\ Cardinality(Holders(a)) \in Nat
  BY HoldersFinite DEF CountIsGuards
<1>1. CASE \E r \in Requests : Swap(r)
  <2>1. PICK r \in Requests : Swap(r)
    BY <1>1
  <2>2. CASE a = key[r]
    <3>1. /\ GetActiveRequests(a) = current[r]
          /\ GetActiveRequests(a)' = current[r] + 1
      BY <2>1, <2>2 DEF Swap, TypeOK
    <3>2. Cardinality(Holders(a)') = Cardinality(Holders(a)) + 1
      BY <2>1, <2>2, SwapHolders
    <3> QED
      BY <1>0, <3>1, <3>2
  <2>3. CASE a # key[r]
    <3>1. GetActiveRequests(a)' = GetActiveRequests(a)
      BY <2>1, <2>3 DEF Swap, TypeOK
    <3> QED
      BY <1>0, <2>1, <2>3, <3>1, SwapHolders
  <2> QED
    BY <2>2, <2>3
<1>2. CASE \E r \in Requests : Release(r)
  <2>1. PICK r \in Requests : Release(r)
    BY <1>2
  <2>2. CASE a = key[r]
    <3>1. /\ Cardinality(Holders(a)') = Cardinality(Holders(a)) - 1
          /\ Holders(a) # {}
      BY <2>1, <2>2, ReleaseHolders
    <3>2. Cardinality(Holders(a)) # 0
      BY <3>1, HoldersFinite, FS_EmptySet
    <3>3. GetActiveRequests(a)' = GetActiveRequests(a) - 1
      BY <1>0, <2>1, <2>2, <3>2 DEF Release, TypeOK
    <3> QED
      BY <1>0, <3>1, <3>3
  <2>3. CASE a # key[r]
    <3>1. GetActiveRequests(a)' = GetActiveRequests(a)
      BY <2>1, <2>3 DEF Release, TypeOK
    <3> QED
      BY <1>0, <2>1, <2>3, <3>1, ReleaseHolders
  <2> QED
    BY <2>2, <2>3
<1>3. CASE ~ \E r \in Requests : Swap(r) \/ Release(r)
  <2>1. GetActiveRequests(a)' = GetActiveRequests(a)
    BY <1>3 DEF TypeOK, vars, Next, ChooseAccount, InsertEntry, Get, GetMissing, Load,
                LoadFull, SwapFails, Reap, UpdateRoutingConfig
  <2> QED
    BY <1>0, <1>3, <2>1, OtherHolders
<1> QED
  BY <1>1, <1>2, <1>3

-----------------------------------------------------------------------------

\* The initial states satisfy the inductive invariant.
LEMMA InitIInv == Init => IInv
<1> SUFFICES ASSUME Init PROVE IInv
  OBVIOUS
<1>1. \A a \in Accounts : Holders(a) = {}
  BY DEF Init, Holders
<1> QED
  BY <1>1, FS_EmptySet
  DEF Init, IInv, TypeOK, Pinned, Below, CountIsGuards, GetActiveRequests, Trying, Pinning

\* The invariant of ActiveRequests: types, and what the CAS loop relies on.
THEOREM Invariance == Spec => []IInv
<1>1. Init => IInv
  BY InitIInv
<1>2. IInv /\ [Next]_vars => IInv'
  BY TypeStep, PinnedStep, BelowStep, CountStep DEF IInv
<1> QED
  BY <1>1, <1>2, PTL DEF Spec

\* The variables of ActiveRequests keep their types.
THEOREM TypeCorrect == Spec => []TypeOK
<1>1. IInv => TypeOK
  BY DEF IInv
<1> QED
  BY <1>1, Invariance, PTL

\* The counter of every account is the number of guards alive for it: a guard
\* is never lost or counted twice, whatever try_new, Drop and the cleanup
\* tick interleave.
THEOREM GuardsCounted == Spec => []CountIsGuards
<1>1. IInv => CountIsGuards
  BY DEF IInv
<1> QED
  BY <1>1, Invariance, PTL

\* No account serves more requests than the largest limit ever configured.
THEOREM NeverOverLimit == Spec => []WithinLimit
<1>1. Init => WithinLimit
  <2> SUFFICES ASSUME Init PROVE WithinLimit
    OBVIOUS
  <2>1. \A a \in Accounts : Cardinality(Holders(a)) = 0
    BY FS_EmptySet DEF Init, Holders
  <2> QED
    BY <2>1 DEF WithinLimit
<1>2. IInv /\ WithinLimit /\ [Next]_vars => WithinLimit'
  <2> SUFFICES ASSUME IInv, WithinLimit, [Next]_vars,
                      NEW a \in Accounts, NEW n \in Limits,
                      \A m \in Limits : m <= n
               PROVE  Cardinality(Holders(a)') <= n
    BY DEF WithinLimit
  <2>0. /\ Cardinality(Holders(a)) \in Nat
        /\ Cardinality(Holders(a)) <= n
        /\ GetActiveRequests(a) = Cardinality(Holders(a))
    BY HoldersFinite DEF WithinLimit, IInv, CountIsGuards
  <2>1. CASE \E r \in Requests : Swap(r)
    <3>1. PICK r \in Requests : Swap(r)
      BY <2>1
    <3>2. /\ current[r] < cap[r]
          /\ cap[r] \in Limits
          /\ current[r] \in Nat
          /\ active_requests[key[r]] = current[r]
      BY <3>1 DEF IInv, Below, TypeOK, Swap
    <3>3. CASE a = key[r]
      <4>1. GetActiveRequests(a) = current[r]
        BY <3>2, <3>3 DEF GetActiveRequests
      <4>2. Cardinality(Holders(a)') = Cardinality(Holders(a)) + 1
        BY <3>1, <3>3, SwapHolders DEF IInv
      <4>3. cap[r] <= n /\ cap[r] \in Nat /\ n \in Nat
        BY <3>2
      <4>4. current[r] + 1 <= n
        BY <3>2, <4>3
      <4> QED
        BY <2>0, <4>1, <4>2, <4>4
    <3>4. CASE a # key[r]
      BY <2>0, <3>1, <3>4, SwapHolders DEF IInv
    <3> QED
      BY <3>3, <3>4
  <2>2. CASE \E r \in Requests : Release(r)
    <3>1. PICK r \in Requests : Release(r)
      BY <2>2
    <3> QED
      BY <2>0, <3>1, ReleaseHolders DEF IInv
  <2>3. CASE ~ \E r \in Requests : Swap(r) \/ Release(r)
    BY <2>0, <2>3, OtherHolders DEF IInv
  <2> QED
    BY <2>1, <2>2, <2>3
<1> QED
  BY <1>1, <1>2, Invariance, PTL DEF Spec

-----------------------------------------------------------------------------

\* The abstract steps the detailed ones map to.
LEMMA StepSimulation ==
  ASSUME IInv, [Next]_vars
  PROVE  [Slots!Next]_<<[a \in Accounts |-> Holders(a)], cap>>
<1> USE DEF IInv
<1> DEFINE H == [a \in Accounts |-> Holders(a)]
<1>1. CASE \E r \in Requests : Swap(r)
  <2>1. PICK r \in Requests : Swap(r)
    BY <1>1
  <2>2. key[r] \in Accounts /\ UNCHANGED cap
    BY <2>1 DEF TypeOK, Swap
  <2>3. H' = [H EXCEPT ![key[r]] = @ \cup {r}]
    BY <2>1, SwapHolders
  <2>4. Slots!HoldsNone(r)
    BY <2>1 DEF Slots!HoldsNone, Holders, Swap
  <2>5. Cardinality(H[key[r]]) < cap[r]
    BY <2>1, <2>2 DEF Below, CountIsGuards, GetActiveRequests, Swap, TypeOK
  <2>6. Slots!Take(r, key[r])
    BY <2>2, <2>3, <2>4, <2>5 DEF Slots!Take, Slots!Cardinality, Cardinality
  <2> QED
    BY <2>2, <2>6 DEF Slots!Next
<1>2. CASE \E r \in Requests : Release(r)
  <2>1. PICK r \in Requests : Release(r)
    BY <1>2
  <2>2. key[r] \in Accounts /\ UNCHANGED cap
    BY <2>1 DEF TypeOK, Release
  <2>3. H' = [H EXCEPT ![key[r]] = @ \ {r}]
    BY <2>1, ReleaseHolders
  <2>4. r \in H[key[r]]
    BY <2>1, <2>2 DEF Holders, Release
  <2>5. Slots!GiveBack(r, key[r])
    BY <2>2, <2>3, <2>4 DEF Slots!GiveBack
  <2> QED
    BY <2>2, <2>5 DEF Slots!Next
<1>3. CASE ~ \E r \in Requests : Swap(r) \/ Release(r)
  <2>1. H' = H
    BY <1>3, OtherHolders
  <2>2. CASE \E r \in Requests, a \in Accounts : ChooseAccount(r, a)
    <3>1. PICK r \in Requests, a \in Accounts : ChooseAccount(r, a)
      BY <2>2
    <3>2. Slots!Admit(r, limit)
      BY <2>1, <3>1 DEF Slots!Admit, Slots!HoldsNone, Holders, ChooseAccount
    <3> QED
      BY <3>2 DEF Slots!Next, TypeOK
  <2>3. CASE ~ \E r \in Requests, a \in Accounts : ChooseAccount(r, a)
    <3>1. UNCHANGED cap
      BY <1>3, <2>3 DEF vars, Next, InsertEntry, Get, GetMissing, Load, LoadFull,
                        SwapFails, Reap, UpdateRoutingConfig
    <3> QED
      BY <2>1, <3>1
  <2> QED
    BY <2>2, <2>3
<1> QED
  BY <1>1, <1>2, <1>3

\* ActiveRequests implements the slot discipline of ConcurrencyLimit.
THEOREM Refinement == Spec => ImplementsConcurrencyLimit
<1>1. Init => Slots!Init
  BY DEF Init, Slots!Init, Holders
<1>2. IInv /\ [Next]_vars => [Slots!Next]_<<[a \in Accounts |-> Holders(a)], cap>>
  BY StepSimulation
<1> QED
  BY <1>1, <1>2, Invariance, PTL DEF Spec, ImplementsConcurrencyLimit, Slots!Spec

=============================================================================
