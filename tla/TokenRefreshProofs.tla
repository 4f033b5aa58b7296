------------------------ MODULE TokenRefreshProofs ------------------------
(***************************************************************************)
(* Theorems about TokenRefresh for any number of requests and mutexes, any *)
(* lifetime of a token and any bound on the clock and the rotations.       *)
(***************************************************************************)
EXTENDS TokenRefresh, TLAPS

\* Positions after a granted answer was applied and before it is saved.
Saving == {"opening_file", "writing_file", "saving_db", "saving_db_alone"}

\* What a request has in its hands at each position.
Equipped ==
  \A r \in Requests :
    /\ pc[r] # "idle" => token[r] \in Credentials
    /\ pc[r] \in Saving \cup {"answered"} => response[r] \in Answers
    /\ pc[r] \in Saving => response[r].granted

-----------------------------------------------------------------------------
(* Type correctness.                                                        *)

\* Lemma: an answer turns credentials into credentials and a record into a
\* record, and what is stored has the fields of the answer.
LEMMA RenewedType ==
  ASSUME NEW ans \in Answers, NEW ts \in Time
  PROVE  /\ \A c \in Credentials : Renewed(c, ans, ts) \in Credentials
         /\ \A rec \in Record : Renewed(rec, ans, ts) \in Record
<1> USE DEF Renewed
<1>1. ans.expires \in Time /\ ans.rotated \in BOOLEAN /\ ans.rt \in Generations
  BY DEF Answers
<1>2. ASSUME NEW c \in Credentials PROVE Renewed(c, ans, ts) \in Credentials
  BY <1>1 DEF Credentials
<1>3. ASSUME NEW rec \in Record PROVE Renewed(rec, ans, ts) \in Record
  BY <1>1 DEF Record
<1> QED
  BY <1>2, <1>3

\* Lemma: the fields that renewing sets.
LEMMA RenewedFields ==
  ASSUME NEW ans \in Answers, NEW ts \in Time, NEW c \in Credentials \cup Record
  PROVE  /\ Renewed(c, ans, ts).expires = ans.expires
         /\ Renewed(c, ans, ts).ts = ts
         /\ ans.rotated => Renewed(c, ans, ts).rt = ans.rt
BY DEF Renewed, Credentials, Record

\* Lemma: the clock readings a request counts an expiry from give a time.
LEMMA ClockType ==
  ASSUME TypeOK, NEW r \in Requests
  PROVE  /\ now \in Time
         /\ now + Lifetime \in Time
         /\ read_at[r] + Lifetime \in Time
BY TokenRefreshAssumption DEF TypeOK, Time

\* Lemma: every step keeps the types and what the requests hold.
LEMMA TypeStep ==
  ASSUME TypeOK, Equipped, [Next]_vars
  PROVE  TypeOK' /\ Equipped'
<1> USE TokenRefreshAssumption DEF TypeOK, Equipped, Critical, Awaiting, Saving
<1>1. ASSUME NEW r \in Requests, Select(r)
      PROVE  TypeOK' /\ Equipped'
  BY <1>1 DEF Select, store, mine
<1>2. ASSUME NEW r \in Requests, UseFresh(r)
      PROVE  TypeOK' /\ Equipped'
  BY <1>2 DEF UseFresh, store, mine
<1>3. ASSUME NEW r \in Requests, BeginRefresh(r)
      PROVE  TypeOK' /\ Equipped'
  BY <1>3 DEF BeginRefresh, store, mine
<1>4. ASSUME NEW r \in Requests, TakeOver(r)
      PROVE  TypeOK' /\ Equipped'
  BY <1>4 DEF TakeOver, AlreadyRefreshed, Unlock, store, mine
<1>5. ASSUME NEW r \in Requests, Call(r)
      PROVE  TypeOK' /\ Equipped'
  BY <1>5 DEF Call, store, mine
<1>6. ASSUME NEW r \in Requests, ProviderGrants(r)
      PROVE  TypeOK' /\ Equipped'
  BY <1>6 DEF ProviderGrants, store, mine, Answers, Credentials, Time, Generations
<1>7. ASSUME NEW r \in Requests, ProviderRefuses(r)
      PROVE  TypeOK' /\ Equipped'
  BY <1>7 DEF ProviderRefuses, store, mine, Answers, Time, Generations
<1>8. ASSUME NEW r \in Requests, RefreshFails(r)
      PROVE  TypeOK' /\ Equipped'
  BY <1>8 DEF RefreshFails, Fail, Unlock, store, mine
<1>9. ASSUME NEW r \in Requests, ApplyGrant(r)
      PROVE  TypeOK' /\ Equipped'
  <2>1. /\ Renewed(token[r], response[r], read_at[r] + Lifetime) \in Credentials
        /\ entry # Null => Renewed(entry, response[r], read_at[r] + Lifetime) \in Credentials
    BY <1>9, RenewedType, ClockType DEF ApplyGrant
  <2> QED
    BY <1>9, <2>1 DEF ApplyGrant, store, mine
<1>10. ASSUME NEW r \in Requests, ApplyRefusal(r)
       PROVE  TypeOK' /\ Equipped'
  BY <1>10 DEF ApplyRefusal, store, mine
<1>11. ASSUME NEW r \in Requests, OpenFile(r)
       PROVE  TypeOK' /\ Equipped'
  BY <1>11 DEF OpenFile, store, mine
<1>12. ASSUME NEW r \in Requests, FileFails(r)
       PROVE  TypeOK' /\ Equipped'
  BY <1>12 DEF FileFails, AfterFile, EndSave, Succeed, Fail, Unlock, store, mine
<1>13. ASSUME NEW r \in Requests, WriteFile(r)
       PROVE  TypeOK' /\ Equipped'
  <2>1. /\ Written(file, response[r]) \in Record
        /\ entry # Null => Renewed(entry, response[r], now) \in Credentials
    BY <1>13, RenewedType, ClockType DEF WriteFile, Written
  <2>2. file' \in Record /\ entry' \in Credentials \cup {Null}
    BY <1>13, <2>1 DEF WriteFile
  <2>3. CASE UseDb
    BY <1>13, <2>2, <2>3 DEF WriteFile, AfterFile, store, mine
  <2>4. CASE ~ UseDb
    BY <1>13, <2>2, <2>4 DEF WriteFile, AfterFile, EndSave, Succeed, Fail, Unlock
  <2> QED
    BY <2>3, <2>4
<1>14. ASSUME NEW r \in Requests, WriteDb(r)
       PROVE  TypeOK' /\ Equipped'
  <2>1. Written(db, response[r]) \in Record
    BY <1>14, RenewedType, ClockType DEF WriteDb, Written
  <2>2. db' \in Record
    BY <1>14, <2>1 DEF WriteDb
  <2>3. Succeed(r) \/ Fail(r)
    BY <1>14 DEF WriteDb, EndSave
  <2>4. CASE Succeed(r)
    BY <1>14, <2>2, <2>4 DEF WriteDb, Succeed, Unlock
  <2>5. CASE Fail(r)
    BY <1>14, <2>2, <2>5 DEF WriteDb, Fail, Unlock
  <2> QED
    BY <2>3, <2>4, <2>5
<1>15. ASSUME NEW r \in Requests, InsertBack(r)
       PROVE  TypeOK' /\ Equipped'
  BY <1>15 DEF InsertBack, store, mine
<1>16. ASSUME NEW r \in Requests, Serve(r)
       PROVE  TypeOK' /\ Equipped'
  BY <1>16 DEF Serve, store, mine
<1>17. ASSUME NEW r \in Requests, DisableFile(r)
       PROVE  TypeOK' /\ Equipped'
  <2>1. file' \in Record
    BY <1>17 DEF DisableFile, Record
  <2> QED
    BY <1>17, <2>1 DEF DisableFile, AfterDisableFile, Fail, Unlock, store, mine
<1>18. ASSUME NEW r \in Requests, DisableDb(r)
       PROVE  TypeOK' /\ Equipped'
  <2>1. db' \in Record
    BY <1>18 DEF DisableDb, Record
  <2> QED
    BY <1>18, <2>1 DEF DisableDb, Fail, Unlock, store, mine
<1>19. ASSUME NEW r \in Requests, Cancel(r)
       PROVE  TypeOK' /\ Equipped'
  <2>1. pc[r] \in Saving => /\ Written(file, response[r]) \in Record
                            /\ Written(db, response[r]) \in Record
    BY RenewedType, ClockType DEF Written
  <2>2. file' \in Record /\ db' \in Record
    BY <1>19, <2>1 DEF Cancel, store
  <2> QED
    BY <1>19, <2>2 DEF Cancel, Fail, Unlock, store, mine
<1>20. CASE Revoke
  BY <1>20 DEF Revoke, store, mine
<1>21. CASE ReloadRead
  BY <1>21 DEF ReloadRead, Source, store, mine
<1>22. CASE ReloadMerge
  BY <1>22 DEF ReloadMerge, Loaded, Record, Credentials, store, mine
<1>23. CASE CleanupTick
  BY <1>23 DEF CleanupTick, store, mine
<1>24. CASE Restart
  <2>1. Source \in Record
    BY DEF Source
  <2>2. Loaded(Source) \in Credentials
    BY <2>1 DEF Loaded, Record, Credentials
  <2>3. entry' \in Credentials \cup {Null}
    BY <1>24, <2>2 DEF Restart
  <2>4. 0 \in 0 .. MaxTime
    BY SMT
  <2>5. read_at' \in [Requests -> 0 .. MaxTime]
    BY <1>24, <2>4 DEF Restart
  <2>6. TypeOK'
    BY <1>24, <2>3, <2>5 DEF Restart, store
  <2>7. Equipped'
    BY <1>24 DEF Restart
  <2> QED
    BY <2>6, <2>7
<1>25. CASE Tick
  BY <1>25 DEF Tick, store, mine
<1>26. CASE UNCHANGED vars
  BY <1>26 DEF vars, store, mine
<1> QED
  BY <1>1, <1>2, <1>3, <1>4, <1>5, <1>6, <1>7, <1>8, <1>9, <1>10, <1>11, <1>12, <1>13,
     <1>14, <1>15, <1>16, <1>17, <1>18, <1>19, <1>20, <1>21, <1>22, <1>23, <1>24,
     <1>25, <1>26 DEF Next, RequestStep

-----------------------------------------------------------------------------
(* One refresher at a time.                                                 *)

\* Unless the cleanup has pruned it, the mutex that waiting and refreshing
\* requests cloned is the registered one.
OnRegistry ==
  ~ pruned => \A r \in Requests : pc[r] \in Awaiting =>
    refresh_lock # Null /\ lock[r] = refresh_lock

\* A mutex has one holder, pruned or not.
OneHolder ==
  \A r, s \in Requests :
    pc[r] \in Critical /\ pc[s] \in Critical /\ lock[r] = lock[s] => r = s

\* Lemma: a request that leaves keeps both facts for the others.
LEMMA LeaveLocks ==
  ASSUME TypeOK, OnRegistry, OneHolder, NEW r \in Requests, Unlock(r),
         pc' \in {[pc EXCEPT ![r] = "refreshed"], [pc EXCEPT ![r] = "idle"]},
         UNCHANGED refresh_lock, pc[r] \in Awaiting
  PROVE  OnRegistry' /\ OneHolder'
<1> USE DEF TypeOK, OnRegistry, OneHolder, Unlock, Critical, Awaiting
<1>1. OneHolder'
  OBVIOUS
<1>2. ASSUME NEW s \in Requests, pc'[s] \in Awaiting, ~ pruned'
      PROVE  refresh_lock' # Null /\ lock'[s] = refresh_lock'
  BY <1>2
<1> QED
  BY <1>1, <1>2

\* Lemma: every step keeps the lock discipline.
LEMMA LockStep ==
  ASSUME TypeOK, OnRegistry, OneHolder, [Next]_vars
  PROVE  OnRegistry' /\ OneHolder'
<1> USE DEF TypeOK, Critical, Awaiting
<1>1. ASSUME NEW r \in Requests, Select(r) \/ UseFresh(r) \/ InsertBack(r) \/ Serve(r)
      PROVE  OnRegistry' /\ OneHolder'
  BY <1>1 DEF OnRegistry, OneHolder, Select, UseFresh, InsertBack, Serve, mine
<1>2. ASSUME NEW r \in Requests, BeginRefresh(r)
      PROVE  OnRegistry' /\ OneHolder'
  <2>1. OneHolder'
    BY <1>2 DEF OneHolder, BeginRefresh
  <2>2. OnRegistry'
    BY <1>2, TokenRefreshAssumption DEF OnRegistry, BeginRefresh
  <2> QED
    BY <2>1, <2>2
<1>3. ASSUME NEW r \in Requests, TakeOver(r)
      PROVE  OnRegistry' /\ OneHolder'
  BY <1>3, LeaveLocks DEF TakeOver
<1>4. ASSUME NEW r \in Requests, Call(r)
      PROVE  OnRegistry' /\ OneHolder'
  BY <1>4 DEF OnRegistry, OneHolder, Call, LockFree, mine
<1>5. ASSUME NEW r \in Requests,
             ProviderGrants(r) \/ ProviderRefuses(r) \/ ApplyGrant(r) \/ ApplyRefusal(r)
               \/ OpenFile(r)
      PROVE  OnRegistry' /\ OneHolder'
  BY <1>5 DEF OnRegistry, OneHolder, ProviderGrants, ProviderRefuses, ApplyGrant,
              ApplyRefusal, OpenFile, mine
<1>6. ASSUME NEW r \in Requests, RefreshFails(r) \/ DisableDb(r) \/ Cancel(r)
      PROVE  OnRegistry' /\ OneHolder'
  BY <1>6, LeaveLocks DEF RefreshFails, DisableDb, Cancel, Fail
<1>7. ASSUME NEW r \in Requests, FileFails(r) \/ WriteFile(r) \/ WriteDb(r) \/ DisableFile(r)
      PROVE  OnRegistry' /\ OneHolder'
  <2>1. \/ Succeed(r) \/ Fail(r)
        \/ /\ pc' \in {[pc EXCEPT ![r] = p] : p \in Critical}
           /\ UNCHANGED <<mine, pruned>>
    BY <1>7 DEF FileFails, WriteFile, WriteDb, DisableFile, AfterFile, AfterDisableFile, EndSave
  <2>2. pc[r] \in Critical /\ UNCHANGED refresh_lock
    BY <1>7 DEF FileFails, WriteFile, WriteDb, DisableFile
  <2>3. CASE Succeed(r) \/ Fail(r)
    BY <2>2, <2>3, LeaveLocks DEF Succeed, Fail
  <2>4. CASE /\ pc' \in {[pc EXCEPT ![r] = p] : p \in Critical}
             /\ UNCHANGED <<mine, pruned>>
    BY <2>2, <2>4 DEF OnRegistry, OneHolder, mine
  <2> QED
    BY <2>1, <2>3, <2>4
<1>8. CASE CleanupTick
  BY <1>8 DEF OnRegistry, OneHolder, CleanupTick, mine
<1>9. CASE Restart
  BY <1>9 DEF OnRegistry, OneHolder, Restart
<1>10. CASE Revoke \/ ReloadRead \/ ReloadMerge \/ Tick \/ UNCHANGED vars
  BY <1>10 DEF OnRegistry, OneHolder, Revoke, ReloadRead, ReloadMerge, Tick, vars, mine
<1> QED
  BY <1>1, <1>2, <1>3, <1>4, <1>5, <1>6, <1>7, <1>8, <1>9, <1>10 DEF Next, RequestStep

-----------------------------------------------------------------------------
(* Access tokens handed out are alive.                                      *)

\* The expiry written down is at most one tick later than the real one.
Honest(c) == c.ts <= c.expires + 1

Truthful ==
  /\ entry # Null => Honest(entry)
  /\ Honest(file) /\ Honest(db)
  /\ reload # Null => Honest(reload)
  /\ \A r \in Requests : pc[r] # "idle" => Honest(token[r])

\* The clock reading a refresh counts from is at most one tick old, and a
\* granted access token lives a whole lifetime from it.
InTime ==
  \A r \in Requests :
    /\ pc[r] \in Awaiting => read_at[r] <= now /\ now <= read_at[r] + 1
    /\ pc[r] \in Saving \cup {"answered"} /\ response[r].granted
         => response[r].expires >= read_at[r] + Lifetime
    /\ pc[r] \in Saving => token[r].expires = response[r].expires

Alive ==
  \A r \in Requests : pc[r] \in {"refreshed", "ready"} => token[r].expires > now

\* Lemma: what a refresh writes into its clone, the entry or a store is honest.
LEMMA RenewedHonest ==
  ASSUME TypeOK, Equipped, InTime, NEW r \in Requests,
         \/ pc[r] \in Saving
         \/ pc[r] = "answered" /\ response[r].granted,
         NEW ts \in {now, now + Lifetime, read_at[r] + Lifetime},
         NEW c \in Credentials \cup Record
  PROVE  /\ Honest(Renewed(c, response[r], ts))
         /\ Renewed(c, response[r], ts).expires = response[r].expires
<1>1. response[r] \in Answers /\ response[r].expires >= read_at[r] + Lifetime
  BY DEF Equipped, InTime, Saving
<1>2. /\ now \in Nat /\ read_at[r] \in Nat /\ Lifetime \in Nat
      /\ response[r].expires \in Nat
  BY <1>1, TokenRefreshAssumption DEF TypeOK, Answers, Time
<1>3. ts \in Time /\ now <= read_at[r] + 1
  BY ClockType DEF InTime, Saving, Awaiting, Critical
<1>4. ts <= response[r].expires + 1
  BY <1>1, <1>2, <1>3
<1> QED
  BY <1>1, <1>3, <1>4, RenewedFields DEF Honest

\* Lemma: a request that leaves try_refresh_token keeps the clock facts, when
\* the stores stay honest and its token, if it goes on with one, is alive.
LEMMA LeaveClock ==
  ASSUME TypeOK, Truthful, InTime, Alive, NEW r \in Requests, Succeed(r) \/ Fail(r),
         pc[r] \in Awaiting, UNCHANGED <<now, reload>>,
         entry' # Null => Honest(entry'), Honest(file'), Honest(db'),
         Succeed(r) => token[r].expires > now
  PROVE  Truthful' /\ InTime' /\ Alive'
<1> USE DEF TypeOK, Succeed, Fail, Unlock, Awaiting, Critical, Saving
<1>1. Truthful'
  BY DEF Truthful, Honest
<1>2. InTime'
  BY DEF InTime
<1>3. Alive'
  BY DEF Alive
<1> QED
  BY <1>1, <1>2, <1>3

\* Lemma: an access token just granted outlives the save.
LEMMA GrantedAlive ==
  ASSUME TypeOK, Equipped, InTime, NEW r \in Requests, pc[r] \in Saving
  PROVE  token[r].expires > now
<1>1. /\ token[r].expires >= read_at[r] + Lifetime
      /\ now <= read_at[r] + 1
  BY DEF InTime, Equipped, Saving, Awaiting, Critical
<1>2. /\ now \in Nat /\ read_at[r] \in Nat /\ token[r].expires \in Nat
  BY TokenRefreshAssumption DEF TypeOK, Equipped, Credentials, Time, Saving
<1> QED
  BY <1>1, <1>2, TokenRefreshAssumption

\* Lemma: every step keeps the clock facts.
LEMMA ClockStep ==
  ASSUME TypeOK, Equipped, Truthful, InTime, Alive, [Next]_vars
  PROVE  Truthful' /\ InTime' /\ Alive'
<1> USE DEF TypeOK, Critical, Awaiting, Saving
<1> DEFINE Goal == Truthful' /\ InTime' /\ Alive'
<1>1. ASSUME NEW r \in Requests, Select(r)
      PROVE  Goal
  BY <1>1 DEF Truthful, InTime, Alive, Honest, Select, store
<1>2. ASSUME NEW r \in Requests, UseFresh(r)
      PROVE  Goal
  <2>1. token[r].expires > now
    <3>1. now + REFRESH_BUFFER < token[r].ts /\ token[r].ts <= token[r].expires + 1
      BY <1>2, TokenRefreshAssumption
         DEF UseFresh, NeedsRefresh, Truthful, Honest, Equipped, Credentials, Time
    <3> QED
      BY <1>2, <3>1, TokenRefreshAssumption DEF UseFresh, Equipped, Credentials, Time
  <2> QED
    BY <1>2, <2>1 DEF Truthful, InTime, Alive, Honest, UseFresh, store, mine
<1>3. ASSUME NEW r \in Requests, BeginRefresh(r)
      PROVE  Goal
  BY <1>3 DEF Truthful, InTime, Alive, Honest, BeginRefresh, store
<1>4. ASSUME NEW r \in Requests, TakeOver(r)
      PROVE  Goal
  <2>1. entry \in Credentials /\ Honest(entry) /\ entry.ts > read_at[r] + REFRESH_BUFFER
        /\ now <= read_at[r] + 1
    BY <1>4 DEF TakeOver, AlreadyRefreshed, Truthful, InTime
  <2>2. entry.expires > now
    BY <2>1, TokenRefreshAssumption DEF Honest, Credentials, Time
  <2>3. Truthful'
    BY <1>4, <2>1 DEF TakeOver, Unlock, Truthful, Honest, store
  <2>4. InTime'
    BY <1>4 DEF TakeOver, Unlock, InTime
  <2>5. Alive'
    BY <1>4, <2>2 DEF TakeOver, Unlock, Alive
  <2> QED
    BY <2>3, <2>4, <2>5
<1>5. ASSUME NEW r \in Requests, Call(r)
      PROVE  Goal
  BY <1>5 DEF Truthful, InTime, Alive, Honest, Call, store, mine
<1>6. ASSUME NEW r \in Requests, ProviderGrants(r)
      PROVE  Goal
  <2>1. PICK rotates \in BOOLEAN :
          response' = [response EXCEPT ![r] =
            [granted |-> TRUE, expires |-> now + Lifetime, rotated |-> rotates,
             rt |-> provider']]
    BY <1>6 DEF ProviderGrants
  <2>2. response'[r].expires >= read_at[r] + Lifetime
    BY <1>6, <2>1, TokenRefreshAssumption DEF ProviderGrants, InTime
  <2>3. InTime'
    BY <1>6, <2>1, <2>2 DEF ProviderGrants, InTime
  <2> QED
    BY <1>6, <2>3 DEF Truthful, Alive, Honest, ProviderGrants, store
<1>7. ASSUME NEW r \in Requests, ProviderRefuses(r)
      PROVE  Goal
  BY <1>7 DEF Truthful, InTime, Alive, Honest, ProviderRefuses, store
<1>8. ASSUME NEW r \in Requests, RefreshFails(r)
      PROVE  Goal
  <2>1. Fail(r) /\ pc[r] \in Awaiting /\ ~ Succeed(r)
    BY <1>8 DEF RefreshFails, Fail, Succeed
  <2> QED
    BY <1>8, <2>1, LeaveClock DEF RefreshFails, Truthful, store
<1>9. ASSUME NEW r \in Requests, ApplyGrant(r)
      PROVE  Goal
  <2>1. /\ Honest(token'[r]) /\ token'[r].expires = response[r].expires
        /\ entry' # Null => Honest(entry')
    BY <1>9, RenewedHonest DEF ApplyGrant, Equipped
  <2>2. Truthful'
    BY <1>9, <2>1 DEF ApplyGrant, Truthful, Honest, store
  <2>3. InTime'
    BY <1>9, <2>1 DEF ApplyGrant, InTime
  <2>4. Alive'
    BY <1>9 DEF ApplyGrant, Alive
  <2> QED
    BY <2>2, <2>3, <2>4
<1>10. ASSUME NEW r \in Requests, ApplyRefusal(r)
       PROVE  Goal
  BY <1>10 DEF Truthful, InTime, Alive, Honest, ApplyRefusal, store, mine
<1>11. ASSUME NEW r \in Requests, OpenFile(r)
       PROVE  Goal
  BY <1>11 DEF Truthful, InTime, Alive, Honest, OpenFile, store, mine
<1>12. ASSUME NEW r \in Requests, FileFails(r)
       PROVE  Goal
  <2>1. CASE UseDb
    BY <1>12, <2>1 DEF Truthful, InTime, Alive, Honest, FileFails, AfterFile, store, mine
  <2>2. CASE ~ UseDb
    <3>1. Succeed(r) \/ Fail(r)
      BY <1>12, <2>2 DEF FileFails, AfterFile, EndSave
    <3> QED
      BY <1>12, <3>1, LeaveClock, GrantedAlive DEF FileFails, Truthful, store
  <2> QED
    BY <2>1, <2>2
<1>13. ASSUME NEW r \in Requests, WriteFile(r)
       PROVE  Goal
  <2>1. Honest(file') /\ (entry' # Null => Honest(entry'))
    BY <1>13, RenewedHonest DEF WriteFile, Written
  <2>2. CASE UseDb
    BY <1>13, <2>1, <2>2 DEF Truthful, InTime, Alive, Honest, WriteFile, AfterFile, mine
  <2>3. CASE ~ UseDb
    <3>1. Succeed(r) \/ Fail(r)
      BY <1>13, <2>3 DEF WriteFile, AfterFile, EndSave
    <3> QED
      BY <1>13, <2>1, <3>1, LeaveClock, GrantedAlive DEF WriteFile, Truthful
  <2> QED
    BY <2>2, <2>3
<1>14. ASSUME NEW r \in Requests, WriteDb(r)
       PROVE  Goal
  <2>1. Honest(db')
    BY <1>14, RenewedHonest DEF WriteDb, Written, Truthful
  <2>2. Succeed(r) \/ Fail(r)
    BY <1>14 DEF WriteDb, EndSave
  <2> QED
    BY <1>14, <2>1, <2>2, LeaveClock, GrantedAlive DEF WriteDb, Truthful
<1>15. ASSUME NEW r \in Requests, InsertBack(r)
       PROVE  Goal
  BY <1>15 DEF Truthful, InTime, Alive, Honest, InsertBack, store, mine
<1>16. ASSUME NEW r \in Requests, Serve(r)
       PROVE  Goal
  BY <1>16 DEF Truthful, InTime, Alive, Honest, Serve, store
<1>17. ASSUME NEW r \in Requests, DisableFile(r)
       PROVE  Goal
  <2>1. Honest(file') /\ (entry' # Null => Honest(entry'))
    BY <1>17 DEF DisableFile, Truthful, Honest, Record
  <2>2. CASE UseDb
    BY <1>17, <2>1, <2>2
       DEF Truthful, InTime, Alive, Honest, DisableFile, AfterDisableFile, mine
  <2>3. CASE ~ UseDb
    <3>1. Fail(r) /\ ~ Succeed(r)
      BY <1>17, <2>3 DEF DisableFile, AfterDisableFile, Fail, Succeed
    <3> QED
      BY <1>17, <2>1, <3>1, LeaveClock DEF DisableFile, Truthful
  <2> QED
    BY <2>2, <2>3
<1>18. ASSUME NEW r \in Requests, DisableDb(r)
       PROVE  Goal
  <2>1. Honest(db')
    BY <1>18 DEF DisableDb, Truthful, Honest, Record
  <2>2. Fail(r) /\ ~ Succeed(r)
    BY <1>18 DEF DisableDb, Fail, Succeed
  <2> QED
    BY <1>18, <2>1, <2>2, LeaveClock DEF DisableDb, Truthful
<1>19. ASSUME NEW r \in Requests, Cancel(r)
       PROVE  Goal
  <2>1. Honest(file') /\ Honest(db')
    BY <1>19, RenewedHonest DEF Cancel, Written, Truthful, store
  <2>2. Fail(r) /\ ~ Succeed(r)
    BY <1>19 DEF Cancel, Fail, Succeed
  <2> QED
    BY <1>19, <2>1, <2>2, LeaveClock DEF Cancel, Truthful
<1>20. CASE Revoke \/ ReloadRead \/ CleanupTick \/ UNCHANGED vars
  BY <1>20 DEF Truthful, InTime, Alive, Honest, Revoke, ReloadRead, Source, CleanupTick,
               vars, store, mine
<1>21. CASE ReloadMerge
  <2>1. Honest(Loaded(reload))
    BY <1>21 DEF ReloadMerge, Truthful, Honest, Loaded, Record
  <2> QED
    BY <1>21, <2>1 DEF Truthful, InTime, Alive, Honest, ReloadMerge, store, mine
<1>22. CASE Restart
  <2>1. Honest(Loaded(Source))
    BY DEF Truthful, Honest, Loaded, Source
  <2> QED
    BY <1>22, <2>1 DEF Truthful, InTime, Alive, Honest, Restart, store
<1>23. CASE Tick
  BY <1>23 DEF Truthful, InTime, Alive, Honest, Tick, store, mine
<1> QED
  BY <1>1, <1>2, <1>3, <1>4, <1>5, <1>6, <1>7, <1>8, <1>9, <1>10, <1>11, <1>12, <1>13,
     <1>14, <1>15, <1>16, <1>17, <1>18, <1>19, <1>20, <1>21, <1>22, <1>23
     DEF Next, RequestStep

-----------------------------------------------------------------------------
(* A rotation that is reported is saved.                                    *)

\* While the row is being written the file holds the answer's refresh token.
SavedFile ==
  ~ pruned => \A r \in Requests :
    pc[r] = "saving_db" /\ response[r].rotated => file.rt = response[r].rt

\* Lemma: one refresher at a time, from the lock discipline.
LEMMA OneAtATime ==
  ASSUME OnRegistry, OneHolder
  PROVE  OneRefresher
BY DEF OnRegistry, OneHolder, OneRefresher, Awaiting

\* Lemma: a mutex that was pruned stays pruned while a request still uses it.
LEMMA PrunedStays ==
  ASSUME TypeOK, [Next]_vars, NEW r \in Requests,
         pc[r] \in Critical, pc'[r] \in Critical, ~ pruned'
  PROVE  ~ pruned
<1> USE DEF Critical, Awaiting
<1>1. ASSUME NEW s \in Requests, s # r, Unlock(s)
      PROVE  ~ pruned
  BY <1>1 DEF Unlock
<1>2. ASSUME NEW s \in Requests, RequestStep(s) \/ Select(s)
      PROVE  ~ pruned
  <2>1. \/ UNCHANGED pruned
        \/ TakeOver(s) \/ Succeed(s) \/ Fail(s)
    BY <1>2 DEF RequestStep, Select, UseFresh, BeginRefresh, Call,
       ProviderGrants, ProviderRefuses, RefreshFails, ApplyGrant, ApplyRefusal, OpenFile,
       FileFails, WriteFile, WriteDb, InsertBack, Serve, DisableFile, DisableDb, Cancel,
       AfterFile, AfterDisableFile, EndSave
  <2>2. TakeOver(s) \/ Succeed(s) \/ Fail(s) => Unlock(s) /\ pc'[s] \notin Critical
    BY DEF TypeOK, TakeOver, Succeed, Fail
  <2> QED
    BY <1>1, <2>1, <2>2
<1>3. CASE Revoke \/ ReloadRead \/ ReloadMerge \/ CleanupTick \/ Tick \/ UNCHANGED vars
  BY <1>3 DEF Revoke, ReloadRead, ReloadMerge, CleanupTick, Tick, vars
<1>4. ~ Restart
  BY DEF Restart
<1> QED
  BY <1>2, <1>3, <1>4 DEF Next

\* Lemma: every step keeps the file in line with the row being written.
LEMMA SavedFileStep ==
  ASSUME TypeOK, Equipped, OnRegistry, OneHolder, SavedFile, [Next]_vars
  PROVE  SavedFile'
<1> SUFFICES ASSUME NEW r \in Requests, ~ pruned', pc'[r] = "saving_db", response'[r].rotated
             PROVE  file'.rt = response'[r].rt
  BY DEF SavedFile
<1> USE DEF TypeOK, Critical
<1>1. ASSUME WriteFile(r)
      PROVE  file'.rt = response'[r].rt
  <2>1. response[r] \in Answers /\ response'[r] = response[r]
    BY <1>1 DEF WriteFile, AfterFile, EndSave, Succeed, Fail, Equipped, Saving, mine
  <2>2. Written(file, response[r]).rt = response[r].rt
    BY <2>1, RenewedFields, ClockType DEF Written
  <2> QED
    BY <1>1, <2>1, <2>2 DEF WriteFile
<1>2. ASSUME pc[r] = "saving_db", UNCHANGED response[r], file'.rt = file.rt
      PROVE  file'.rt = response'[r].rt
  BY <1>2, PrunedStays DEF SavedFile
<1>3. ASSUME pc[r] # "saving_db"
      PROVE  WriteFile(r)
  BY <1>3 DEF Next, RequestStep, Select, UseFresh, BeginRefresh, TakeOver, Call,
     ProviderGrants, ProviderRefuses, RefreshFails, ApplyGrant, ApplyRefusal, OpenFile,
     FileFails, WriteFile, WriteDb, InsertBack, Serve, DisableFile, DisableDb, Cancel,
     AfterFile, AfterDisableFile, EndSave, Succeed, Fail, Revoke, ReloadRead, ReloadMerge,
     CleanupTick, Restart, Tick, vars
<1>4. ASSUME pc[r] = "saving_db"
      PROVE  UNCHANGED response[r] /\ file'.rt = file.rt
  <2>1. \A s \in Requests : pc[s] \in Critical => s = r
    BY <1>4, PrunedStays, OneAtATime DEF OneRefresher
  <2> QED
    BY <1>4, <2>1 DEF Next, RequestStep, Select, UseFresh, BeginRefresh, TakeOver, Call,
     ProviderGrants, ProviderRefuses, RefreshFails, ApplyGrant, ApplyRefusal, OpenFile,
     FileFails, WriteFile, WriteDb, InsertBack, Serve, DisableFile, DisableDb, Cancel,
     AfterFile, AfterDisableFile, EndSave, Succeed, Fail, Unlock, Revoke, ReloadRead, ReloadMerge,
     CleanupTick, Restart, Tick, vars, store, mine
<1> QED
  BY <1>1, <1>2, <1>3, <1>4

-----------------------------------------------------------------------------

\* The inductive invariant.
IInv ==
  /\ TypeOK /\ Equipped
  /\ OnRegistry /\ OneHolder
  /\ Truthful /\ InTime /\ Alive
  /\ SavedFile

\* Lemma: a start-up satisfies the invariant.
LEMMA InitIInv == Init => IInv
<1> SUFFICES ASSUME Init PROVE IInv
  OBVIOUS
<1> USE TokenRefreshAssumption DEF Init
<1>1. PICK e \in InitialExpiries :
        /\ entry = [rt |-> 0, expires |-> e, ts |-> e]
        /\ file = [rt |-> 0, expires |-> e, ts |-> e, disabled |-> FALSE]
  OBVIOUS
<1>2. e \in Time /\ 0 \in Time /\ 0 \in Generations /\ 0 \in 0 .. MaxTime
  BY DEF Time, Generations
<1>3. entry \in Credentials /\ file \in Record /\ db \in Record
  BY <1>1, <1>2 DEF Credentials, Record
<1>4. read_at \in [Requests -> 0 .. MaxTime]
  BY <1>2
<1>5. TypeOK
  BY <1>2, <1>3, <1>4 DEF TypeOK
<1>6. Equipped /\ OnRegistry /\ OneHolder /\ InTime /\ Alive /\ SavedFile
  BY DEF Equipped, OnRegistry, OneHolder, InTime, Alive, SavedFile, Saving, Awaiting, Critical
<1>7. Truthful
  BY <1>1, <1>2 DEF Truthful, Honest, Time
<1> QED
  BY <1>5, <1>6, <1>7 DEF IInv

\* In every reachable state the inductive invariant holds: what requests hold,
\* whose mutex they use, how old their clock readings are, what the file has.
THEOREM Invariance == Spec => []IInv
<1>1. Init => IInv
  BY InitIInv
<1>2. IInv /\ [Next]_vars => IInv'
  BY TypeStep, LockStep, ClockStep, SavedFileStep DEF IInv
<1> QED
  BY <1>1, <1>2, PTL DEF Spec

\* The types of the refresh state are right for any number of requests.
THEOREM TypeCorrect == Spec => []TypeOK
<1>1. IInv => TypeOK
  BY DEF IInv
<1> QED
  BY <1>1, Invariance, PTL

\* One request at a time refreshes the account unless the registry's mutex was
\* pruned (token_refresh.rs: the per-account refresh lock).
THEOREM OneRefresherAlways == Spec => []OneRefresher
<1>1. IInv => OneRefresher
  BY OneAtATime DEF IInv
<1> QED
  BY <1>1, Invariance, PTL

\* No request gets an expired access token, whichever way it came by it.
THEOREM AliveAlways == Spec => []HandedOutAlive
<1>1. IInv => HandedOutAlive
  BY DEF IInv, Alive, HandedOutAlive
<1> QED
  BY <1>1, Invariance, PTL

\* A refresh that rotated the token and reports success has saved it in every
\* configured store (persistence.rs: the dual write and its errors).
THEOREM RotationSafe == Spec => RotationPersisted
<1>1. ASSUME IInv, [Next]_vars, NEW r \in Requests,
             pc[r] \in Critical, pc'[r] = "refreshed", response[r].rotated, ~ pruned
      PROVE  file'.rt = response[r].rt /\ (UseDb => db'.rt = response[r].rt)
  <2> USE DEF IInv, TypeOK, Critical
  <2>1. RequestStep(r)
    BY <1>1 DEF Next, RequestStep, Select, UseFresh, BeginRefresh, TakeOver, Call,
     ProviderGrants, ProviderRefuses, RefreshFails, ApplyGrant, ApplyRefusal, OpenFile,
     FileFails, WriteFile, WriteDb, InsertBack, Serve, DisableFile, DisableDb, Cancel,
     AfterFile, AfterDisableFile, EndSave, Succeed, Fail, Revoke, ReloadRead, ReloadMerge,
     CleanupTick, Restart, Tick, vars
  <2>2. ~ Fail(r)
    BY <1>1 DEF Fail
  <2>3. FileFails(r) \/ WriteFile(r) \/ WriteDb(r)
    BY <1>1, <2>1, <2>2 DEF RequestStep, UseFresh, BeginRefresh, TakeOver, Call,
     ProviderGrants, ProviderRefuses, RefreshFails, ApplyGrant, ApplyRefusal, OpenFile,
     InsertBack, Serve, DisableFile, DisableDb, Cancel, AfterDisableFile
  <2>4. ~ EndSave(r, FALSE)
    BY <1>1, <2>2 DEF EndSave
  <2>5. ~ FileFails(r)
    BY <1>1, <2>4 DEF FileFails, AfterFile
  <2>6. response[r] \in Answers /\ now + Lifetime \in Time
    BY <1>1, <2>3, <2>5, ClockType DEF Equipped, Saving, WriteFile, WriteDb
  <2>7. /\ Written(file, response[r]).rt = response[r].rt
        /\ Written(db, response[r]).rt = response[r].rt
    BY <1>1, <2>6, RenewedFields DEF Written
  <2>8. CASE WriteFile(r)
    <3>1. ~ UseDb
      BY <1>1, <2>8 DEF WriteFile, AfterFile
    <3> QED
      BY <2>7, <2>8, <3>1 DEF WriteFile
  <2>9. CASE WriteDb(r)
    <3>1. pc[r] = "saving_db" /\ db' = Written(db, response[r]) /\ UNCHANGED file
      BY <2>4, <2>9 DEF WriteDb
    <3>2. file.rt = response[r].rt
      BY <1>1, <3>1 DEF SavedFile
    <3> QED
      BY <2>7, <3>1, <3>2
  <2> QED
    BY <2>3, <2>5, <2>8, <2>9
<1>2. IInv /\ [Next]_vars =>
        [\A r \in Requests :
           /\ pc[r] \in Critical /\ pc'[r] = "refreshed"
           /\ response[r].rotated
           /\ ~ pruned
           => /\ file'.rt = response[r].rt
              /\ UseDb => db'.rt = response[r].rt]_vars
  BY <1>1
<1> QED
  BY <1>2, Invariance, PTL DEF Spec, RotationPersisted

=============================================================================
