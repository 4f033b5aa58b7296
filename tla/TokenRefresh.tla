--------------------------- MODULE TokenRefresh ---------------------------
(***************************************************************************)
(* The life of one account's OAuth credentials: TokenManager::             *)
(* try_refresh_token under its per-account lock, the dual write to the     *)
(* JSON file and to PostgreSQL, the disabling of an account the provider   *)
(* refuses, the 60 s reload that merges the store back into memory, the    *)
(* 60 s cleanup that prunes the lock registry, cancellation by the 5 s     *)
(* acquisition timeout, and a restart.                                     *)
(*                                                                         *)
(* A refresh token is its generation number: the provider accepts only the *)
(* newest one it issued.  An access token is the instant it really         *)
(* expires.  A stored credential also has the expiry the program wrote     *)
(* down (ts), and the two may differ.                                      *)
(***************************************************************************)
EXTENDS Naturals
LOCAL INSTANCE TLC

CONSTANTS
  Requests,       \* requests that select this account
  RefreshLocks,   \* identities of the mutexes the registry hands out
  REFRESH_BUFFER, \* REFRESH_BUFFER_SECS, in ticks
  Lifetime,       \* expires_in of a refreshed access token, in ticks
  InitialExpiries,\* when the first access token may expire
  UseDb,          \* whether a repository is configured (PostgreSQL)
  OtherAccounts,  \* whether the store holds other, enabled accounts
  MaxTime,        \* bound: the clock stops here
  MaxRotations,   \* bound: refresh tokens issued beyond the first
  Revoked,        \* the provider accepts no refresh token any more
  Null            \* no entry, no lock, no answer, nothing read

ASSUME TokenRefreshAssumption ==
  /\ REFRESH_BUFFER \in Nat /\ REFRESH_BUFFER >= 2
  /\ Lifetime \in Nat /\ Lifetime >= 2
  /\ MaxTime \in Nat /\ MaxRotations \in Nat
  /\ InitialExpiries \subseteq 0 .. Lifetime
  /\ UseDb \in BOOLEAN /\ OtherAccounts \in BOOLEAN
  /\ Revoked \notin Nat /\ Null \notin RefreshLocks

VARIABLES
  now,            \* the wall clock, in ticks
  provider,       \* the refresh-token generation the provider accepts
  entry,          \* tokens[account_id], or Null
  file,           \* the account's JSON file
  db,             \* the account's row
  refresh_lock,   \* refresh_locks[account_id], or Null
  pc,             \* where each request is
  token,          \* each request's own clone of the ProxyToken
  read_at,        \* the clock each request read when it began to refresh
  lock,           \* the mutex each request cloned out of the registry
  response,       \* the provider's answer each request is working on
  reload,         \* what the running reload has read, or Null
  pruned          \* history: the registry dropped a mutex somebody was using

store == <<file, db>>
mine == <<token, read_at, lock, response>>
vars == <<now, provider, entry, store, refresh_lock, pc, mine, reload, pruned>>

Time == 0 .. MaxTime + Lifetime
Generations == 0 .. MaxRotations

Credentials == [rt : Generations, expires : Time, ts : Time]
Record == [rt : Generations, expires : Time, ts : Time, disabled : BOOLEAN]
Answers == [granted : BOOLEAN, expires : Time, rotated : BOOLEAN, rt : Generations]

\* Positions inside try_refresh_token, while the refresh lock is held.
Critical == {"calling", "answered", "opening_file", "writing_file", "saving_db",
             "saving_db_alone", "disabling_file", "disabling_db"}

\* Positions at an await: the 5 s timeout may drop the future here.
Awaiting == Critical \cup {"locking"}

TypeOK ==
  /\ now \in 0 .. MaxTime
  /\ provider \in Generations \cup {Revoked}
  /\ entry \in Credentials \cup {Null}
  /\ file \in Record /\ db \in Record
  /\ refresh_lock \in RefreshLocks \cup {Null}
  /\ pc \in [Requests -> Awaiting \cup {"idle", "selected", "refreshed", "ready"}]
  /\ token \in [Requests -> Credentials \cup {Null}]
  /\ read_at \in [Requests -> 0 .. MaxTime]
  /\ lock \in [Requests -> RefreshLocks \cup {Null}]
  /\ response \in [Requests -> Answers \cup {Null}]
  /\ reload \in Record \cup {Null}
  /\ pruned \in BOOLEAN

\* The account as it is after a start-up: memory, file and row agree.
Init ==
  /\ now = 0
  /\ provider = 0
  /\ \E e \in InitialExpiries :
        /\ entry = [rt |-> 0, expires |-> e, ts |-> e]
        /\ file = [rt |-> 0, expires |-> e, ts |-> e, disabled |-> FALSE]
  /\ db = file
  /\ refresh_lock = Null
  /\ pc = [r \in Requests |-> "idle"]
  /\ token = [r \in Requests |-> Null]
  /\ read_at = [r \in Requests |-> 0]
  /\ lock = [r \in Requests |-> Null]
  /\ response = [r \in Requests |-> Null]
  /\ reload = Null
  /\ pruned = FALSE

-----------------------------------------------------------------------------

\* needs_refresh: now >= timestamp - REFRESH_BUFFER_SECS.
NeedsRefresh(t) == now + REFRESH_BUFFER >= t.ts

\* Where the accounts are loaded from.
Source == IF UseDb THEN db ELSE file

\* Variant of Loaded: the store's record goes into memory as it is.
LoadedWhole(rec) == rec

\* The credentials of a record, without the flag only the store has.
Loaded(rec) == [rt |-> rec.rt, expires |-> rec.expires, ts |-> rec.ts]

\* Credentials or a record with the fields of an answer and the expiry ts: the
\* refresh token changes only when the provider sent one.
Renewed(c, ans, ts) ==
  [c EXCEPT !.expires = ans.expires,
            !.ts = ts,
            !.rt = IF ans.rotated THEN ans.rt ELSE @]

\* In the stores the expiry is counted from the moment of the write.
Written(rec, ans) == Renewed(rec, ans, now + Lifetime)

\* Request r leaves try_refresh_token and drops its mutex.  Once nobody is
\* inside, a mutex pruned earlier no longer matters.
Unlock(r) ==
  /\ lock' = [lock EXCEPT ![r] = Null]
  /\ response' = [response EXCEPT ![r] = Null]
  /\ read_at' = [read_at EXCEPT ![r] = 0]
  /\ pruned' = (pruned /\ \E s \in Requests \ {r} : pc[s] \in Awaiting)

\* try_refresh_token returns Ok.
Succeed(r) ==
  /\ Unlock(r)
  /\ pc' = [pc EXCEPT ![r] = "refreshed"]
  /\ UNCHANGED token

\* try_refresh_token returns Err or is cancelled: the clone goes too.
Fail(r) ==
  /\ Unlock(r)
  /\ pc' = [pc EXCEPT ![r] = "idle"]
  /\ token' = [token EXCEPT ![r] = Null]

-----------------------------------------------------------------------------
(* Selecting the account.                                                   *)

\* A selection clones the entry (the snapshot of get_token_internal and of
\* get_token_forced).
Select(r) ==
  /\ pc[r] = "idle"
  /\ entry # Null
  /\ token' = [token EXCEPT ![r] = entry]
  /\ pc' = [pc EXCEPT ![r] = "selected"]
  /\ UNCHANGED <<now, provider, entry, store, refresh_lock, read_at, lock, response,
                 reload, pruned>>

\* The clone is fresh: it is used as it is.
UseFresh(r) ==
  /\ pc[r] = "selected"
  /\ ~ NeedsRefresh(token[r])
  /\ pc' = [pc EXCEPT ![r] = "ready"]
  /\ UNCHANGED <<now, provider, entry, store, refresh_lock, mine, reload, pruned>>

\* Variant of BeginRefresh: every request registers a mutex of its own.
BeginWithOwnLock(r) ==
  /\ pc[r] = "selected"
  /\ NeedsRefresh(token[r])
  /\ \E l \in RefreshLocks :
        /\ \A s \in Requests : lock[s] # l
        /\ refresh_lock' = l
        /\ lock' = [lock EXCEPT ![r] = l]
  /\ read_at' = [read_at EXCEPT ![r] = now]
  /\ pc' = [pc EXCEPT ![r] = "locking"]
  /\ UNCHANGED <<now, provider, entry, store, token, response, reload, pruned>>

\* try_refresh_token reads the clock and clones the account's mutex out of the
\* registry, creating it when it is missing.
BeginRefresh(r) ==
  /\ pc[r] = "selected"
  /\ NeedsRefresh(token[r])
  /\ \E l \in RefreshLocks :
        /\ IF refresh_lock = Null THEN \A s \in Requests : lock[s] # l
                                  ELSE l = refresh_lock
        /\ refresh_lock' = l
        /\ lock' = [lock EXCEPT ![r] = l]
  /\ read_at' = [read_at EXCEPT ![r] = now]
  /\ pc' = [pc EXCEPT ![r] = "locking"]
  /\ UNCHANGED <<now, provider, entry, store, token, response, reload, pruned>>

LockFree(r) == \A s \in Requests : pc[s] \in Critical => lock[s] # lock[r]

\* Variant of AlreadyRefreshed: the entry's expiry is not looked at.
AnyEntry(r) == entry # Null

\* The double check after the lock: the entry is fresh enough, counted from
\* the clock read before the wait.
AlreadyRefreshed(r) == entry # Null /\ entry.ts > read_at[r] + REFRESH_BUFFER

\* Another request has refreshed meanwhile: its credentials are taken over.
TakeOver(r) ==
  /\ pc[r] = "locking"
  /\ LockFree(r)
  /\ AlreadyRefreshed(r)
  /\ Unlock(r)
  /\ pc' = [pc EXCEPT ![r] = "refreshed"]
  /\ token' = [token EXCEPT ![r] = entry]
  /\ UNCHANGED <<now, provider, entry, store, refresh_lock, reload>>

\* The request holds the lock and calls the provider.
Call(r) ==
  /\ pc[r] = "locking"
  /\ LockFree(r)
  /\ ~ AlreadyRefreshed(r)
  /\ pc' = [pc EXCEPT ![r] = "calling"]
  /\ UNCHANGED <<now, provider, entry, store, refresh_lock, mine, reload, pruned>>

-----------------------------------------------------------------------------
(* The call to the provider and its answer.                                 *)

\* The provider accepts the newest refresh token, and may replace it.
ProviderGrants(r) ==
  /\ pc[r] = "calling"
  /\ token[r].rt = provider
  /\ \E rotates \in BOOLEAN :
        /\ rotates => provider < MaxRotations
        /\ provider' = IF rotates THEN provider + 1 ELSE provider
        /\ response' = [response EXCEPT ![r] =
             [granted |-> TRUE, expires |-> now + Lifetime, rotated |-> rotates,
              rt |-> provider']]
  /\ pc' = [pc EXCEPT ![r] = "answered"]
  /\ UNCHANGED <<now, entry, store, refresh_lock, token, read_at, lock,
                 reload, pruned>>

\* The provider refuses a token it replaced or revoked.
ProviderRefuses(r) ==
  /\ pc[r] = "calling"
  /\ token[r].rt # provider
  /\ response' = [response EXCEPT ![r] =
       [granted |-> FALSE, expires |-> 0, rotated |-> FALSE, rt |-> 0]]
  /\ pc' = [pc EXCEPT ![r] = "answered"]
  /\ UNCHANGED <<now, provider, entry, store, refresh_lock, token, read_at, lock, reload, pruned>>

\* The user withdraws the consent.
Revoke ==
  /\ provider # Revoked
  /\ provider' = Revoked
  /\ UNCHANGED <<now, entry, store, refresh_lock, pc, mine, reload, pruned>>

\* try_refresh_token returns Err and changes nothing: enforce_proxy blocks the
\* call, the connection fails, or the provider answers with another error.
\* The answer to a call that was granted can be lost too.
RefreshFails(r) ==
  /\ pc[r] \in {"calling", "answered"}
  /\ Fail(r)
  /\ UNCHANGED <<now, provider, entry, store, refresh_lock, reload>>

\* The answer arrives: the clone and the entry, when it is still there, take
\* the new credentials; their expiry is counted from the clock of the start.
ApplyGrant(r) ==
  /\ pc[r] = "answered"
  /\ response[r].granted
  /\ LET Renew(c) == Renewed(c, response[r], read_at[r] + Lifetime)
     IN /\ token' = [token EXCEPT ![r] = Renew(@)]
        /\ entry' = IF entry = Null THEN Null ELSE Renew(entry)
  /\ pc' = [pc EXCEPT ![r] = "opening_file"]
  /\ UNCHANGED <<now, provider, store, refresh_lock, read_at, lock, response, reload, pruned>>

\* invalid_grant: the account leaves memory and is then disabled.
ApplyRefusal(r) ==
  /\ pc[r] = "answered"
  /\ ~ response[r].granted
  /\ entry' = Null
  /\ pc' = [pc EXCEPT ![r] = "disabling_file"]
  /\ UNCHANGED <<now, provider, store, refresh_lock, mine, reload, pruned>>

-----------------------------------------------------------------------------
(* save_refreshed_token and disable_account: the file, then the row.  The   *)
(* file's read-modify-write runs under the account's file lock and replaces *)
(* the file by a rename, so it is one step.                                 *)

\* Variant of EndSave: a failure to save is only ever a warning.
EndSaveWarning(r, saved) == Succeed(r)

\* The refresh ends: a rotated refresh token that one of the stores did not
\* take is an error, any other failure to save only a warning.
EndSave(r, saved) ==
  IF saved \/ ~ response[r].rotated THEN Succeed(r) ELSE Fail(r)

\* The file's part is over; the row's follows when there is a repository.
AfterFile(r, saved) ==
  IF UseDb
    THEN /\ pc' = [pc EXCEPT ![r] = IF saved THEN "saving_db" ELSE "saving_db_alone"]
         /\ UNCHANGED <<mine, pruned>>
    ELSE EndSave(r, saved)

\* The path of the file is looked up in the entry.
OpenFile(r) ==
  /\ pc[r] = "opening_file"
  /\ entry # Null
  /\ pc' = [pc EXCEPT ![r] = "writing_file"]
  /\ UNCHANGED <<now, provider, entry, store, refresh_lock, mine, reload, pruned>>

\* No entry ("Account not found"), or the file cannot be read or written.
FileFails(r) ==
  /\ \/ pc[r] = "opening_file" /\ entry = Null
     \/ pc[r] = "writing_file"
  /\ AfterFile(r, FALSE)
  /\ UNCHANGED <<now, provider, entry, store, refresh_lock, reload>>

\* The file is replaced, and the entry gets the new credentials once more,
\* with the current time as its expiry.
WriteFile(r) ==
  /\ pc[r] = "writing_file"
  /\ file' = Written(file, response[r])
  /\ entry' = IF entry = Null THEN Null
              ELSE Renewed(entry, response[r], now)
  /\ AfterFile(r, TRUE)
  /\ UNCHANGED <<now, provider, db, refresh_lock, reload>>

\* update_token_credentials, which may fail.
WriteDb(r) ==
  /\ pc[r] \in {"saving_db", "saving_db_alone"}
  /\ \/ /\ db' = Written(db, response[r])
        /\ EndSave(r, pc[r] = "saving_db")
     \/ UNCHANGED db /\ EndSave(r, FALSE)
  /\ UNCHANGED <<now, provider, entry, file, refresh_lock, reload>>

\* The caller inserts its refreshed clone into tokens, unless it came by the
\* preferred account; then the request has its access token.
InsertBack(r) ==
  /\ pc[r] = "refreshed"
  /\ entry' \in {token[r], entry}
  /\ pc' = [pc EXCEPT ![r] = "ready"]
  /\ UNCHANGED <<now, provider, store, refresh_lock, mine, reload, pruned>>

\* The request is served, and its handler may select again.
Serve(r) ==
  /\ pc[r] = "ready"
  /\ pc' = [pc EXCEPT ![r] = "idle"]
  /\ token' = [token EXCEPT ![r] = Null]
  /\ UNCHANGED <<now, provider, entry, store, refresh_lock, read_at, lock, response,
                 reload, pruned>>

AfterDisableFile(r) ==
  IF UseDb
    THEN /\ pc' = [pc EXCEPT ![r] = "disabling_db"]
         /\ UNCHANGED <<mine, pruned>>
    ELSE Fail(r)

\* disable_account_in_file: the flag is written and the entry removed again, or
\* the file cannot be read or written, which is only logged.
DisableFile(r) ==
  /\ pc[r] = "disabling_file"
  /\ \/ file' = [file EXCEPT !.disabled = TRUE] /\ entry' = Null
     \/ UNCHANGED <<file, entry>>
  /\ AfterDisableFile(r)
  /\ UNCHANGED <<now, provider, db, refresh_lock, reload>>

\* set_account_disabled, which may fail (logged only); the refresh is an Err.
DisableDb(r) ==
  /\ pc[r] = "disabling_db"
  /\ \/ db' = [db EXCEPT !.disabled = TRUE]
     \/ UNCHANGED db
  /\ Fail(r)
  /\ UNCHANGED <<now, provider, entry, file, refresh_lock, reload>>

-----------------------------------------------------------------------------
(* What happens around the requests.                                        *)

\* The 5 s timeout or the client's disconnect drops the future at an await.
\* A write under way may still reach its store.
Cancel(r) ==
  /\ pc[r] \in Awaiting
  /\ \/ UNCHANGED store
     \/ /\ pc[r] = "writing_file"
        /\ file' = Written(file, response[r])
        /\ UNCHANGED db
     \/ /\ pc[r] \in {"saving_db", "saving_db_alone"}
        /\ db' = Written(db, response[r])
        /\ UNCHANGED file
  /\ Fail(r)
  /\ UNCHANGED <<now, provider, entry, refresh_lock, reload>>

\* The account sync reads the store.  A disabled account is not loaded.
ReloadRead ==
  /\ reload = Null
  /\ reload' = Source
  /\ UNCHANGED <<now, provider, entry, store, refresh_lock, pc, mine, pruned>>

\* Variant of ReloadMerge: accounts the load lacks stay in memory.
MergeKeepsMissing ==
  /\ reload # Null
  /\ entry' = IF ~ reload.disabled /\ (entry = Null \/ reload.ts > entry.ts)
               THEN Loaded(reload) ELSE entry
  /\ reload' = Null
  /\ UNCHANGED <<now, provider, store, refresh_lock, pc, mine, pruned>>

\* merge_tokens: an empty load keeps what is in memory; otherwise an account
\* the load lacks leaves memory, and one it has replaces the entry when its
\* expiry is later.
ReloadMerge ==
  /\ reload # Null
  /\ entry' =
       IF reload.disabled THEN IF OtherAccounts THEN Null ELSE entry
       ELSE IF entry = Null \/ reload.ts > entry.ts THEN Loaded(reload)
       ELSE entry
  /\ reload' = Null
  /\ UNCHANGED <<now, provider, store, refresh_lock, pc, mine, pruned>>

\* The cleanup tick drops the mutex of an account that is not in memory.
CleanupTick ==
  /\ refresh_lock # Null
  /\ entry = Null
  /\ refresh_lock' = Null
  /\ pruned' = (pruned \/ \E r \in Requests : pc[r] \in Awaiting)
  /\ UNCHANGED <<now, provider, entry, store, pc, mine, reload>>

\* The process dies and comes back: memory is rebuilt from the store.
Restart ==
  /\ entry' = IF Source.disabled THEN Null ELSE Loaded(Source)
  /\ pc' = [r \in Requests |-> "idle"]
  /\ lock' = [r \in Requests |-> Null]
  /\ response' = [r \in Requests |-> Null]
  /\ refresh_lock' = Null
  /\ reload' = Null
  /\ pruned' = FALSE
  /\ token' = [r \in Requests |-> Null]
  /\ read_at' = [r \in Requests |-> 0]
  /\ UNCHANGED <<now, provider, store>>

\* Time passes.  An acquisition is cut off after 5 s, far less than a tick, so
\* at most one tick falls into it, and the same holds for a reload.
Tick ==
  /\ now < MaxTime
  /\ \A r \in Requests : pc[r] \in Awaiting => read_at[r] = now
  /\ \A r \in Requests : pc[r] \notin {"selected", "refreshed", "ready"}
  /\ now' = now + 1
  /\ UNCHANGED <<provider, entry, store, refresh_lock, pc, mine, reload, pruned>>

RequestStep(r) ==
  \/ UseFresh(r) \/ BeginRefresh(r) \/ TakeOver(r) \/ Call(r)
  \/ ProviderGrants(r) \/ ProviderRefuses(r) \/ RefreshFails(r)
  \/ ApplyGrant(r) \/ ApplyRefusal(r)
  \/ OpenFile(r) \/ FileFails(r) \/ WriteFile(r) \/ WriteDb(r)
  \/ InsertBack(r) \/ Serve(r)
  \/ DisableFile(r) \/ DisableDb(r)
  \/ Cancel(r)

Next ==
  \/ \E r \in Requests : RequestStep(r) \/ Select(r)
  \/ Revoke \/ ReloadRead \/ ReloadMerge \/ CleanupTick \/ Restart \/ Tick

Spec == Init /\ [][Next]_vars

\* Tokio runs every request to its end (the timeout ends one that hangs), and
\* the sync task runs every 60 s.
Fairness ==
  /\ \A r \in Requests : WF_vars(RequestStep(r))
  /\ WF_vars(ReloadRead) /\ WF_vars(ReloadMerge)

FairSpec == Spec /\ Fairness

-----------------------------------------------------------------------------

\* An access token handed to a request has not expired, although its expiry is
\* counted from other clock readings than the provider's, copied between
\* requests and stores, and waited on: the 300 s buffer absorbs all of it.
HandedOutAlive ==
  \A r \in Requests : pc[r] = "ready" => token[r].expires > now

\* One request at a time refreshes the account, as long as the cleanup tick
\* has not pruned the mutex from under it.
OneRefresher ==
  ~ pruned =>
    \A r, s \in Requests : pc[r] \in Critical /\ pc[s] \in Critical => r = s

\* When a refresh that rotated the token reports success, every configured
\* store holds the new one: a restart right then does not lock the account
\* out.  (Once the cleanup has pruned the mutex, a second refresh may write in
\* between.)
RotationPersisted ==
  [][\A r \in Requests :
       /\ pc[r] \in Critical /\ pc'[r] = "refreshed"
       /\ response[r].rotated
       /\ ~ pruned
       => /\ file'.rt = response[r].rt
          /\ UseDb => db'.rt = response[r].rt]_vars

\* An account whose consent was withdrawn and that was disabled for it leaves
\* memory for good, although requests that cloned it earlier may still put it
\* back and a reload that read the store earlier may be under way.
RevokedStaysOut ==
  (provider = Revoked /\ Source.disabled) ~> [](entry = Null)

\* token_refresh.rs: "Acquire per-account refresh lock to prevent thundering
\* herd".  A request that held back for another's refresh does not call the
\* provider again while the access token in memory is fresh.
NoHerd ==
  [][\A r \in Requests :
       pc[r] = "locking" /\ pc'[r] = "calling"
         => entry = Null \/ entry.expires <= now + REFRESH_BUFFER]_vars


\* For TLC: requests are interchangeable, and so are the mutexes.
Symmetry == Permutations(Requests) \cup Permutations(RefreshLocks)

=============================================================================
