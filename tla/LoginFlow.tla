------------------------------ MODULE LoginFlow ------------------------------
(***************************************************************************)
(* Adding an account: by a login at Google (api/oauth.rs), whose state is  *)
(* handed out with the address, comes back through the browser's callback  *)
(* and perhaps a second time with the code the user pastes, or by refresh  *)
(* token (api/accounts.rs). A login may carry the proxy the account is to  *)
(* use; all logins here are for one account. Its file is written twice,    *)
(* with the tokens and then whole with the proxy. Each handler ends with a *)
(* reload of the accounts, which module TokenRefresh models.               *)
(***************************************************************************)
EXTENDS Naturals, FiniteSets

CONSTANTS Logins,
          ProxyUrls,
          MaxStates,    \* MAX_OAUTH_STATES
          ValidFor,     \* the states' lifetime, in units of the clock
          MaxTime       \* bound on the clock

LoginFlowAssumption == MaxTime \in Nat \ {0} /\ ValidFor \in Nat

None == "none"
Ways == {"callback", "submit", "token"}
Handlers == Logins \X Ways
NoState == [made |-> 0, proxy |-> None]
Nothing == [token |-> None, proxy |-> None]

VARIABLES lfMode,       \* "file" or "database"
          lfNow,
          lfPending,    \* oauth_states: the logins' states that wait for a code
          lfIssued,     \* history: logins that were given an address, or a refresh token
          lfHandler,    \* each handler: where it is, its proxy, the account it saved
          lfFile, lfRow,    \* the account as stored: whose token, which proxy
          lfExchanged,  \* history: how often each login's code was exchanged
          lfBrought     \* history: the proxy each login saved its account with, if it could

lfVars == <<lfMode, lfNow, lfPending, lfIssued, lfHandler, lfFile, lfRow,
            lfExchanged, lfBrought>>

Idle == [at |-> "idle", proxy |-> None, account |-> Nothing]
Init == /\ lfMode \in {"file", "database"} /\ lfNow = 1
        /\ lfPending = [l \in Logins |-> NoState] /\ lfIssued = {}
        /\ lfHandler = [h \in Handlers |-> Idle]
        /\ lfFile = Nothing /\ lfRow = Nothing
        /\ lfExchanged = [l \in Logins |-> 0] /\ lfBrought = [l \in Logins |-> None]

-----------------------------------------------------------------------------
Stored == <<lfFile, lfRow, lfExchanged, lfBrought>>
Waits(l) == lfPending[l].made # 0
Valid(l) == Waits(l) /\ lfNow < lfPending[l].made + ValidFor
OnlyValid == [l \in Logins |-> IF Valid(l) THEN lfPending[l] ELSE NoState]
Count(pending) == Cardinality({l \in Logins : pending[l].made # 0})
Choices == ProxyUrls \union {None}

Tick == lfNow < MaxTime /\ lfNow' = lfNow + 1
        /\ UNCHANGED <<lfMode, lfPending, lfIssued, lfHandler, Stored>>

(* start_oauth_login with the proxy asked for or assigned from the pool;   *)
(* get_oauth_url with none. A full table first drops what has expired and, *)
(* still full, everything.                                                 *)
Issue(l, proxy) ==
    LET left == IF Count(lfPending) < MaxStates THEN lfPending
                ELSE IF Count(OnlyValid) < MaxStates THEN OnlyValid
                ELSE [k \in Logins |-> NoState]
    IN  /\ l \notin lfIssued /\ lfIssued' = lfIssued \union {l}
        /\ lfPending' = [left EXCEPT ![l] = [made |-> lfNow, proxy |-> proxy]]
        /\ UNCHANGED <<lfMode, lfNow, lfHandler, Stored>>

CleanUp == /\ lfPending' = OnlyValid
           /\ UNCHANGED <<lfMode, lfNow, lfIssued, lfHandler, Stored>>

-----------------------------------------------------------------------------
At(h, place) == lfHandler[h].at = place
Go(h, place) == lfHandler' = [lfHandler EXCEPT ![h].at = place]
End(h) == lfHandler' = [lfHandler EXCEPT ![h] = [Idle EXCEPT !.at = "end"]]
Flow == UNCHANGED <<lfMode, lfNow, lfPending, lfIssued>>

(* validate_oauth_state takes the state out of the table. A callback may   *)
(* bring an error or no code.                                              *)
(* Mutant of Taken: the state is looked up and left for the cleanup.       *)
Looked(l) == lfPending
Taken(l) == [lfPending EXCEPT ![l] = NoState]
Validate(l, way) ==
    /\ l \in lfIssued /\ way # "token" /\ At(<<l, way>>, "idle")
    /\ \/ /\ Valid(l)
          /\ lfHandler' = [lfHandler EXCEPT ![<<l, way>>] = [Idle EXCEPT !.at = "exchange", !.proxy = lfPending[l].proxy]]
       \/ (~Valid(l) \/ way = "callback") /\ End(<<l, way>>)
    /\ lfPending' = Taken(l)
    /\ UNCHANGED <<lfMode, lfNow, lfIssued, Stored>>

(* add_account_by_token needs no state.                                    *)
AddByToken(l, proxy) ==
    /\ l \notin lfIssued /\ lfIssued' = lfIssued \union {l}
    /\ lfHandler' = [lfHandler EXCEPT ![<<l, "token">>] = [Idle EXCEPT !.at = "exchange", !.proxy = proxy]]
    /\ UNCHANGED <<lfMode, lfNow, lfPending, Stored>>

(* The code, or refresh token, is exchanged and the user looked up, both   *)
(* through the login's proxy; either may fail.                             *)
Exchange(h) ==
    /\ At(h, "exchange")
    /\ \/ Go(h, IF h[2] = "token" /\ lfMode = "database" THEN "row" ELSE "file")
       \/ End(h)
    /\ lfExchanged' = [lfExchanged EXCEPT ![h[1]] = @ + 1]
    /\ Flow /\ UNCHANGED <<lfFile, lfRow, lfBrought>>

(* upsert_account on files: the tokens change, the proxy stays.            *)
UpsertFile(h) ==
    LET account == [lfFile EXCEPT !.token = h[1]] IN
    /\ At(h, "file")
    /\ \/ /\ lfFile' = account
          /\ lfHandler' = [lfHandler EXCEPT ![h].at = IF lfMode = "database" THEN "row" ELSE "proxy",
                                            ![h].account = account]
       \/ End(h) /\ UNCHANGED lfFile
    /\ Flow /\ UNCHANGED <<lfRow, lfExchanged, lfBrought>>

(* The row: a login only warns when it fails, an added token ends.         *)
UpsertRow(h) ==
    /\ At(h, "row")
    /\ \/ /\ lfRow' = [lfRow EXCEPT !.token = h[1]]
          /\ lfHandler' = [lfHandler EXCEPT ![h].at = "row proxy",
                              ![h].account = IF h[2] = "token" THEN lfRow' ELSE @]
       \/ (IF h[2] = "token" THEN End(h) ELSE Go(h, "row proxy")) /\ UNCHANGED lfRow
    /\ Flow /\ UNCHANGED <<lfFile, lfExchanged, lfBrought>>

(* A login looks the row up under the file's id and finds none; an added   *)
(* token has the row's own id. Failures are logged.                        *)
RowProxy(h) ==
    /\ At(h, "row proxy") /\ Go(h, "proxy")
    /\ lfRow' \in IF h[2] = "token" /\ lfHandler[h].proxy # None
                  THEN {lfRow, [lfRow EXCEPT !.proxy = lfHandler[h].proxy]} ELSE {lfRow}
    /\ Flow /\ UNCHANGED <<lfFile, lfExchanged, lfBrought>>

(* The account as it was saved, with the proxy, over the whole file; where *)
(* the row was saved, into a file under the row's id that is not read.     *)
(* Mutant of WithProxy: an account that has a proxy keeps it.              *)
FillProxy(h) == [lfHandler[h].account EXCEPT !.proxy = IF @ = None THEN lfHandler[h].proxy ELSE @]
WithProxy(h) == [lfHandler[h].account EXCEPT !.proxy = lfHandler[h].proxy]
SaveProxy(h) ==
    /\ At(h, "proxy") /\ End(h)
    /\ \/ /\ lfHandler[h].proxy # None /\ (h[2] = "token" => lfMode = "file")
          /\ lfFile' = WithProxy(h)
          /\ lfBrought' = [lfBrought EXCEPT ![h[1]] = lfHandler[h].proxy]
       \/ UNCHANGED <<lfFile, lfBrought>>
    /\ Flow /\ UNCHANGED <<lfRow, lfExchanged>>

Next == \/ Tick \/ CleanUp
        \/ \E l \in Logins, proxy \in Choices : Issue(l, proxy) \/ AddByToken(l, proxy)
        \/ \E l \in Logins, way \in Ways : Validate(l, way)
        \/ \E h \in Handlers : \/ Exchange(h) \/ UpsertFile(h) \/ UpsertRow(h)
                               \/ RowProxy(h) \/ SaveProxy(h)

Spec == Init /\ [][Next]_lfVars

-----------------------------------------------------------------------------
TypeOK == /\ lfPending \in [Logins -> [made : 0 .. MaxTime, proxy : Choices]]
          /\ \A a \in {lfFile, lfRow} : a \in [token : Logins \union {None}, proxy : Choices]
          /\ lfExchanged \in [Logins -> Nat] /\ lfBrought \in [Logins -> Choices]

(* A login's code is exchanged once, although the browser's callback and   *)
(* the pasted code bring the same state (accessors.rs:214-225); and on     *)
(* files a token is never left with another proxy than the one it was      *)
(* obtained through and saved with (oauth.rs:164, accounts.rs:166-168).    *)
UsedOnce == \A l \in Logins : lfExchanged[l] <= 1
AtRest == \A h \in Handlers : lfHandler[h].at \in {"idle", "end"}
TokenKeepsProxy ==
    lfMode = "file" /\ AtRest
        => \A l \in Logins : lfFile.token = l /\ lfBrought[l] # None => lfFile.proxy = lfBrought[l]
LoginsSound == UsedOnce /\ TokenKeepsProxy
=============================================================================
