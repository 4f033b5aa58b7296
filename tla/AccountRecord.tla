---------------------------- MODULE AccountRecord ----------------------------
(***************************************************************************)
(* What is stored of one account, and who writes it: quota fetches         *)
(* (modules/account/fetch.rs) begun by the quota job, the warm-up or the   *)
(* API, and changes by the user: the proxy switch, the account's proxy, a  *)
(* new login; and requests, which store a refreshed token, a project or    *)
(* the end of a refused account. With PostgreSQL a fetch writes the columns it has news of    *)
(* (account_pg_targeted.rs); with files it writes the whole account it was *)
(* given, changed by what it has fetched so far. A user's switch writes    *)
(* all of a row or file it read before.                                    *)
(*                                                                         *)
(* A value is named by the writer it comes from; "first" is what was there *)
(* at the start. A fetch never stores a new refresh token: ensure_fresh_   *)
(* token keeps the old one.                                                *)
(***************************************************************************)
EXTENDS Naturals

CONSTANTS Parties,   \* the writers; each runs once
          Casts      \* who they may be: a set of functions to "fetch", "user", "request" or "absent"

AccountRecordAssumption == Casts \subseteq [Parties -> {"fetch", "user", "request", "absent"}]

Fields == {"access", "project", "name", "quota", "guard", "disabled", "switch", "proxy"}
Values == {"first"} \union Parties
Waiting == [at |-> "start", seen |-> [f \in Fields |-> "first"], fresh |-> {}]

Ended == [Waiting EXCEPT !.at = "end"]

VARIABLES arMode,      \* "database" or "file"
          arCast,      \* who each writer is
          arStore,     \* the row, or the file
          arParty,     \* where each writer is, the account it read, what it fetched
          arMeant,     \* history: the newest value anyone saved of each field
          arSince,     \* history: fields others have saved since a writer read
          arLost       \* history: fields overwritten by a writer that read before, and by whom

arVars == <<arMode, arCast, arStore, arParty, arMeant, arSince, arLost>>

Init == /\ arMode \in {"database", "file"} /\ arCast \in Casts
        /\ arStore = [f \in Fields |-> "first"] /\ arMeant = arStore
        /\ arParty = [p \in Parties |-> IF arCast[p] = "absent" THEN Ended ELSE Waiting]
        /\ arSince = [p \in Parties |-> {}] /\ arLost = {}

-----------------------------------------------------------------------------
At(p, place) == arParty[p].at = place
Go(p, place) == arParty' = [arParty EXCEPT ![p].at = place]
End(p) == arParty' = [arParty EXCEPT ![p] = Ended]

(* list_accounts, get_account, load_account: a copy of the account.        *)
Read(p, place) ==
    /\ arParty' = [arParty EXCEPT ![p].at = place, ![p].seen = arStore]
    /\ arSince' = [arSince EXCEPT ![p] = {}]
    /\ UNCHANGED <<arMode, arCast, arStore, arMeant, arLost>>

(* One transaction, or one file: p writes the fields of record, of which   *)
(* those in news hold what p brings and the others what it read.           *)
Save(p, fields, record, news) ==
    /\ arStore' = [f \in Fields |-> IF f \in fields THEN record[f] ELSE arStore[f]]
    /\ arMeant' = [f \in Fields |-> IF f \in news THEN p ELSE arMeant[f]]
    /\ arLost' = {l \in arLost \union ((arSince[p] \intersect fields) \X {arCast[p]}) : l[1] \notin news}
    /\ arSince' = [q \in Parties |-> IF arParty'[q].at \in {"start", "end"} THEN {}
                                      ELSE IF q = p THEN arSince[q] ELSE arSince[q] \union news]
    /\ UNCHANGED <<arMode, arCast>>

SaveFails == UNCHANGED <<arMode, arCast, arStore, arMeant, arSince, arLost>>

Changed(p, news) == [f \in Fields |-> IF f \in news THEN p ELSE arParty[p].seen[f]]

-----------------------------------------------------------------------------
(* The fetch. A writer of files puts in what it fetched before: the new    *)
(* token into the name's file, token and name into the quota's.            *)
TokenNews(p) == {"access"}
NameNews(p) == {"name"} \union (arParty[p].fresh \intersect {"access"})

(* Mutant of QuotaNews: the account as it was given, with the quota only.  *)
QuotaAlone(p) == {"quota"} \union (arParty[p].fresh \intersect {"project"})

QuotaNews(p) == {"quota"} \union arParty[p].fresh

(* update_quota: the quota's row, and its tier.                            *)
QuotaColumn == {"quota"}

Persist(p, column, news) ==
    IF arMode = "database" THEN Save(p, column, Changed(p, column), column)
    ELSE Save(p, Fields, Changed(p, news), news \union arParty[p].fresh)

BeginFetch(p) == /\ At(p, "start") /\ Read(p, "token")

(* ensure_fresh_token: still fresh, refreshed, refused for good            *)
(* (invalid_grant: the account is disabled), or failed.                    *)
TokenStillFresh(p) == At(p, "token") /\ Go(p, "name") /\ SaveFails
TokenRefreshed(p) ==
    /\ At(p, "token")
    /\ arParty' = [arParty EXCEPT ![p].at = "name", ![p].fresh = @ \union {"access"}]
    /\ Persist(p, {"access"}, TokenNews(p)) \/ SaveFails
TokenRefused(p) ==
    /\ At(p, "token") /\ End(p)
    /\ Persist(p, {"disabled"}, {"disabled"}) \/ SaveFails
TokenFailed(p) == At(p, "token") /\ End(p) /\ SaveFails

(* The name is asked for only where it is missing, and may stay unknown.   *)
NameKnown(p) == At(p, "name") /\ Go(p, "quota") /\ SaveFails
NameFetched(p) ==
    /\ At(p, "name") /\ arParty[p].seen["name"] = "first"
    /\ arParty' = [arParty EXCEPT ![p].at = "quota", ![p].fresh = @ \union {"name"}]
    /\ Persist(p, {"name"}, NameNews(p)) \/ SaveFails

(* persist_quota_data: with a database the quota, then a new project; with *)
(* files one write. Then the caller stores the quota once more.            *)
QuotaFetched(p) ==
    /\ At(p, "quota")
    /\ \E project \in BOOLEAN :
        /\ arParty' = [arParty EXCEPT ![p].at = IF project /\ arMode = "database" THEN "project" ELSE "again",
                                      ![p].fresh = IF project THEN @ \union {"project"} ELSE @]
        /\ \/ Persist(p, QuotaColumn, QuotaNews(p) \union (IF project THEN {"project"} ELSE {}))
           \/ SaveFails
QuotaFailed(p) == At(p, "quota") /\ End(p) /\ SaveFails
SaveProject(p) ==
    /\ At(p, "project") /\ Go(p, "again")
    /\ Persist(p, {"project"}, {"project"}) \/ SaveFails

(* The callers: persist_quota of the jobs reads the row's protected models *)
(* and writes them back with the quota; the API's refresh leaves them. On  *)
(* files update_account_quota reads the file again and decides which       *)
(* models to protect, under ACCOUNT_INDEX_LOCK.                            *)
IndexLocked == \E q \in Parties : At(q, "locked")
StoreAgain(p) ==
    /\ At(p, "again")
    /\ IF arMode = "file" THEN ~IndexLocked /\ Read(p, "locked")
       ELSE \/ Read(p, "copy")
            \/ /\ End(p)
               /\ Save(p, QuotaColumn, Changed(p, QuotaColumn), QuotaColumn) \/ SaveFails
CopyProtected(p) ==
    /\ At(p, "copy") /\ End(p)
    /\ Save(p, {"quota", "guard"}, Changed(p, {"quota"}), {"quota"}) \/ SaveFails
UpdateQuotaFile(p) ==
    /\ At(p, "locked") /\ arCast[p] = "fetch" /\ End(p)
    /\ \/ SaveFails
       \/ \E news \in {{"quota"}, {"quota", "guard"}} : Save(p, Fields, Changed(p, news), news)

FetchStep(p) ==
    \/ BeginFetch(p) \/ TokenStillFresh(p) \/ TokenRefreshed(p) \/ TokenRefused(p) \/ TokenFailed(p)
    \/ NameKnown(p) \/ NameFetched(p) \/ QuotaFetched(p) \/ QuotaFailed(p) \/ SaveProject(p)
    \/ StoreAgain(p) \/ CopyProtected(p) \/ UpdateQuotaFile(p)

-----------------------------------------------------------------------------
(* toggle_proxy_status: the account is read, changed, and written whole;   *)
(* update_account leaves the quota's table and the proxy column alone.     *)
BeginSwitch(u) == At(u, "start") /\ Read(u, "switch")
RowColumns == Fields \ {"quota", "proxy"}
WriteSwitch(u) ==
    /\ At(u, "switch") /\ End(u)
    /\ \/ Save(u, IF arMode = "database" THEN RowColumns ELSE Fields, Changed(u, {"switch"}), {"switch"})
       \/ SaveFails

(* The account's proxy is set or removed: a column, or the file read and   *)
(* written (persist_proxy_url).                                            *)
ProxyColumn == {"proxy"}
BeginProxy(u) ==
    /\ At(u, "start")
    /\ IF arMode = "file" THEN Read(u, "proxy")
       ELSE /\ End(u)
            /\ Save(u, ProxyColumn, Changed(u, ProxyColumn), ProxyColumn) \/ SaveFails
WriteProxyFile(u) ==
    /\ At(u, "proxy") /\ End(u)
    /\ Save(u, Fields, Changed(u, {"proxy"}), {"proxy"}) \/ SaveFails

(* upsert_account: a login brings a token (with no project yet) and a      *)
(* name. The row stays disabled; the file is read and written under the    *)
(* index lock, and enables the account again.                              *)
LoginNews(u) == {"access", "project", "name"}
BeginLogin(u) ==
    /\ At(u, "start")
    /\ IF arMode = "file" THEN ~IndexLocked /\ Read(u, "locked")
       ELSE /\ End(u)
            /\ Save(u, LoginNews(u), Changed(u, LoginNews(u)), LoginNews(u)) \/ SaveFails
WriteLoginFile(u) ==
    LET news == IF arParty[u].seen["disabled"] # "first" THEN LoginNews(u) \union {"disabled"} ELSE LoginNews(u)
    IN  /\ At(u, "locked") /\ arCast[u] = "user" /\ End(u)
        /\ Save(u, Fields, Changed(u, news), news) \/ SaveFails

UserStep(u) == BeginSwitch(u) \/ WriteSwitch(u) \/ BeginProxy(u) \/ WriteProxyFile(u)
               \/ BeginLogin(u) \/ WriteLoginFile(u)

-----------------------------------------------------------------------------
(* What a request stores (save_refreshed_token, save_project_id,           *)
(* disable_account): a column, or the file read and written, under a lock  *)
(* of its own that no fetch and no user takes.                             *)
RequestNews == {{"access"}, {"project"}, {"disabled"}}
BeginRequestSave(r) ==
    /\ At(r, "start")
    /\ IF arMode = "file" THEN Read(r, "request")
       ELSE /\ End(r)
            /\ (\E news \in RequestNews : Save(r, news, Changed(r, news), news)) \/ SaveFails
WriteRequestFile(r) ==
    /\ At(r, "request") /\ End(r)
    /\ (\E news \in RequestNews : Save(r, Fields, Changed(r, news), news)) \/ SaveFails

Rest == (\A p \in Parties : At(p, "end")) /\ UNCHANGED arVars

Next == \/ \E p \in Parties : arCast[p] = "fetch" /\ FetchStep(p)
        \/ \E u \in Parties : arCast[u] = "user" /\ UserStep(u)
        \/ \E r \in Parties : arCast[r] = "request" /\ (BeginRequestSave(r) \/ WriteRequestFile(r))
        \/ Rest

Spec == Init /\ [][Next]_arVars

-----------------------------------------------------------------------------
TypeOK == /\ arStore \in [Fields -> Values] /\ arMeant \in [Fields -> Values]
          /\ arLost \subseteq Fields \X {"fetch", "user", "request"} /\ arSince \in [Parties -> SUBSET Fields]

(* The newest value saved of a field is the one stored, unless a writer    *)
(* that had read the account before that save put the whole of it back     *)
(* since: a fetch never undoes its own saves (fetch.rs:328-331), and with  *)
(* PostgreSQL it undoes nobody's (fetch.rs:3, account_pg_targeted.rs:3-4). *)
FetchUndoesNothing ==
    /\ \A f \in Fields : arStore[f] = arMeant[f] \/ \E kind \in {"fetch", "user", "request"} : <<f, kind>> \in arLost
    /\ arMode = "database" => \A l \in arLost : l[2] = "user"
=============================================================================
