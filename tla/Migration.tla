------------------------------- MODULE Migration -------------------------------
(***************************************************************************)
(* The move of the accounts from JSON files into PostgreSQL at the start   *)
(* of the server (modules/json_migration.rs, called by main.rs), by one    *)
(* instance or by two that overlap during a deployment, with crashes       *)
(* between any two calls and failures of any of them, and the service's    *)
(* own edits of the rows before, during and after it.                      *)
(*                                                                         *)
(* A credential is the number of times it was renewed. The identifiers of  *)
(* rows are numbers, 0 for none: a file's identifier is never a row's.     *)
(***************************************************************************)
EXTENDS Naturals, Sequences, FiniteSets

CONSTANTS Instances,
          Files,      \* the index: a sequence of [email, kind : "ok", "missing" or "broken", off]
          Current,    \* the e-mail of the index's current account
          MaxCred, MaxIds, MaxCrashes     \* bounds

(* The index lists an e-mail once: upsert_account looks it up before it    *)
(* adds (AccountStore).                                                    *)
MigrationAssumption ==
    /\ Len(Files) \in Nat /\ DOMAIN Files = 1..Len(Files)
    /\ \A n \in DOMAIN Files : Files[n].kind \in {"ok", "missing", "broken"} /\ Files[n].off \in BOOLEAN
    /\ \A m, n \in DOMAIN Files : Files[m].email = Files[n].email => m = n
    /\ MaxCred \in Nat /\ MaxIds \in Nat /\ MaxCrashes \in Nat

VARIABLES mgRow,      \* by e-mail: the row of accounts and tokens
          mgFile,     \* by e-mail: the credential in its file
          mgMarker,   \* app_settings: json_migration_completed
          mgCurrent,  \* app_settings: current_account_id
          mgRun,      \* by instance: what it does, the place in the index, the row and the file it read, its counts
          mgIds, mgCrashes,
          mgWant, mgFault, mgTouched, mgSwitched     \* history

mgVars == <<mgRow, mgFile, mgMarker, mgCurrent, mgRun, mgIds, mgCrashes, mgWant, mgFault, mgTouched, mgSwitched>>

FileEmails == {Files[n].email : n \in DOMAIN Files}
NoRow == [id |-> 0, cred |-> 0, off |-> FALSE]
NoWant == [safe |-> FALSE, row |-> NoRow]
Counts == {"migrated", "updated", "skipped", "failed"}
Stats == [count \in Counts |-> 0]
Down == [pc |-> "down", at |-> 1, row |-> NoRow, cred |-> 0, stats |-> Stats]

Init ==
    /\ mgRow = [e \in FileEmails |-> NoRow] /\ mgFile = [e \in FileEmails |-> 0]
    /\ mgMarker = FALSE /\ mgCurrent = 0 /\ mgRun = [i \in Instances |-> Down]
    /\ mgIds = 0 /\ mgCrashes = 0
    /\ mgWant = [e \in FileEmails |-> NoWant] /\ mgFault = {} /\ mgTouched = {} /\ mgSwitched = FALSE

-----------------------------------------------------------------------------
At(i, pc) == mgRun[i].pc = pc
Goes(i, pc) == mgRun' = [mgRun EXCEPT ![i].pc = pc]
Becomes(i, pc) == mgRun' = [mgRun EXCEPT ![i] = [Down EXCEPT !.pc = pc]]
File(i) == Files[mgRun[i].at]
Email(i) == File(i).email
Idle == {"down", "serving", "files"}
Migrating == {i \in Instances : mgRun[i].pc \notin Idle}
Counted(i, count) ==
    mgRun' = [mgRun EXCEPT ![i].pc = "next", ![i].at = @ + 1, ![i].stats[count] = @ + 1,
                               ![i].row = NoRow, ![i].cred = 0]
Failed(i) == Counted(i, "failed") /\ mgFault' = mgFault \union {Email(i)}
Settings == UNCHANGED <<mgMarker, mgCurrent>>
History == UNCHANGED <<mgFile, mgCrashes, mgWant, mgTouched, mgSwitched>>

(* main: the repository when the connection succeeds, the files otherwise. *)
Start(i) ==
    /\ At(i, "down") /\ \E pc \in {"check", "files"} : Goes(i, pc)
    /\ Settings /\ History /\ UNCHANGED <<mgRow, mgIds, mgFault>>

(* A failure to read the marker or the index only skips the migration: the *)
(* instance serves from the database all the same.                         *)
Check(i) ==
    /\ At(i, "check")
    /\ \/ Becomes(i, "serving")
       \/ ~mgMarker /\ mgRun' = [mgRun EXCEPT ![i].pc = "next", ![i].at = 1, ![i].stats = Stats]
    /\ Settings /\ History /\ UNCHANGED <<mgRow, mgIds, mgFault>>

(* An entry of the index: its file is read, then its row.                  *)
Look(i) ==
    /\ At(i, "next") /\ mgRun[i].at <= Len(Files)
    /\ \/ File(i).kind = "missing" /\ Counted(i, "skipped") /\ UNCHANGED mgFault
       \/ File(i).kind # "missing" /\ Failed(i)
       \/ /\ File(i).kind = "ok"
          /\ mgRun' = [mgRun EXCEPT ![i].pc = IF mgRow[Email(i)].id = 0 THEN "create" ELSE "update",
                                    ![i].row = mgRow[Email(i)], ![i].cred = mgFile[Email(i)]]
          /\ UNCHANGED mgFault
    /\ Settings /\ History /\ UNCHANGED <<mgRow, mgIds>>

\* Mutant of Updated: an account that is there already keeps its flags.
UpdatedToken(row, cred, file) == [row EXCEPT !.cred = cred]
(* What update_account writes of the row read. The quota, which is written *)
(* after it, and the proxy, which never is, are left out.                  *)
Updated(row, cred, file) == [row EXCEPT !.cred = cred, !.off = file.off]

(* update_account of the row with the identifier that was read: its event  *)
(* refers to the account, so a row that is gone fails it as a whole.       *)
Write(i, row, count) ==
    /\ mgRow[Email(i)].id = row.id
    /\ mgRow' = [mgRow EXCEPT ![Email(i)] = row]
    /\ Counted(i, count) /\ UNCHANGED mgFault

Update(i) ==
    /\ At(i, "update")
    /\ \/ Write(i, Updated(mgRun[i].row, mgRun[i].cred, File(i)), "updated")
       \/ Failed(i) /\ UNCHANGED mgRow
    /\ Settings /\ History /\ UNCHANGED mgIds

(* create_account: enabled, with no flags; the e-mail is unique.           *)
Create(i) ==
    /\ At(i, "create")
    /\ \/ /\ mgRow[Email(i)].id = 0 /\ mgIds < MaxIds
          /\ mgRow' = [mgRow EXCEPT ![Email(i)] = [NoRow EXCEPT !.id = mgIds + 1, !.cred = mgRun[i].cred]]
          /\ mgIds' = mgIds + 1
          /\ mgRun' = [mgRun EXCEPT ![i].pc = "read", ![i].row.id = mgIds + 1] /\ UNCHANGED mgFault
       \/ Failed(i) /\ UNCHANGED <<mgRow, mgIds>>
    /\ Settings /\ History

(* ... which ends by reading the row it committed.                         *)
Reread(i) ==
    /\ At(i, "read")
    /\ \/ /\ mgRow[Email(i)].id = mgRun[i].row.id
          /\ mgRun' = [mgRun EXCEPT ![i].pc = "flags", ![i].row = mgRow[Email(i)]] /\ UNCHANGED mgFault
       \/ Failed(i)
    /\ Settings /\ History /\ UNCHANGED <<mgRow, mgIds>>

(* The flags of the new row: a failure is only logged.                     *)
Flags(i) ==
    /\ At(i, "flags")
    /\ \/ Write(i, Updated(mgRun[i].row, mgRun[i].row.cred, File(i)), "migrated")
       \/ Counted(i, "migrated") /\ mgFault' = mgFault \union {Email(i)} /\ UNCHANGED mgRow
    /\ Settings /\ History /\ UNCHANGED mgIds

(* The current account of the index: its row is looked up by e-mail.       *)
FindCurrent(i) ==
    /\ At(i, "next") /\ mgRun[i].at > Len(Files)
    /\ \/ /\ \E n \in DOMAIN Files : Files[n].email = Current /\ Files[n].kind = "ok"
          /\ mgRow[Current].id # 0
          /\ mgRun' = [mgRun EXCEPT ![i].pc = "current", ![i].row = mgRow[Current]]
       \/ Goes(i, "mark")
    /\ Settings /\ History /\ UNCHANGED <<mgRow, mgIds, mgFault>>
SetCurrent(i) ==
    /\ At(i, "current") /\ Goes(i, "mark")
    /\ mgCurrent' \in {mgRun[i].row.id, mgCurrent}
    /\ History /\ UNCHANGED <<mgRow, mgIds, mgFault, mgMarker>>

(* The marker comes last; without it the next start migrates again.        *)
Mark(i) ==
    /\ At(i, "mark") /\ Becomes(i, "serving")
    /\ mgMarker' \in {TRUE, mgMarker}
    /\ History /\ UNCHANGED <<mgRow, mgIds, mgFault, mgCurrent>>

Crash(i) ==
    /\ ~At(i, "down") /\ mgCrashes < MaxCrashes
    /\ Becomes(i, "down") /\ mgCrashes' = mgCrashes + 1
    /\ Settings /\ UNCHANGED <<mgRow, mgIds, mgFile, mgWant, mgFault, mgTouched, mgSwitched>>

-----------------------------------------------------------------------------
(* What an instance does once it serves from the database. Logins, which   *)
(* create a row as well, are in AccountRecord.                             *)
Edit(i, e, row) ==
    /\ At(i, "serving")
    /\ mgRow' = [mgRow EXCEPT ![e] = row]
    /\ mgTouched' = mgTouched \union {e}
    /\ mgWant' = [mgWant EXCEPT ![e] = IF mgMarker /\ Migrating = {} THEN [safe |-> TRUE, row |-> row] ELSE NoWant]
    /\ Settings /\ UNCHANGED <<mgFile, mgRun, mgCrashes, mgFault, mgSwitched>>

Refresh(i, e) ==
    /\ mgRow[e].id # 0 /\ mgRow[e].cred < MaxCred
    /\ Edit(i, e, [mgRow[e] EXCEPT !.cred = @ + 1]) /\ UNCHANGED mgIds
Disable(i, e) ==
    mgRow[e].id # 0 /\ Edit(i, e, [mgRow[e] EXCEPT !.off = TRUE]) /\ UNCHANGED mgIds
Delete(i, e) ==
    mgRow[e].id # 0 /\ Edit(i, e, NoRow) /\ UNCHANGED mgIds
(* switch_account, the half of the database: the identifier is not checked.*)
Switch(i, e) ==
    /\ At(i, "serving") /\ mgRow[e].id # 0
    /\ mgCurrent' = mgRow[e].id /\ mgSwitched' = TRUE
    /\ UNCHANGED <<mgRow, mgFile, mgMarker, mgRun, mgIds, mgCrashes, mgWant, mgFault, mgTouched>>
(* An instance that found no database renews what is in the files.         *)
RefreshFile(i, e) ==
    /\ At(i, "files") /\ mgFile[e] < MaxCred
    /\ mgFile' = [mgFile EXCEPT ![e] = @ + 1] /\ mgTouched' = mgTouched \union {e}
    /\ Settings /\ UNCHANGED <<mgRow, mgRun, mgIds, mgCrashes, mgWant, mgFault, mgSwitched>>

Next ==
    \/ \E i \in Instances :
        \/ Start(i) \/ Check(i) \/ Look(i) \/ Update(i) \/ Create(i) \/ Reread(i) \/ Flags(i)
        \/ FindCurrent(i) \/ SetCurrent(i) \/ Mark(i) \/ Crash(i)
    \/ \E i \in Instances, e \in FileEmails :
        \/ Refresh(i, e) \/ Disable(i, e) \/ Delete(i, e)
        \/ Switch(i, e) \/ RefreshFile(i, e)
    \/ (\A i \in Instances : mgRun[i].pc \in {"serving", "files"}) /\ UNCHANGED mgVars
Spec == Init /\ [][Next]_mgVars

-----------------------------------------------------------------------------
RowType == [id : 0..MaxIds, cred : 0..MaxCred, off : BOOLEAN]
TypeOK ==
    /\ mgRow \in [FileEmails -> RowType] /\ mgFile \in [FileEmails -> 0..MaxCred]
    /\ mgMarker \in BOOLEAN /\ mgCurrent \in 0..MaxIds /\ mgIds \in 0..MaxIds /\ mgCrashes \in 0..MaxCrashes
    /\ mgRun \in [Instances ->
        [pc : Idle \union {"check", "next", "update", "create", "read", "flags", "current", "mark"},
         at : 1..(Len(Files) + 1), row : RowType, cred : 0..MaxCred,
         stats : [Counts -> 0..Len(Files)]]]
    /\ mgWant \in [FileEmails -> [safe : BOOLEAN, row : RowType]]
    /\ mgFault \subseteq FileEmails /\ mgTouched \subseteq FileEmails /\ mgSwitched \in BOOLEAN

(* What the service did to an account once the marker was there and no     *)
(* instance was still migrating stays done: a later start, a crash and a   *)
(* second instance write no older state of a file over it and bring no     *)
(* deleted account back. Edits before that may be lost: the deployment     *)
(* runs two instances side by side, and a marker that could not be written *)
(* makes the next start migrate over what was edited since.                *)
EditsStay == \A e \in FileEmails : mgWant[e].safe => mgRow[e] = mgWant[e].row

(* Once the marker is set and nobody migrates, every readable account has  *)
(* a row as its file says: one disabled there is disabled here, whatever   *)
(* crashed between its creation and its flags. Excepted are accounts one   *)
(* of whose calls failed, for which the marker is set all the same, and    *)
(* accounts the service edited.                                            *)
FlagsCarried ==
    (mgMarker /\ Migrating = {}) =>
        \A n \in DOMAIN Files :
            LET e == Files[n].email
            IN  Files[n].kind = "ok" /\ e \notin mgFault \union mgTouched =>
                    mgRow[e].id # 0 /\ mgRow[e].off = Files[n].off /\ mgRow[e].cred = mgFile[e]

(* The current account is the row of the same e-mail, although its         *)
(* identifier is not the file's, until the service switches or edits it.   *)
CurrentCarried ==
    (mgCurrent # 0 /\ ~mgSwitched /\ Current \notin mgTouched) => mgCurrent = mgRow[Current].id

(* Every entry of the index is counted once before the marker is written.  *)
AllCounted ==
    \A i \in Instances : LET s == mgRun[i].stats
                         IN  At(i, "mark") => s["migrated"] + s["updated"] + s["skipped"] + s["failed"] = Len(Files)

MigrationSound == EditsStay /\ FlagsCarried /\ CurrentCarried /\ AllCounted
=============================================================================
