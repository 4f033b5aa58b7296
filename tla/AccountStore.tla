----------------------------- MODULE AccountStore -----------------------------
(***************************************************************************)
(* The account files: an index (modules/account/index.rs) and one file per *)
(* account (storage.rs), written by the operations of crud.rs, quota.rs,   *)
(* current.rs and switch.rs under ACCOUNT_INDEX_LOCK and by others without *)
(* it: list_accounts repairs the index, verification.rs, fetch.rs and the  *)
(* API handlers save account files. The process may crash between two      *)
(* steps. A file is saved through a temporary file with one name for all   *)
(* writers, and renamed.                                                   *)
(*                                                                         *)
(* An account's id is its email and how often that email was added.        *)
(***************************************************************************)
EXTENDS Naturals, FiniteSets

CONSTANTS Threads, Emails,
          MaxOps, MaxCrashes    \* bounds on operations begun and on crashes

(* "none" stands for nobody holding the lock of the index.                 *)
AccountStoreAssumption == "none" \notin Threads /\ Emails # {}

Ids == Emails \X (1..2)
IndexOps == {"upsert", "delete", "delete batch", "reindex"}
LockedOps == IndexOps \union {"quota"}
Ops == LockedOps \union {"list", "save"}
Idle == [op |-> "idle", email |-> "", id |-> <<>>, pc |-> "start", copy |-> {}, bad |-> {}, todo |-> {}]

VARIABLES acIndex,      \* the ids in the index file
          acFiles,      \* the ids whose file exists and can be parsed
          acLock,       \* holder of ACCOUNT_INDEX_LOCK, or "none"
          acThread,     \* the operation each thread is in
          acSaving,     \* threads between the temporary file and the rename
          acMade,       \* how often an email was added
          acKept,       \* history: emails added, and no deletion of them begun since
          acCut,        \* history: ids whose batch deletion a crash cut short
          acCrossed,    \* history: an unlocked writer crossed another one
          acOps, acCrashes

acVars == <<acIndex, acFiles, acLock, acThread, acSaving, acMade, acKept, acCut, acCrossed, acOps, acCrashes>>

Init == LET first == {<<e, 1>> : e \in {CHOOSE e \in Emails : TRUE}}
        IN  /\ acIndex = first /\ acFiles = first /\ acKept = {id[1] : id \in first}
            /\ acMade = [e \in Emails |-> IF e \in {id[1] : id \in first} THEN 1 ELSE 0]
            /\ acLock = "none" /\ acThread = [t \in Threads |-> Idle] /\ acSaving = {}
            /\ acCut = {} /\ acCrossed = FALSE /\ acOps = 0 /\ acCrashes = 0

-----------------------------------------------------------------------------
Named(index, email) == {id \in index : id[1] = email}
Enter(t, changes) == acThread' = [acThread EXCEPT ![t] = changes]
Leave(t) == /\ acThread' = [acThread EXCEPT ![t] = Idle]
            /\ acLock' = IF acLock = t THEN "none" ELSE acLock

Begin(t, op, email) ==
    /\ acThread[t] = Idle /\ acOps < MaxOps
    /\ op \in {"delete", "delete batch", "quota", "save"} => acMade[email] > 0
    /\ Enter(t, [Idle EXCEPT !.op = op, !.email = email, !.id = <<email, acMade[email]>>])
    /\ acOps' = acOps + 1
    /\ UNCHANGED <<acIndex, acFiles, acLock, acSaving, acMade, acKept, acCut, acCrossed, acCrashes>>

(* The lock is taken, or not: list_accounts, mark_needs_verification and   *)
(* the saves of the API handlers do without it.                            *)
TakeLock(t) ==
    /\ acThread[t].op \in LockedOps \union {"add"} /\ acThread[t].pc = "start"
    /\ acLock = "none" /\ acLock' = t
    /\ Enter(t, [acThread[t] EXCEPT !.pc = IF @ = "start" /\ acThread[t].op = "quota" THEN "load" ELSE "read"])
    /\ UNCHANGED <<acIndex, acFiles, acSaving, acMade, acKept, acCut, acCrossed, acOps, acCrashes>>
GoUnlocked(t) ==
    /\ acThread[t].op \in {"list", "save"} /\ acThread[t].pc = "start"
    /\ Enter(t, [acThread[t] EXCEPT !.pc = IF acThread[t].op = "save" THEN "load" ELSE "read"])
    /\ UNCHANGED <<acIndex, acFiles, acLock, acSaving, acMade, acKept, acCut, acCrossed, acOps, acCrashes>>

(* load_account_index, then what each operation makes of it. upsert_account*)
(* drops the lock before it calls add_account, which reads the index again;*)
(* an account that is listed keeps its id, whether its file loads or not.  *)
\* Mutant of AddIndex: add_account trusts the index upsert_account has read.
OldIndex(t) == acThread[t].copy
AddIndex(t) == acIndex
UpsertReads(t, index) ==
    IF Named(index, acThread[t].email) = {}
    THEN /\ Enter(t, [acThread[t] EXCEPT !.op = "add", !.pc = "start", !.copy = index])
         /\ acLock' = "none" /\ UNCHANGED <<acMade, acKept>>
    ELSE /\ Enter(t, [acThread[t] EXCEPT !.id = CHOOSE id \in Named(index, acThread[t].email) : TRUE,
                                         !.copy = index, !.pc = "file"])
         /\ UNCHANGED <<acLock, acMade, acKept>>
AddReads(t, index) ==
    LET e == acThread[t].email
    IN  IF Named(index, e) # {} \/ acMade[e] = 2 THEN Leave(t) /\ UNCHANGED <<acMade, acKept>>
        ELSE /\ acMade' = [acMade EXCEPT ![e] = @ + 1]
             /\ Enter(t, [acThread[t] EXCEPT !.id = <<e, acMade[e] + 1>>, !.pc = "file",
                                             !.copy = index \union {<<e, acMade[e] + 1>>}])
             /\ UNCHANGED <<acLock, acKept>>
DeleteReads(t, index) ==
    LET id == acThread[t].id
    IN  IF id \notin index /\ acThread[t].op = "delete" THEN Leave(t) /\ UNCHANGED <<acMade, acKept>>
        ELSE /\ Enter(t, [acThread[t] EXCEPT !.copy = index \ {id},
                                             !.pc = IF acThread[t].op = "delete" THEN "index" ELSE "remove"])
             /\ acKept' = IF id \in Named(acIndex, id[1]) THEN acKept \ {id[1]} ELSE acKept
             /\ UNCHANGED <<acLock, acMade>>
ReadIndex(t) ==
    /\ acThread[t].pc = "read"
    /\ LET op == acThread[t].op
       IN  CASE op = "upsert" -> UpsertReads(t, acIndex)
             [] op = "add" -> AddReads(t, AddIndex(t))
             [] op \in {"delete", "delete batch"} -> DeleteReads(t, acIndex)
             [] op = "reindex" -> Enter(t, [acThread[t] EXCEPT !.copy = acIndex, !.pc = "index"])
                                  /\ UNCHANGED <<acLock, acMade, acKept>>
             [] op = "list" -> Enter(t, [acThread[t] EXCEPT !.copy = acIndex, !.todo = acIndex, !.pc = "check"])
                               /\ UNCHANGED <<acLock, acMade, acKept>>
    /\ UNCHANGED <<acIndex, acFiles, acSaving, acCut, acCrossed, acOps, acCrashes>>

(* list_accounts loads the files it has read the names of, one by one, and *)
(* saves the index without those that are missing or cannot be parsed.     *)
Check(t, id) ==
    /\ acThread[t].pc = "check" /\ id \in acThread[t].todo
    /\ Enter(t, [acThread[t] EXCEPT !.todo = @ \ {id}, !.bad = IF id \in acFiles THEN @ ELSE @ \union {id}])
    /\ UNCHANGED <<acIndex, acFiles, acLock, acSaving, acMade, acKept, acCut, acCrossed, acOps, acCrashes>>
Checked(t) ==
    /\ acThread[t].pc = "check" /\ acThread[t].todo = {}
    /\ IF acThread[t].bad = {} THEN Leave(t)
       ELSE Enter(t, [acThread[t] EXCEPT !.copy = @ \ acThread[t].bad, !.pc = "index"]) /\ UNCHANGED acLock
    /\ UNCHANGED <<acIndex, acFiles, acSaving, acMade, acKept, acCut, acCrossed, acOps, acCrashes>>

(* load_account before a save of the whole account.                        *)
LoadFile(t) ==
    /\ acThread[t].pc = "load"
    /\ IF acThread[t].id \in acFiles
       THEN Enter(t, [acThread[t] EXCEPT !.pc = "file"]) /\ UNCHANGED acLock
       ELSE Leave(t)
    /\ UNCHANGED <<acIndex, acFiles, acSaving, acMade, acKept, acCut, acCrossed, acOps, acCrashes>>

(* save_account and save_account_index write the temporary file...         *)
SameTarget(t, u) == acThread[t].pc = acThread[u].pc /\ (acThread[t].pc = "file" => acThread[t].id = acThread[u].id)
BeginSave(t) ==
    /\ acThread[t].pc \in {"file", "index"} /\ t \notin acSaving
    /\ acSaving' = acSaving \union {t}
    /\ acCrossed' = (acCrossed \/ \E u \in acSaving : SameTarget(t, u))
    /\ UNCHANGED <<acIndex, acFiles, acLock, acThread, acMade, acKept, acCut, acOps, acCrashes>>

(* ...and rename it. Writers that shared the temporary file may leave half *)
(* of it; a repair may put back an index that others have changed.         *)
EndSaveFile(t) ==
    /\ acThread[t].pc = "file" /\ t \in acSaving /\ acSaving' = acSaving \ {t}
    /\ LET id == acThread[t].id
       IN  /\ acFiles' \in {acFiles \union {id}} \union (IF acCrossed THEN {acFiles \ {id}} ELSE {})
           /\ acCrossed' = (acCrossed \/ (acThread[t].op = "save" /\ id \notin acIndex))
    /\ IF acThread[t].op \in {"add", "upsert"}
       THEN Enter(t, [acThread[t] EXCEPT !.pc = "index"]) /\ UNCHANGED acLock
       ELSE Leave(t)
    /\ UNCHANGED <<acIndex, acMade, acKept, acCut, acOps, acCrashes>>
EndSaveIndex(t) ==
    /\ acThread[t].pc = "index" /\ t \in acSaving /\ acSaving' = acSaving \ {t}
    /\ LET op == acThread[t].op
       IN  /\ acIndex' = acThread[t].copy
           /\ acCrossed' = (acCrossed \/ (/\ op = "list"
                                          /\ \/ acIndex \ acThread[t].bad # acThread[t].copy
                                             \/ acThread[t].bad \intersect acFiles # {}))
           /\ acKept' = IF op \in {"add", "upsert"} THEN acKept \union {acThread[t].email} ELSE acKept
           /\ IF op = "delete"
              THEN Enter(t, [acThread[t] EXCEPT !.pc = "remove"]) /\ UNCHANGED acLock
              ELSE Leave(t)
    /\ UNCHANGED <<acFiles, acMade, acCut, acOps, acCrashes>>

(* delete_account removes the file after saving the index, delete_accounts *)
(* before.                                                                 *)
RemoveFile(t) ==
    /\ acThread[t].pc = "remove"
    /\ acFiles' = acFiles \ {acThread[t].id}
    /\ IF acThread[t].op = "delete" THEN Leave(t)
       ELSE Enter(t, [acThread[t] EXCEPT !.pc = "index"]) /\ UNCHANGED acLock
    /\ UNCHANGED <<acIndex, acSaving, acMade, acKept, acCut, acCrossed, acOps, acCrashes>>

Crash ==
    /\ acCrashes < MaxCrashes /\ acCrashes' = acCrashes + 1
    /\ acCut' = acCut \union {acThread[t].id : t \in {u \in Threads : acThread[u].op = "delete batch"
                                                                       /\ acThread[u].pc = "index"}}
    /\ acThread' = [t \in Threads |-> Idle] /\ acLock' = "none" /\ acSaving' = {}
    /\ UNCHANGED <<acIndex, acFiles, acMade, acKept, acCrossed, acOps>>

(* The bound on operations is reached and all have returned.               *)
Rest == acOps = MaxOps /\ acThread = [t \in Threads |-> Idle] /\ UNCHANGED acVars

Next == \/ \E t \in Threads : \/ \E op \in Ops, e \in Emails : Begin(t, op, e)
                              \/ TakeLock(t) \/ GoUnlocked(t) \/ ReadIndex(t)
                              \/ \E id \in Ids : Check(t, id)
                              \/ Checked(t) \/ LoadFile(t)
                              \/ BeginSave(t) \/ EndSaveFile(t) \/ EndSaveIndex(t) \/ RemoveFile(t)
        \/ Crash
        \/ Rest

Spec == Init /\ [][Next]_acVars

-----------------------------------------------------------------------------
TypeOK ==
    /\ acIndex \subseteq Ids /\ acFiles \subseteq Ids /\ acCut \subseteq Ids
    /\ acLock \in Threads \union {"none"} /\ acSaving \subseteq Threads
    /\ acKept \subseteq Emails /\ acMade \in [Emails -> 0..2]
    /\ \A t \in Threads : /\ acThread[t].pc \in {"start", "read", "check", "load", "file", "index", "remove"}
                          /\ acThread[t].copy \subseteq Ids /\ acThread[t].bad \subseteq Ids

(* As long as no unlocked writer crossed another one, an account that was  *)
(* added stays listed, under one id and with a file that can be read, until*)
(* its deletion begins, and no entry is left without a file but by a batch *)
(* deletion that a crash cut short.                                        *)
StoreSound ==
    acCrossed \/ /\ \A e \in acKept : \E id \in Named(acIndex, e) : id \in acFiles
                 /\ \A e \in Emails : Cardinality(Named(acIndex, e)) <= 1
                 /\ acLock = "none" => acIndex \ acFiles \subseteq acCut
=============================================================================
