----------------------------- MODULE MappingSync -----------------------------
(***************************************************************************)
(* The synchronisation of model mappings between instances: pollers fetch  *)
(* the mapping of a hub every minute, merge it, and push back what they    *)
(* hold that is newer (config_sync.rs, state/config_sync.rs,               *)
(* models/sync/mapping.rs). Keys are independent, so one key is modelled:  *)
(* an instance has a target for it or not, and perhaps a timestamp. A      *)
(* restart forgets the timestamps: an export stamps such an entry with the *)
(* clock. A hot reload takes the mapping's write lock and never returns:   *)
(* the client it tells of the new configuration waits for a lock it holds  *)
(* (SharedConfig). That instance synchronises no more until it restarts.   *)
(*                                                                         *)
(* Only the order of timestamps matters. They are kept as ranks: after     *)
(* each step the stamps in use are numbered again from 1 (0: none). Exports *)
(* of different milliseconds are modelled.                                 *)
(***************************************************************************)
EXTENDS Integers, FiniteSets

CONSTANTS Hub, Pollers, Targets,
          Default,          \* the target all instances start with
          Beats(_, _),      \* the order of target strings that breaks ties
          MaxTroubles       \* bound on reloads, restarts and lost messages

Instances == Pollers \union {Hub}
Absent == "absent"
Nothing == [target |-> Absent, at |-> 0]

VARIABLES msTarget,     \* custom_mapping: the key's target
          msStamp,      \* mapping_timestamps: 0 when the key has none
          msWire,       \* per poller: the message under way and its entry
          msTroubles,   \* how many of them there were
          msStuck       \* instances whose mapping a hot reload keeps locked

msVars == <<msTarget, msStamp, msWire, msTroubles, msStuck>>

Quiet == [at |-> "idle", entry |-> Nothing]

Init == /\ msTarget = [i \in Instances |-> Default]
        /\ msStamp = [i \in Instances |-> 0]
        /\ msWire = [p \in Pollers |-> Quiet]
        /\ msTroubles = 0 /\ msStuck = {}

-----------------------------------------------------------------------------
Entry(i) == [target |-> msTarget[i], at |-> msStamp[i]]

(* merge_remote_mapping and the merge of sync_with_remote: a remote entry  *)
(* replaces a local one that is older; without a timestamp a local entry   *)
(* counts as older than anything.                                          *)
Newer(remote, local) == remote.at > local.at
Merged(local, remote) ==
    IF remote.target # Absent /\ Newer(remote, local) THEN remote ELSE local

(* diff_newer_than: what the local side holds and the remote side lacks or *)
(* would lose to.                                                          *)
WinsOver(a, b) == a.at > b.at \/ (a.at = b.at /\ Beats(a.target, b.target))
Outbound(local, remote) ==
    IF local.target # Absent /\ (remote.target = Absent \/ WinsOver(local, remote))
    THEN local ELSE Nothing

(* The stamps in use, numbered again in their order. *)
Install(target, stamp, wire) ==
    LET used == ({stamp[i] : i \in Instances} \union {wire[p].entry.at : p \in Pollers}) \ {0}
        rank(s) == IF s = 0 THEN 0 ELSE Cardinality({u \in used : u <= s})
    IN  /\ msTarget' = target
        /\ msStamp' = [i \in Instances |-> rank(stamp[i])]
        /\ msWire' = [p \in Pollers |-> [wire[p] EXCEPT !.entry.at = rank(@)]]

Stamps == {msStamp[i] : i \in Instances} \union {msWire[p].entry.at : p \in Pollers}
Top == CHOOSE s \in Stamps : \A t \in Stamps : t <= s

(* get_syncable_mapping of the hub: the clock stands in for a missing      *)
(* timestamp.                                                              *)
\* Mutant of ExportStamp: an entry without a timestamp is exported as the oldest.
ExportNone(now) == msStamp[Hub]
ExportStamp(now) == IF msStamp[Hub] = 0 THEN now ELSE msStamp[Hub]

Fetch(p) ==
    /\ msWire[p].at = "idle" /\ {p, Hub} \intersect msStuck = {}
    /\ LET entry == IF msTarget[Hub] = Absent THEN Nothing
                    ELSE [target |-> msTarget[Hub], at |-> ExportStamp(Top + 1)]
       IN  Install(msTarget, msStamp, [msWire EXCEPT ![p] = [at |-> "fetched", entry |-> entry]])
    /\ UNCHANGED <<msTroubles, msStuck>>

(* sync_with_remote: the difference is taken before the merge, both under  *)
(* the locks of the mapping and its timestamps.                            *)
SyncWithRemote(p) ==
    LET remote == msWire[p].entry
        local == Merged(Entry(p), remote)
        out == Outbound(Entry(p), remote)
    IN  /\ msWire[p].at = "fetched" /\ p \notin msStuck
        /\ Install([msTarget EXCEPT ![p] = local.target], [msStamp EXCEPT ![p] = local.at],
                   [msWire EXCEPT ![p] = IF out = Nothing THEN Quiet
                                         ELSE [at |-> "pushing", entry |-> out]])
        /\ UNCHANGED <<msTroubles, msStuck>>

Push(p) ==
    LET merged == Merged(Entry(Hub), msWire[p].entry) IN
    /\ msWire[p].at = "pushing" /\ Hub \notin msStuck
    /\ Install([msTarget EXCEPT ![Hub] = merged.target], [msStamp EXCEPT ![Hub] = merged.at],
               [msWire EXCEPT ![p] = Quiet])
    /\ UNCHANGED <<msTroubles, msStuck>>

Trouble == msTroubles < MaxTroubles /\ msTroubles' = msTroubles + 1

(* A fetch or a push fails: the poller waits for its next turn. One to a   *)
(* hub that is stuck runs into the client's timeout.                       *)
Fails(p) ==
    /\ msWire[p].at # "idle"
    /\ Install(msTarget, msStamp, [msWire EXCEPT ![p] = Quiet])
    /\ Trouble \/ (Hub \in msStuck /\ msWire[p].at = "pushing" /\ UNCHANGED msTroubles)
    /\ UNCHANGED msStuck

(* The operator's edit, by a hot reload, which leaves the timestamps alone *)
(* and the instance stuck.                                                 *)
HotReload(i, target) ==
    /\ Trouble
    /\ i \notin msStuck /\ msStuck' = msStuck \union {i}
    /\ Install([msTarget EXCEPT ![i] = target], msStamp, msWire)

(* A restart reads the mapping from the file, where what was merged may not*)
(* have been saved and what the operator put there is; it has no timestamps*)
(* and forgets an exchange under way.                                      *)
Restart(i, target) ==
    /\ Trouble
    /\ msStuck' = msStuck \ {i}
    /\ Install([msTarget EXCEPT ![i] = target], [msStamp EXCEPT ![i] = 0],
               IF i \in Pollers THEN [msWire EXCEPT ![i] = Quiet] ELSE msWire)

(* What is stuck waits.                                                    *)
Waits == msStuck # {} /\ UNCHANGED msVars

Next == \/ Waits
        \/ \E p \in Pollers : Fetch(p) \/ SyncWithRemote(p) \/ Push(p) \/ Fails(p)
        \/ \E i \in Instances : \E t \in Targets \union {Absent} : HotReload(i, t) \/ Restart(i, t)

-----------------------------------------------------------------------------
TypeOK ==
    /\ msTarget \in [Instances -> Targets \union {Absent}]
    /\ msStamp \in [Instances -> Nat]
    /\ \A p \in Pollers : msWire[p].at \in {"idle", "fetched", "pushing"}
    /\ msTroubles \in 0 .. MaxTroubles /\ msStuck \subseteq Instances

(* Once the edits and failures end, every poller that no reload keeps stuck*)
(* comes to hold the target of a hub that is not stuck either, for a key   *)
(* the hub maps, whatever was fetched, pushed, lost, restarted or stuck    *)
(* before: the hub's entries without a timestamp win every poll, and those *)
(* with one have reached the pollers or come from them                     *)
(* (state/config_sync.rs:19, 61, 92).                                      *)
Agreed == Hub \notin msStuck /\ msTarget[Hub] # Absent =>
              \A p \in Pollers \ msStuck : msTarget[p] = msTarget[Hub]
=============================================================================
