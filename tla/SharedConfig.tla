----------------------------- MODULE SharedConfig -----------------------------
(***************************************************************************)
(* The locks around the server's shared configuration and the tasks that   *)
(* take several of them: the hot reload after a saved configuration        *)
(* (state/accessors.rs), the mapping synchronisation                       *)
(* (state/config_sync.rs) and the upstream calls of the handlers           *)
(* (upstream/client/mod.rs). tokio's RwLock is not reentrant, and a task   *)
(* keeps every guard until the end of its scope.                           *)
(***************************************************************************)
EXTENDS Naturals, Sequences, FiniteSets

Read(l) == [lock |-> l, mode |-> "read"]
Write(l) == [lock |-> l, mode |-> "write"]

(* hot_reload_proxy_config: six write guards, alive to the end of the      *)
(* function, under which update_proxy_config reads upstream_proxy.         *)
ReloadPath == << Write("custom_mapping"), Write("experimental_config"), Write("proxy_config"),
                 Write("security_config"), Write("upstream_proxy"), Write("zai_config"),
                 Read("upstream_proxy") >>
SyncPath == << Write("custom_mapping"), Write("mapping_timestamps") >>
ExportPath == << Read("custom_mapping"), Read("mapping_timestamps") >>
PersistPath == << Write("proxy_config") >>
UpstreamPath == << Read("upstream_proxy") >>
HandlerPath == << Read("custom_mapping") >>

Path == [reload |-> ReloadPath, sync |-> SyncPath, export |-> ExportPath,
         persist |-> PersistPath, upstream |-> UpstreamPath, handler |-> HandlerPath]
Tasks == DOMAIN Path

VARIABLES shTaken       \* per task, the guards of its path it holds (0: not running)

Held(t) == {Path[t][i] : i \in 1 .. shTaken[t]}
Compatible(g, h) == g.lock # h.lock \/ (g.mode = "read" /\ h.mode = "read")
Wanted(t) == Path[t][shTaken[t] + 1]

Init == shTaken = [t \in Tasks |-> 0]

(* A guard is granted when it is compatible with every guard held, the     *)
(* task's own included.                                                    *)
Acquire(t) ==
    /\ shTaken[t] < Len(Path[t])
    /\ \A u \in Tasks : \A h \in Held(u) : Compatible(Wanted(t), h)
    /\ shTaken' = [shTaken EXCEPT ![t] = @ + 1]

(* The work is done under all the guards, which are dropped together.      *)
Complete(t) ==
    /\ shTaken[t] = Len(Path[t])
    /\ shTaken' = [shTaken EXCEPT ![t] = 0]

Next == \E t \in Tasks : Acquire(t) \/ Complete(t)

(* Fair locks and a fair scheduler: a guard that stays free long enough is *)
(* granted, and work under guards ends.                                    *)
Fairness == \A t \in Tasks : SF_shTaken(Acquire(t)) /\ WF_shTaken(Complete(t))
Spec == Init /\ [][Next]_shTaken /\ Fairness

-----------------------------------------------------------------------------
TypeOK == \A t \in Tasks : shTaken[t] \in 0 .. Len(Path[t])

(* A hot reload that has begun to take the guards ends: the order in which *)
(* the tasks take them rules out deadlocks (state/accessors.rs:131).       *)
ReloadEnds == (shTaken["reload"] > 0) ~> (shTaken["reload"] = 0)
=============================================================================
