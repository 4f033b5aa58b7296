-------------------------- MODULE ActiveRequests --------------------------
(***************************************************************************)
(* Per-account slots: ActiveRequestGuard::try_new and Drop                 *)
(* (proxy/active_request_guard.rs) over the shared map active_requests,    *)
(* together with the one background writer of that map, the 60 s cleanup   *)
(* tick (proxy/token_manager/mod.rs), and the routing configuration the    *)
(* limit is read from.                                                     *)
(*                                                                         *)
(* Grain of atomicity: one map or atomic operation per action.  A DashMap  *)
(* reference holds its shard's read lock, so an entry cannot be reaped     *)
(* while some request is between Get and the end of its CAS loop.          *)
(***************************************************************************)
EXTENDS Naturals, FiniteSets

CONSTANTS
  Requests,   \* concurrent request handlers
  Accounts,   \* accounts of the pool, by email (the map's keys)
  Limits,     \* the values max_concurrent_per_account may take
  Absent      \* an account without an entry in the map

ASSUME ActiveRequestsAssumption ==
  /\ IsFiniteSet(Requests)
  /\ Limits \subseteq Nat
  /\ Absent \notin Nat

VARIABLES
  active_requests,  \* account -> number of guards, or Absent
  limit,            \* routing_config.max_concurrent_per_account
  pc,               \* where each request is in try_new
  key,              \* the account the request asks a slot of
  cap,              \* the limit in the request's copy of the routing config
  current           \* the counter value the request's CAS compares with

vars == <<active_requests, limit, pc, key, cap, current>>

\* Positions inside try_new, in order.
Trying == {"entry", "get", "load", "swap"}

\* Positions at which the request holds a reference into the map.
Pinning == {"load", "swap"}

Holders(a) == {r \in Requests : pc[r] = "held" /\ key[r] = a}

TypeOK ==
  /\ active_requests \in [Accounts -> Nat \cup {Absent}]
  /\ limit \in Limits
  /\ pc \in [Requests -> Trying \cup {"idle", "held"}]
  /\ key \in [Requests -> Accounts]
  /\ cap \in [Requests -> Limits]
  /\ current \in [Requests -> Nat]

Init ==
  /\ active_requests = [a \in Accounts |-> Absent]
  /\ limit \in Limits
  /\ pc = [r \in Requests |-> "idle"]
  /\ key \in [Requests -> Accounts]
  /\ cap = [r \in Requests |-> limit]
  /\ current = [r \in Requests |-> 0]

-----------------------------------------------------------------------------
(* Slips the code avoids; each one breaks a property at the end.            *)

\* The load lets a counter at the limit through.
LoadOffByOne(r) ==
  /\ pc[r] = "load"
  /\ active_requests[key[r]] <= cap[r]
  /\ pc' = [pc EXCEPT ![r] = "swap"]
  /\ current' = [current EXCEPT ![r] = active_requests[key[r]]]
  /\ UNCHANGED <<active_requests, limit, key, cap>>

\* The guard is built before the slot is taken, so that a refused request
\* drops one, and Drop subtracts without looking at the counter.
LoadFullDropsGuard(r) ==
  /\ pc[r] = "load"
  /\ active_requests[key[r]] >= cap[r]
  /\ pc' = [pc EXCEPT ![r] = "idle"]
  /\ active_requests' = [active_requests EXCEPT ![key[r]] = @ - 1]
  /\ UNCHANGED <<limit, key, cap, current>>

\* A store where the compare-exchange is.
SwapBlind(r) ==
  /\ pc[r] = "swap"
  /\ active_requests' = [active_requests EXCEPT ![key[r]] = current[r] + 1]
  /\ pc' = [pc EXCEPT ![r] = "held"]
  /\ UNCHANGED <<limit, key, cap, current>>

\* The cleanup tick drops entries without looking at their count.
ReapInUse(a) ==
  /\ active_requests[a] # Absent
  /\ \A r \in Requests : pc[r] \in Pinning => key[r] # a
  /\ active_requests' = [active_requests EXCEPT ![a] = Absent]
  /\ UNCHANGED <<limit, pc, key, cap, current>>

-----------------------------------------------------------------------------

\* A selection step chose account a: the request has its own copy of the
\* routing configuration, taken when the selection began.
ChooseAccount(r, a) ==
  /\ pc[r] = "idle"
  /\ pc' = [pc EXCEPT ![r] = "entry"]
  /\ key' = [key EXCEPT ![r] = a]
  /\ cap' = [cap EXCEPT ![r] = limit]
  /\ UNCHANGED <<active_requests, limit, current>>

\* entry(key).or_insert_with(0); the entry's write lock is dropped at once.
InsertEntry(r) ==
  /\ pc[r] = "entry"
  /\ pc' = [pc EXCEPT ![r] = "get"]
  /\ active_requests' =
       [active_requests EXCEPT ![key[r]] = IF @ = Absent THEN 0 ELSE @]
  /\ UNCHANGED <<limit, key, cap, current>>

\* get(&key)? found the entry: the reference pins it.
Get(r) ==
  /\ pc[r] = "get"
  /\ active_requests[key[r]] # Absent
  /\ pc' = [pc EXCEPT ![r] = "load"]
  /\ UNCHANGED <<active_requests, limit, key, cap, current>>

\* get(&key)? found nothing: try_new returns None.
GetMissing(r) ==
  /\ pc[r] = "get"
  /\ active_requests[key[r]] = Absent
  /\ pc' = [pc EXCEPT ![r] = "idle"]
  /\ UNCHANGED <<active_requests, limit, key, cap, current>>

\* The loop loads the counter and goes on to the compare-exchange.
Load(r) ==
  /\ pc[r] = "load"
  /\ active_requests[key[r]] < cap[r]
  /\ pc' = [pc EXCEPT ![r] = "swap"]
  /\ current' = [current EXCEPT ![r] = active_requests[key[r]]]
  /\ UNCHANGED <<active_requests, limit, key, cap>>

\* The loop loads a counter at the limit: try_new returns None.
LoadFull(r) ==
  /\ pc[r] = "load"
  /\ active_requests[key[r]] >= cap[r]
  /\ pc' = [pc EXCEPT ![r] = "idle"]
  /\ UNCHANGED <<active_requests, limit, key, cap, current>>

\* compare_exchange_weak succeeds: the slot is taken.
Swap(r) ==
  /\ pc[r] = "swap"
  /\ active_requests[key[r]] = current[r]
  /\ active_requests' = [active_requests EXCEPT ![key[r]] = current[r] + 1]
  /\ pc' = [pc EXCEPT ![r] = "held"]
  /\ UNCHANGED <<limit, key, cap, current>>

\* compare_exchange_weak fails, because the counter moved or spuriously.
SwapFails(r) ==
  /\ pc[r] = "swap"
  /\ pc' = [pc EXCEPT ![r] = "load"]
  /\ UNCHANGED <<active_requests, limit, key, cap, current>>

\* Drop: fetch_update decrements a positive counter of an existing entry.
\* The request ended, was cancelled at an await, or failed.
Release(r) ==
  /\ pc[r] = "held"
  /\ pc' = [pc EXCEPT ![r] = "idle"]
  /\ active_requests' =
       [active_requests EXCEPT ![key[r]] =
          IF @ # Absent /\ @ # 0 THEN @ - 1 ELSE @]
  /\ UNCHANGED <<limit, key, cap, current>>

\* The cleanup tick's active_requests.retain(count > 0), one entry at a time
\* (retain locks shard by shard); a pinned entry cannot be visited.
Reap(a) ==
  /\ active_requests[a] = 0
  /\ \A r \in Requests : pc[r] \in Pinning => key[r] # a
  /\ active_requests' = [active_requests EXCEPT ![a] = Absent]
  /\ UNCHANGED <<limit, pc, key, cap, current>>

\* update_routing_config: the limit changes under running requests.
UpdateRoutingConfig(n) ==
  /\ n # limit
  /\ limit' = n
  /\ UNCHANGED <<active_requests, pc, key, cap, current>>

Next ==
  \/ \E r \in Requests :
        \/ \E a \in Accounts : ChooseAccount(r, a)
        \/ InsertEntry(r)
        \/ Get(r)
        \/ GetMissing(r)
        \/ Load(r)
        \/ LoadFull(r)
        \/ Swap(r)
        \/ SwapFails(r)
        \/ Release(r)
  \/ \E a \in Accounts : Reap(a)
  \/ \E n \in Limits : UpdateRoutingConfig(n)

Spec == Init /\ [][Next]_vars

-----------------------------------------------------------------------------

\* The counter as get_active_requests reports it.
GetActiveRequests(a) ==
  IF active_requests[a] = Absent THEN 0 ELSE active_requests[a]

\* The counter of an account is the number of guards alive for it: no guard
\* is lost by the CAS race, by a release that finds its entry reaped, or by a
\* reap that takes a counter in use (the guard's "cancellation-safe" promise).
CountIsGuards ==
  \A a \in Accounts : GetActiveRequests(a) = Cardinality(Holders(a))

\* No account serves more requests at once than the largest configured limit,
\* even while the limit is being changed under running requests.
WithinLimit ==
  \A a \in Accounts : \A n \in Limits :
     (\A m \in Limits : m <= n) => Cardinality(Holders(a)) <= n

\* Every step is a step of the abstract slot discipline, or invisible to it:
\* in particular a guard is handed out only while fewer guards than the limit
\* the request read are alive, whatever the interleaving of other requests,
\* releases, cleanup ticks and configuration changes.
Slots == INSTANCE ConcurrencyLimit
           WITH holders <- [a \in Accounts |-> Holders(a)], admitted <- cap

ImplementsConcurrencyLimit == Slots!Spec

\* try_new's comment: "Returns None if limit would be exceeded (no race
\* condition)".  A request is turned away only by a counter at its limit.
RefusedOnlyWhenFull ==
  [][\A r \in Requests :
        (pc[r] \in Trying /\ pc'[r] = "idle")
           => GetActiveRequests(key[r]) >= cap[r]]_vars

=============================================================================
