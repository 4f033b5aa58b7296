---------------------------- MODULE WarpIsolation ----------------------------
(***************************************************************************)
(* One tunnel per account (deploy/warp-isolation): the i-th account of     *)
(* accounts.json gets port i (BASE_PORT + i - 1), a registered device, a   *)
(* unit file and a line of the mapping; units are started, the tunnels'    *)
(* addresses verified, and devices registered anew until no two accounts   *)
(* leave by one address. A tunnel may reconnect by itself and come back    *)
(* with another address, the host's, or none; the host may reboot.         *)
(***************************************************************************)
EXTENDS Naturals, FiniteSets, SequencesExt

CONSTANTS Ids,
          Ips,          \* addresses the provider hands out
          MaxRetries,   \* MAX_RETRIES of enforce-unique-ips.sh, per account
          MaxEdits,     \* bound on changes of accounts.json
          MaxReconnects \* bound on reconnects and reboots

HostIp == "host"
Failed == "failed"      \* no answer through the port
NoDevice == "none"
Ways == Ips \union {HostIp, Failed}

WarpIsolationAssumption ==
    /\ IsFiniteSet(Ids) /\ MaxRetries \in Nat
    /\ {HostIp, Failed, NoDevice} \intersect Ips = {}

VARIABLES wiAccounts,   \* accounts.json
          wiMapping,    \* ip_mapping.json: its i-th account is at port i
          wiUnit,       \* the port the account's unit file publishes, 0 without one
          wiRunning,    \* the port its running container publishes, 0 if it does not run
          wiDevice,     \* where its tunnel comes out
          wiPc, wiJob, wiAt,    \* the script at work, its accounts and its place in them
          wiSeen,       \* enforce's account_to_ip
          wiRetries,
          wiRemoved,    \* history: an account was removed
          wiEdits, wiReconnects

wiVars == <<wiAccounts, wiMapping, wiUnit, wiRunning, wiDevice, wiPc, wiJob, wiAt,
            wiSeen, wiRetries, wiRemoved, wiEdits, wiReconnects>>

Init == /\ wiAccounts = <<>> /\ wiMapping = <<>>
        /\ wiUnit = [a \in Ids |-> 0] /\ wiRunning = [a \in Ids |-> 0]
        /\ wiDevice = [a \in Ids |-> NoDevice]
        /\ wiPc = "idle" /\ wiJob = <<>> /\ wiAt = 1
        /\ wiSeen = <<>> /\ wiRetries = 0
        /\ wiRemoved = FALSE /\ wiEdits = 0 /\ wiReconnects = 0

-----------------------------------------------------------------------------
Files == <<wiMapping, wiUnit>>
World == <<wiAccounts, wiRemoved, wiEdits, wiReconnects>>
Search == <<wiSeen, wiRetries>>
Done == wiPc' = "idle" /\ wiJob' = <<>> /\ wiAt' = 1 /\ wiSeen' = <<>> /\ wiRetries' = 0

Edit(accounts) == wiEdits < MaxEdits /\ wiEdits' = wiEdits + 1 /\ wiAccounts' = accounts
                  /\ UNCHANGED <<Files, wiRunning, wiDevice, wiPc, wiJob, wiAt, Search, wiReconnects>>
AddAccount == \E a \in Ids \ Range(wiAccounts) :
    Edit(Append(wiAccounts, a)) /\ UNCHANGED wiRemoved
RemoveAccount == \E i \in DOMAIN wiAccounts : Edit(RemoveAt(wiAccounts, i)) /\ wiRemoved' = TRUE

(* A tunnel that runs comes back by itself, another way perhaps.           *)
Reconnect == wiReconnects < MaxReconnects /\ wiReconnects' = wiReconnects + 1
             /\ \E a \in Ids : /\ wiRunning[a] # 0
                               /\ \E way \in Ways \ {wiDevice[a]} : wiDevice' = [wiDevice EXCEPT ![a] = way]
             /\ UNCHANGED <<wiAccounts, wiRemoved, wiEdits, Files, wiRunning, wiPc, wiJob, wiAt, Search>>

(* main of the generator, on the accounts it read at the start: a device   *)
(* unless there is one, the secret, both unit files, the next port. A      *)
(* refused registration, or a key that is missing for the secret, ends the *)
(* script: the earlier units are written and the mapping is not.           *)
Generate == /\ wiPc = "idle" /\ wiAccounts # <<>>
            /\ wiPc' = "generate" /\ wiJob' = wiAccounts /\ wiAt' = 1
            /\ UNCHANGED <<World, Files, wiRunning, wiDevice, Search>>
PortAmongNew(job, at) == 1 + Cardinality({i \in 1..(at - 1) : wiRunning[job[i]] = 0})
PortOf(job, at) == at
Keys(a) == \E way \in IF wiDevice[a] = NoDevice THEN Ways ELSE {wiDevice[a]} :
                wiDevice' = [wiDevice EXCEPT ![a] = way]
UnitFile(a, port) == wiUnit' = [wiUnit EXCEPT ![a] = port]
GenerateNext == /\ wiPc = "generate" /\ wiAt <= Len(wiJob) /\ wiAt' = wiAt + 1
                /\ Keys(wiJob[wiAt]) /\ UnitFile(wiJob[wiAt], PortOf(wiJob, wiAt))
                /\ UNCHANGED <<World, wiMapping, wiRunning, wiPc, wiJob, Search>>
RegistrationRefused == /\ wiPc = "generate" /\ wiAt <= Len(wiJob)
                       /\ wiDevice[wiJob[wiAt]] = NoDevice
                       /\ Done /\ UNCHANGED <<World, Files, wiRunning, wiDevice>>
GenerateEnds == /\ wiPc = "generate" /\ wiAt > Len(wiJob)
                /\ wiMapping' = wiJob /\ wiPc' = "start" /\ wiJob' = <<>> /\ wiAt' = 1
                /\ UNCHANGED <<World, wiUnit, wiRunning, wiDevice, Search>>

(* start_containers: every unit file there is, those of accounts long gone *)
(* too. A unit that runs is left as it runs; a port taken means it fails.  *)
(* A reboot starts the same units.                                         *)
Startable(a) == wiUnit[a] # 0 /\ wiRunning[a] = 0 /\ wiUnit[a] \notin Range(wiRunning)
StartUnit == /\ wiPc = "start"
             /\ \E a \in Ids : Startable(a) /\ wiRunning' = [wiRunning EXCEPT ![a] = wiUnit[a]]
             /\ UNCHANGED <<World, Files, wiDevice, wiPc, wiJob, wiAt, Search>>
StartEnds == /\ wiPc = "start" /\ ~\E a \in Ids : Startable(a)
             /\ Done /\ UNCHANGED <<World, Files, wiRunning, wiDevice>>
Reboot == /\ wiPc = "idle" /\ wiReconnects < MaxReconnects /\ wiReconnects' = wiReconnects + 1
          /\ wiRunning' = [a \in Ids |-> 0] /\ wiPc' = "start"
          /\ UNCHANGED <<wiAccounts, wiRemoved, wiEdits, Files, wiDevice, wiJob, wiAt, Search>>

-----------------------------------------------------------------------------
(* The sidecar that serves the port shares the network of the tunnel.      *)
Behind(port) == {a \in Ids : wiRunning[a] = port}
Fetch(port) == IF Behind(port) = {} THEN Failed ELSE wiDevice[CHOOSE a \in Behind(port) : TRUE]

(* verify_all_ips: one status per account; a collision is one with an      *)
(* earlier account that was ok. All is well when everyone is ok.           *)
Up(a) == wiRunning[a] # 0
Status(job, i) ==
    LET okBefore == {Fetch(n) : n \in {m \in 1..(i - 1) : Up(job[m])}} \ {Failed, HostIp}
    IN  CASE ~Up(job[i])                     -> "container"
          [] Up(job[i]) /\ Fetch(i) = Failed -> "proxy_failed"
          [] Up(job[i]) /\ Fetch(i) = HostIp -> "bypass_detected"
          [] OTHER -> IF Fetch(i) \in okBefore THEN "collision" ELSE "ok"
Verified(job) == \A i \in DOMAIN job : Status(job, i) = "ok"

(* enforce_unique_ips: a first look at every port; one that does not       *)
(* answer ends the script (errexit), so no account is ever marked FAILED.  *)
EnforceBegins == /\ wiPc = "idle" /\ wiMapping # <<>>
                 /\ \A i \in DOMAIN wiMapping : Fetch(i) # Failed
                 /\ wiPc' = "enforce" /\ wiJob' = wiMapping
                 /\ wiSeen' = [i \in DOMAIN wiMapping |-> Fetch(i)]
                 /\ UNCHANGED <<World, Files, wiRunning, wiDevice, wiAt, wiRetries>>

(* The accounts whose address an earlier account has.                      *)
EarlierOfTwo(seen) == {i \in DOMAIN seen : \E j \in (i + 1)..Len(seen) : seen[j] = seen[i]}
Colliding(seen) == {i \in DOMAIN seen : \E j \in 1..(i - 1) : seen[j] = seen[i]}
First(places) == CHOOSE i \in places : \A j \in places : i <= j
\* Mutant of MayRetry: the retries are not counted against their number.
RetryAlways == Colliding(wiSeen) # {}
MayRetry == Colliding(wiSeen) # {} /\ wiRetries < MaxRetries * Len(wiJob)

(* reregister_warp_device: a new key and device, the secret replaced, both *)
(* containers restarted, with the unit file of now; then another look.     *)
Reregister == LET i == First(Colliding(wiSeen)) a == wiJob[i] IN
    /\ wiPc = "enforce" /\ MayRetry /\ wiUnit[a] # 0
    /\ \E way \in Ways :
        /\ wiDevice' = [wiDevice EXCEPT ![a] = way]
        /\ wiRunning' = [wiRunning EXCEPT ![a] =
                IF \E b \in Ids \ {a} : wiRunning[b] = wiUnit[a] THEN 0 ELSE wiUnit[a]]
        /\ wiPc' = "look"
    /\ wiRetries' = wiRetries + 1
    /\ UNCHANGED <<World, Files, wiJob, wiAt, wiSeen>>
ReregisterFails == /\ wiPc = "enforce" /\ MayRetry /\ wiRetries' = wiRetries + 1
                   /\ UNCHANGED <<World, Files, wiRunning, wiDevice, wiPc, wiJob, wiAt, wiSeen>>
LookAgain == LET i == First(Colliding(wiSeen)) IN
    /\ wiPc = "look"
    /\ IF Fetch(i) = Failed THEN Done
       ELSE /\ wiSeen' = [wiSeen EXCEPT ![i] = Fetch(i)] /\ wiPc' = "enforce"
            /\ UNCHANGED <<wiJob, wiAt, wiRetries>>
    /\ UNCHANGED <<World, Files, wiRunning, wiDevice>>
(* The last look decides what is reported.                                 *)
EnforceEnds == /\ wiPc = "enforce" /\ ~MayRetry
               /\ Done /\ UNCHANGED <<World, Files, wiRunning, wiDevice>>

Next == \/ AddAccount \/ RemoveAccount \/ Reconnect \/ Reboot
        \/ Generate \/ GenerateNext \/ RegistrationRefused \/ GenerateEnds
        \/ StartUnit \/ StartEnds
        \/ EnforceBegins \/ Reregister \/ ReregisterFails \/ LookAgain \/ EnforceEnds
Script == \/ GenerateNext \/ GenerateEnds \/ StartUnit \/ StartEnds
          \/ Reregister \/ ReregisterFails \/ LookAgain \/ EnforceEnds
Spec == Init /\ [][Next]_wiVars /\ WF_wiVars(Script)

-----------------------------------------------------------------------------
TypeOK == /\ wiAccounts \in Seq(Ids) /\ wiMapping \in Seq(Ids) /\ wiJob \in Seq(Ids)
          /\ wiUnit \in [Ids -> 0..Cardinality(Ids)] /\ wiRunning \in [Ids -> 0..Cardinality(Ids)]
          /\ wiDevice \in [Ids -> Ways \union {NoDevice}]
          /\ wiPc \in {"idle", "generate", "start", "enforce", "look"}
          /\ wiAt \in 1..(Cardinality(Ids) + 1) /\ wiSeen \in Seq(Ips \union {HostIp})
          /\ wiRetries \in 0..(MaxRetries * Cardinality(Ids))

(* While accounts are only added, no account's traffic goes through the    *)
(* tunnel of another: the port the mapping gives it is its own container's *)
(* or nobody's.                                                            *)
OwnTunnel == ~wiRemoved =>
    \A i \in DOMAIN wiMapping, a \in Ids : wiRunning[a] = i => a = wiMapping[i]

(* And when the check says all is well, each account leaves through its   *)
(* own device, by an address of its own that is not the host's.            *)
VerifiedIsOwn == ~wiRemoved /\ Verified(wiMapping) =>
    \A i \in DOMAIN wiMapping :
        /\ wiDevice[wiMapping[i]] \notin {HostIp, Failed}
        /\ \A j \in DOMAIN wiMapping \ {i} : wiDevice[wiMapping[j]] # wiDevice[wiMapping[i]]

(* Registering devices anew makes progress in the order of the mapping:    *)
(* the accounts before the first collision keep distinct addresses.        *)
DistinctUpTo(seen) == CHOOSE n \in 0..Len(seen) :
    /\ \A i, j \in 1..n : i # j => seen[i] # seen[j]
    /\ n < Len(seen) => \E i \in 1..n : seen[i] = seen[n + 1]
Enforcing == wiPc \in {"enforce", "look"}
UniqueStay == Enforcing /\ Enforcing' => DistinctUpTo(wiSeen') >= DistinctUpTo(wiSeen)

(* Every run of a script comes to an end, whatever the provider answers.   *)
AtWork == wiPc # "idle"
ScriptsEnd == AtWork ~> ~AtWork
=============================================================================
