------------------------------ MODULE Rollout ------------------------------
(***************************************************************************)
(* Putting a version on the server and taking it back (deploy.sh), beside  *)
(* the check that tells the operator how the server is (vps-health-check)  *)
(* and remembers what it told. On the server are a link to the version in  *)
(* force, the unit that starts it, the version .previous names and the     *)
(* frontend's files. A version is good, or never answers.                  *)
(***************************************************************************)
EXTENDS Naturals

CONSTANTS Versions,     \* in the order they are built
          Bad,          \* those that never answer
          MaxDeploys, MaxReboots    \* bounds

None == 0
Itself == MaxDeploys + 1    \* readlink -f of a link that is not there yet: its own path

RolloutAssumption ==
    /\ MaxDeploys \in Nat /\ MaxReboots \in Nat
    /\ Versions \subseteq Nat \ {None, Itself}

VARIABLES roLink, roRunning, roPrevious, roFrontend,
          roPc, roVersion,      \* the script at work, the version it brings
          roBuilt, roDeploys,   \* the newest version, how many were deployed
          roReported,   \* history: what the last script to end said
          roCareless,   \* history: deployed over a version not known to be good
          roState,      \* /tmp/antigravity-health-state
          roTold,       \* the last message of the health check
          roReboots

roVars == <<roLink, roRunning, roPrevious, roFrontend, roPc, roVersion, roBuilt, roDeploys,
            roReported, roCareless, roState, roTold, roReboots>>

Init == /\ roLink = None /\ roRunning = None /\ roPrevious = None /\ roFrontend = None
        /\ roPc = "idle" /\ roVersion = None /\ roBuilt = 0 /\ roDeploys = 0
        /\ roReported = "complete" /\ roCareless = FALSE
        /\ roState = "unknown" /\ roTold = "nothing" /\ roReboots = 0

-----------------------------------------------------------------------------
Server == <<roLink, roRunning, roPrevious>>
Watch == <<roState, roTold, roReboots>>
Good(v) == v \in Versions \ Bad
Ends(report) == roPc' = "idle" /\ roVersion' = None /\ roReported' = report

(* cmd_deploy: the next version, or the one built last once more.          *)
Build == /\ roPc = "idle" /\ roDeploys < MaxDeploys
         /\ \E v \in {roBuilt, roBuilt + 1} \intersect Versions : roBuilt' = v /\ roVersion' = v
         /\ roDeploys' = roDeploys + 1
         /\ roCareless' = (roCareless \/ roReported = "failed")
         /\ roPc' = "built"
         /\ UNCHANGED <<Server, roFrontend, roReported, Watch>>
SyncFrontend == /\ roPc = "built" /\ roFrontend' = roVersion /\ roPc' = "synced"
                /\ UNCHANGED <<Server, roVersion, roBuilt, roDeploys, roReported, roCareless, Watch>>
(* The script run on the server: what is in force becomes the previous     *)
(* version; then the link, the unit and the restart.                       *)
BackupTooLate(link, new) == new
Backup(link, new) == IF link = None THEN Itself ELSE link
BackUp == /\ roPc = "synced"
          /\ roPrevious' = Backup(roLink, roVersion) /\ roPc' = "saved"
          /\ UNCHANGED <<roLink, roRunning, roFrontend, roVersion, roBuilt, roDeploys,
                         roReported, roCareless, Watch>>
Switch == /\ roPc = "saved"
          /\ roLink' = roVersion /\ roRunning' = roVersion /\ roPc' = "health"
          /\ UNCHANGED <<roPrevious, roFrontend, roVersion, roBuilt, roDeploys,
                         roReported, roCareless, Watch>>

(* cmd_rollback: to what .previous names, which keeps its name; nothing to *)
(* go back to, or the link itself (ln refuses), ends the script. The       *)
(* frontend's files stay.                                                  *)
Rollback == /\ roPc = "idle"
            /\ IF roPrevious \in Versions
               THEN /\ roLink' = roPrevious /\ roRunning' = roPrevious
                    /\ roPc' = "health" /\ roVersion' = roPrevious /\ UNCHANGED roReported
               ELSE UNCHANGED <<roLink, roRunning, roPc, roVersion, roReported>>
            /\ UNCHANGED <<roPrevious, roFrontend, roBuilt, roDeploys, roCareless, Watch>>

(* Fifteen questions, four seconds apart.                                  *)
AwaitHealth == /\ roPc = "health"
               /\ Ends(IF Good(roRunning) THEN "complete" ELSE "failed")
               /\ UNCHANGED <<Server, roFrontend, roBuilt, roDeploys, roCareless, Watch>>
(* The connection to the server breaks: the script ends where it is.       *)
ConnectionLost == /\ roPc # "idle" /\ Ends("failed")
                  /\ UNCHANGED <<Server, roFrontend, roBuilt, roDeploys, roCareless, Watch>>

-----------------------------------------------------------------------------
(* A service that is not active, one that answers /healthz, or one that    *)
(* does not: a bad version is restarted by systemd, and a good one may be  *)
(* too busy to answer.                                                     *)
Answers == IF roRunning = None THEN {"down"}
           ELSE IF Good(roRunning) THEN {"ok", "error"} ELSE {"down", "error"}
Told(before, now) == CASE now = "down" -> "DOWN"
                       [] now = "error" -> "DEGRADED"
                       [] now = "ok" -> IF before \in {"down", "error"} THEN "RECOVERED" ELSE "nothing"
SavedIfWorse(before, now) == IF now = "ok" THEN before ELSE now
StateAfter(before, now) == now
HealthCheck == /\ \E now \in Answers :
                    /\ roState' = StateAfter(roState, now)
                    /\ roTold' = IF now = roState \/ Told(roState, now) = "nothing"
                                 THEN roTold ELSE Told(roState, now)
               /\ UNCHANGED <<Server, roFrontend, roPc, roVersion, roBuilt, roDeploys,
                              roReported, roCareless, roReboots>>
(* /tmp does not outlive a reboot.                                         *)
Reboot == /\ roReboots < MaxReboots /\ roReboots' = roReboots + 1
          /\ roState' = "unknown" /\ roRunning' = roLink
          /\ roPc = "idle"
          /\ UNCHANGED <<roLink, roPrevious, roFrontend, roPc, roVersion, roBuilt, roDeploys,
                         roReported, roCareless, roTold>>

Next == \/ Build \/ SyncFrontend \/ BackUp \/ Switch \/ Rollback \/ AwaitHealth \/ ConnectionLost
        \/ HealthCheck \/ Reboot
Spec == Init /\ [][Next]_roVars

-----------------------------------------------------------------------------
TypeOK == /\ roLink \in Versions \union {None} /\ roRunning \in Versions \union {None}
          /\ roPrevious \in Versions \union {None, Itself} /\ roFrontend \in Versions \union {None}
          /\ roPc \in {"idle", "built", "synced", "saved", "health"}
          /\ roVersion \in Versions \union {None} /\ roBuilt \in Versions \union {0}
          /\ roDeploys \in 0..MaxDeploys /\ roReported \in {"complete", "failed"}
          /\ roCareless \in BOOLEAN /\ roState \in {"unknown", "down", "error", "ok"}
          /\ roTold \in {"nothing", "DOWN", "DEGRADED", "RECOVERED"}
          /\ roReboots \in 0..MaxReboots

(* An operator who takes back every deployment that failed before the next *)
(* one always has a way back: with a good version ever in force, the       *)
(* version in force or the previous one is good.                           *)
WayBack == roCareless \/ roLink = None \/ roPrevious = Itself
           \/ Good(roLink) \/ Good(roPrevious)

(* Without a reboot, the last message is what the last check found: no     *)
(* outage is left untold, and none is left standing.                       *)
ToldAsItIs == roReboots = 0 =>
    /\ roState = "unknown" => roTold = "nothing"
    /\ roState = "down" => roTold = "DOWN"
    /\ roState = "error" => roTold = "DEGRADED"
    /\ roState = "ok" => roTold \in {"nothing", "RECOVERED"}
=============================================================================
