---------------------------- MODULE Confinement ----------------------------
(* The life of one confined application tree: the launcher `cfc            *)
(* applications run', `cfc applications stop' run by another               *)
(* administrator, the root gate that systemd starts inside the unit and    *)
(* that attests the unit before it lets go of the application, and the     *)
(* service manager between them (cfc/src/confinement/mod.rs and native.rs).*)
(*                                                                         *)
(* What the gate reads (the unit's properties, its ancestors', the dynamic *)
(* identity, the filters of each direction) can change under it: a piece   *)
(* is in `right' while it is as the manifest asks, and each piece changes  *)
(* at most once.  Calls to systemctl may fail; the launcher may be         *)
(* signalled or killed at any point.                                       *)
EXTENDS Naturals, Sequences, FiniteSets

CONSTANT MaxMoved  \* how many pieces may change under the gate

VARIABLES
    launcher, \* where `run' stands
    stopping, \* where each caller of stop() stands
    files,    \* what of the tree's control files is on disk
    active,   \* the unit's ActiveState
    cgroup,   \* the unit's control group and what runs in it
    gate,     \* how many of its checks the gate has passed
    right,    \* the pieces that are as the manifest asks
    moved,    \* the pieces that have changed
    together, \* the directions whose filters were right together with the rest
    signalled,\* a signal waits in the launcher's streams
    told      \* what the launcher knows or reported of the application

confVars == <<launcher, stopping, files, active, cgroup, gate, right,
              moved, together, signalled, told>>

Callers == {"run", "admin"}
Directions == {"ingress", "egress"}
(* What attest_properties() compares, and with the identity all that is    *)
(* declared.                                                               *)
AttestProperties == {"unit", "ancestors"}
DeclaredPieces == AttestProperties \cup {"identity"}
Pieces == {"runtime", "group"} \cup DeclaredPieces \cup Directions
Control == {"dir", "manifest", "unit"}

(* gate() and verify() in their order; the properties and the identity are *)
(* read a second time after the filters.                                   *)
(* Faulty variant: once is enough.                                         *)
VerifyOnce == <<"group", "unit", "ancestors", "identity", "ingress", "egress">>
Verify == <<"group", "unit", "ancestors", "identity", "ingress", "egress",
            "unit", "ancestors", "identity">>
GateChecks == <<"manifest", "runtime">> \o Verify

ReadManifest == {"dir", "manifest"} \subseteq files
CheckRuntime == "runtime" \in right
GroupHolds == "group" \in right
UnitHolds == "unit" \in files /\ "unit" \in right
IdentityHolds == "identity" \in right
CheckHolds(piece) ==
    CASE piece = "manifest" -> ReadManifest
      [] piece = "runtime"  -> CheckRuntime
      [] piece = "group"    -> GroupHolds
      [] piece = "unit"     -> UnitHolds
      [] piece = "identity" -> IdentityHolds
      [] OTHER              -> piece \in right

(* Directions whose filters stand right beside everything declared. *)
TogetherNow(R) == {d \in Directions : DeclaredPieces \cup {d} \subseteq R}

Populated == cgroup \in {"gate", "app", "stuck"}
Running == active = "active"
RemovedFromDisk == files \cap {"dir", "unit"} = {}
Removed == files \cap {"dir", "unit"} = {} /\ cgroup = "none"

-----------------------------------------------------------------------------
(* The launcher. *)

RunChecks ==
    /\ launcher = "check"
    /\ launcher' = IF CheckRuntime THEN "mkdir" ELSE "error"
    /\ UNCHANGED <<stopping, files, active, cgroup, gate, right, moved,
                   together, signalled, told>>

(* One provisioning step writes its file or fails, possibly with the file  *)
(* created, and then everything written is removed again.                  *)
Provision(step, file, next) ==
    /\ launcher = step
    /\ \/ /\ step = "manifest" => "dir" \in files
          /\ files' = files \cup {file}
          /\ launcher' = next
          /\ UNCHANGED stopping
       \/ /\ step = "mkdir"
          /\ launcher' = "error"
          /\ UNCHANGED <<files, stopping>>
       \/ /\ step # "mkdir"
          /\ \/ files' = files
             \/ /\ step = "manifest" => "dir" \in files
                /\ files' = files \cup {file}
          /\ launcher' = "abandon"
          /\ stopping' = [stopping EXCEPT !["run"] = "rmUnit"]
    /\ UNCHANGED <<active, cgroup, gate, right, moved, together,
                   signalled, told>>

(* The manager finds a unit on disk, or keeps it because it runs or failed; *)
(* an inactive one it may forget, and with it the exit status.              *)
Known == "unit" \in files \/ active # "inactive"

ThenStop(next) ==
    /\ launcher' = next
    /\ stopping' = [stopping EXCEPT !["run"] = "look"]

RunReload ==
    /\ launcher = "reload"
    /\ \/ launcher' = "start" /\ UNCHANGED stopping
       \/ ThenStop("setupError")
    /\ UNCHANGED <<files, active, cgroup, gate, right, moved, together,
                   signalled, told>>

(* `systemctl start': the manager loads the unit, makes its control group  *)
(* and executes the gate in it; without a unit file there is no start.     *)
RunStart ==
    /\ launcher = "start"
    /\ \/ /\ Known
          /\ active' = "active"
          /\ cgroup' = "gate"
          /\ gate' = 0
          /\ together' = TogetherNow(right)
          /\ launcher' = "poll"
          /\ UNCHANGED stopping
       \/ ThenStop("setupError") /\ UNCHANGED <<active, cgroup, gate, together>>
    /\ UNCHANGED <<files, right, moved, signalled, told>>

Leave(how) == launcher' = "status" /\ told' = [told EXCEPT !.completed = how]

(* One turn of the watch loop: a tree whose directory is gone was stopped  *)
(* by another administrator, a failed query ends the watch with an error.  *)
RunPoll ==
    /\ launcher = "poll"
    /\ \/ "dir" \notin files /\ Leave(FALSE) /\ UNCHANGED stopping
       \/ "dir" \in files /\ ~Running /\ Leave(TRUE) /\ UNCHANGED stopping
       \/ "dir" \in files /\ Running /\ signalled /\ Leave(FALSE) /\ UNCHANGED stopping
       \/ "dir" \in files /\ ThenStop("watchError") /\ UNCHANGED told
    /\ UNCHANGED <<files, active, cgroup, gate, right, moved, together, signalled>>

(* The status is asked for while the directory is there; a unit the        *)
(* manager has forgotten has status 0.                                     *)
RunStatus ==
    /\ launcher = "status"
    /\ \/ /\ \E status \in {"0", told.exit} :
                /\ status = "0" \/ "dir" \in files
                /\ status = told.exit \/ "dir" \notin files \/ active = "inactive"
                /\ told' = [told EXCEPT !.status = status]
          /\ ThenStop("stop")
       \/ "dir" \in files /\ ThenStop("watchError") /\ UNCHANGED told
    /\ UNCHANGED <<files, active, cgroup, gate, right, moved, together, signalled>>

(* What the launcher reports once its own stop() is through. *)
RunEnds ==
    /\ launcher \in {"stop", "abandon", "setupError", "watchError"}
    /\ stopping["run"] \in {"ok", "failed"}
    /\ launcher' = IF /\ launcher = "stop"
                      /\ stopping["run"] = "ok"
                      /\ ~told.completed \/ told.status = "0"
                   THEN "done" ELSE "error"
    /\ UNCHANGED <<stopping, files, active, cgroup, gate, right, moved,
                   together, signalled, told>>

(* SIGINT, SIGTERM, SIGHUP and SIGQUIT wait for the watch loop; SIGKILL    *)
(* ends the launcher where it stands.                                      *)
Signal ==
    /\ launcher \in {"mkdir", "manifest", "unit", "reload", "start", "poll"}
    /\ ~signalled
    /\ signalled' = TRUE
    /\ UNCHANGED <<launcher, stopping, files, active, cgroup, gate,
                   right, moved, together, told>>

Killed ==
    /\ launcher \notin {"done", "error", "killed"}
    /\ launcher' = "killed"
    /\ stopping' = [stopping EXCEPT !["run"] = "idle"]
    /\ UNCHANGED <<files, active, cgroup, gate, right, moved, together,
                   signalled, told>>

-----------------------------------------------------------------------------
(* stop(): look, ask the manager, count the processes, remove the files.   *)

Step(c, from, to) ==
    /\ stopping[c] = from
    /\ stopping' = [stopping EXCEPT ![c] = to]

AdminStops ==
    /\ stopping["admin"] \in {"idle", "ok", "failed"}
    /\ launcher \notin {"check", "mkdir"}
    /\ stopping' = [stopping EXCEPT !["admin"] = "look"]
    /\ UNCHANGED <<launcher, files, active, cgroup, gate, right, moved,
                   together, signalled, told>>

StopLooks(c) ==
    /\ Step(c, "look", IF Removed THEN "ok" ELSE "ask")
    /\ UNCHANGED <<launcher, files, active, cgroup, gate, right, moved,
                   together, signalled, told>>

(* The manager kills the control group; a process that cannot be killed    *)
(* stays behind in a unit marked failed.  A unit nobody knows is an error. *)
StopAsks(c) ==
    /\ \/ /\ Known
          /\ Step(c, "ask", "census")
          /\ active' = IF Running THEN "inactive" ELSE active
          /\ \/ cgroup' = IF Populated /\ cgroup # "stuck" THEN "empty" ELSE cgroup
             \/ cgroup = "app" /\ cgroup' = "stuck"
          /\ gate' = IF cgroup = "gate" THEN 0 ELSE gate
          /\ told' = IF Running THEN [told EXCEPT !.exit = "signal"] ELSE told
       \/ /\ Step(c, "ask", IF Removed THEN "ok" ELSE "failed")
          /\ UNCHANGED <<active, cgroup, gate, told>>
    /\ UNCHANGED <<launcher, files, right, moved, together, signalled>>

Census(c) == Step(c, "census", IF Populated THEN "failed" ELSE "rmUnit")

(* cgroup.events may vanish with its group between the two looks: an error. *)
StopCounts(c) ==
    /\ \/ Census(c)
       \/ cgroup = "empty" /\ Step(c, "census", "failed")
    /\ UNCHANGED <<launcher, files, active, cgroup, gate, right, moved,
                   together, signalled, told>>

(* cleanup_files() takes a file that is already gone as removed. *)
RemoveFile(c, from, file, to) ==
    /\ Step(c, from, to)
    /\ files' = files \ {file}
    /\ UNCHANGED <<launcher, active, cgroup, gate, right, moved,
                   together, signalled, told>>

CleanupFiles(c) ==
    \/ RemoveFile(c, "rmUnit", "unit", "rmManifest")
    \/ RemoveFile(c, "rmManifest", "manifest", "rmDir")
    \/ /\ "manifest" \notin files
       /\ RemoveFile(c, "rmDir", "dir",
                 IF c = "run" /\ launcher = "abandon" THEN "ok" ELSE "reload")
    \/ /\ "manifest" \in files \* written since: the directory is not empty
       /\ Step(c, "rmDir", "failed")
       /\ UNCHANGED <<launcher, files, active, cgroup, gate, right, moved,
                      together, signalled, told>>

StopReloads(c) ==
    /\ \/ Step(c, "reload", "ok")
       \/ Step(c, "reload", "failed")
    /\ UNCHANGED <<launcher, files, active, cgroup, gate, right, moved,
                   together, signalled, told>>

-----------------------------------------------------------------------------
(* The gate, the application and the system around them. *)

GateRefuses ==
    /\ active' = "failed"
    /\ cgroup' = "empty"
    /\ gate' = 0
    /\ told' = [told EXCEPT !.exit = "125"]

GateStep ==
    /\ cgroup = "gate"
    /\ gate < Len(GateChecks)
    /\ \/ /\ CheckHolds(GateChecks[gate + 1])
          /\ gate' = gate + 1
          /\ UNCHANGED <<active, cgroup, told>>
       \/ ~CheckHolds(GateChecks[gate + 1]) /\ GateRefuses
    /\ UNCHANGED <<launcher, stopping, files, right, moved, together, signalled>>

(* Credentials and capabilities are dropped and the drop is read back. *)
DropPrivileges ==
    /\ cgroup = "gate"
    /\ gate = Len(GateChecks)
    /\ \/ gate' = gate + 1 /\ UNCHANGED <<active, cgroup, told>>
       \/ GateRefuses
    /\ UNCHANGED <<launcher, stopping, files, right, moved, together, signalled>>

(* The sandbox is executed in the gate's place, or refuses to be. *)
GateReleases ==
    /\ cgroup = "gate"
    /\ gate = Len(GateChecks) + 1
    /\ \/ cgroup' = "app" /\ gate' = 0 /\ UNCHANGED <<active, told>>
       \/ GateRefuses
    /\ UNCHANGED <<launcher, stopping, files, right, moved, together, signalled>>

AppExits ==
    /\ cgroup = "app"
    /\ \E code \in {"0", "1"} :
          /\ told' = [told EXCEPT !.exit = code]
          /\ active' = IF code = "0" THEN "inactive" ELSE "failed"
    /\ cgroup' = "empty"
    /\ UNCHANGED <<launcher, stopping, files, gate, right, moved,
                   together, signalled>>

StuckDies ==
    /\ cgroup = "stuck"
    /\ cgroup' = "empty"
    /\ UNCHANGED <<launcher, stopping, files, active, gate, right, moved,
                   together, signalled, told>>

GroupReaped ==
    /\ cgroup = "empty"
    /\ cgroup' = "none"
    /\ UNCHANGED <<launcher, stopping, files, active, gate, right, moved,
                   together, signalled, told>>

PieceChanges ==
    /\ cgroup = "gate"
    /\ Cardinality(moved) < MaxMoved
    /\ \E p \in Pieces \ moved :
          /\ moved' = moved \cup {p}
          /\ right' = IF p \in right THEN right \ {p} ELSE right \cup {p}
    /\ together' = together \cup TogetherNow(right')
    /\ UNCHANGED <<launcher, stopping, files, active, cgroup, gate,
                   signalled, told>>

-----------------------------------------------------------------------------

ConfInit ==
    /\ launcher = "check"
    /\ stopping = [c \in Callers |-> "idle"]
    /\ files = {}
    /\ active = "inactive"
    /\ cgroup = "none"
    /\ gate = 0
    /\ right \in {Pieces} \cup {Pieces \ {p} : p \in Pieces}
    /\ moved = {}
    /\ together = {}
    /\ signalled = FALSE
    /\ told = [completed |-> FALSE, status |-> "0", exit |-> "0"]

StopStep(c) ==
    \/ StopLooks(c)
    \/ StopAsks(c)
    \/ StopCounts(c)
    \/ CleanupFiles(c)
    \/ StopReloads(c)

ConfNext ==
    \/ RunChecks
    \/ Provision("mkdir", "dir", "manifest")
    \/ Provision("manifest", "manifest", "unit")
    \/ Provision("unit", "unit", "reload")
    \/ RunReload
    \/ RunStart
    \/ RunPoll
    \/ RunStatus
    \/ RunEnds
    \/ Signal
    \/ Killed
    \/ AdminStops
    \/ \E c \in Callers : StopStep(c)
    \/ GateStep
    \/ DropPrivileges
    \/ GateReleases
    \/ AppExits
    \/ StuckDies
    \/ GroupReaped
    \/ PieceChanges

ConfSpec == ConfInit /\ [][ConfNext]_confVars

-----------------------------------------------------------------------------
(* What the tree's owner relies on. *)

(* An application is let go only if, for each direction, its filters were  *)
(* once right at the same time as the unit's declared properties, its      *)
(* ancestors' and its dynamic identity: reading the declarations before    *)
(* and after the filters (native.rs verify) leaves no moment at which      *)
(* what was attested never held together.                                  *)
AttestedTogether == cgroup = "app" => together = Directions

(* When the launcher's own stop() or cleanup succeeds, no process of the   *)
(* tree and no control file is left, whatever another administrator's      *)
(* stop did in between (mod.rs stop, cleanup_files).                       *)
NothingLeftBehind == stopping["run"] = "ok" => files = {} /\ ~Populated

(* The command's help: "Stop every process in a confined tree before       *)
(* releasing its permissions": while a process runs the unit is on disk.   *)
StopBeforeRelease == Populated => "unit" \in files
=============================================================================
