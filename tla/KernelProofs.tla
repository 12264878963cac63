---------------------------- MODULE KernelProofs ----------------------------
(***************************************************************************)
(* What rests on the kernel: that an application is let go only under      *)
(* filters that once stood beside everything declared of its unit, that a  *)
(* stop which succeeds leaves nothing behind, that the filters and the     *)
(* declarations the gate accepts do confine, and so does the program it    *)
(* hands to the sandbox, that what the daemon says of the eBPF layer it    *)
(* brought up is so, that the offsets it patches into the exec program     *)
(* are the kernel's, and that the processes the kernel refuses are the     *)
(* ones the rules refuse.                                                  *)
(***************************************************************************)
EXTENDS KernelDeny, Confinement, ConfineCheck, KernelLoad, Btf, ListProofs, SequenceTheorems,
        FiniteSetTheorems, TLAPS

(* The gate.                                                               *)

LEMMA GateOrder ==
  /\ Len(GateChecks) = 11
  /\ GateChecks[4] = "unit" /\ GateChecks[5] = "ancestors" /\ GateChecks[6] = "identity"
  /\ GateChecks[7] = "ingress" /\ GateChecks[8] = "egress"
  /\ GateChecks[9] = "unit" /\ GateChecks[10] = "ancestors" /\ GateChecks[11] = "identity"
<1> DEFINE First == <<"manifest", "runtime">>
           Read == {"manifest", "runtime", "group", "unit", "ancestors", "identity", "ingress", "egress"}
<1>1. First \in Seq(Read) /\ Len(First) = 2
  OBVIOUS
<1>2. Verify \in Seq(Read) /\ Len(Verify) = 9
  BY DEF Verify
<1>3. GateChecks = First \o Verify
  BY DEF GateChecks
<1> HIDE DEF First, Read
<1>4. Len(GateChecks) = Len(First) + Len(Verify)
  BY <1>1, <1>2, <1>3, ConcatProperties
<1>5. ASSUME NEW i \in 3..11
      PROVE  GateChecks[i] = Verify[i - 2]
  <2>1. i \in 1..(Len(First) + Len(Verify))
    BY <1>1, <1>2
  <2>2. GateChecks[i] = IF i <= Len(First) THEN First[i] ELSE Verify[i - Len(First)]
    BY <2>1, <1>1, <1>2, <1>3, ConcatProperties
  <2> QED
    BY <2>2, <1>1
<1> QED
  BY <1>1, <1>2, <1>4, <1>5 DEF Verify

\* A piece that was wrong when it changed for good.
Spoilt(p) == p \in moved /\ p \notin right

\* What is still to be checked once n checks are passed.
Left(n) == {GateChecks[i] : i \in (n + 1)..11}

\* The declared pieces the gate has passed are right, or changed since; and a
\* direction whose filters it has passed was right together with them, or one it
\* will look at again has changed for good.
GateTypes ==
  /\ gate \in 0..12 /\ right \subseteq Pieces /\ together \subseteq Directions
  /\ cgroup \in {"none", "gate", "app", "stuck", "empty"}
PassedOnce ==
  cgroup = "gate" => \A i \in 4..6 : i <= gate => GateChecks[i] \in right \cup moved
SeenTogether ==
  cgroup = "gate" =>
    /\ TogetherNow(right) \subseteq together
    /\ \A i \in 7..8 : i <= gate =>
         \/ GateChecks[i] \in together
         \/ \E p \in DeclaredPieces \cap Left(gate) : Spoilt(p)
GateInv == GateTypes /\ PassedOnce /\ SeenTogether /\ AttestedTogether

LEMMA LeftSays ==
  /\ \A n \in 0..8 : DeclaredPieces \subseteq Left(n)
  /\ Left(9) = {"ancestors", "identity"} /\ Left(10) = {"identity"} /\ Left(11) = {} /\ Left(12) = {}
<1>1. \A n \in 0..8 : DeclaredPieces \subseteq Left(n)
  <2> SUFFICES ASSUME NEW n \in 0..8 PROVE DeclaredPieces \subseteq Left(n)
    OBVIOUS
  <2>1. {9, 10, 11} \subseteq (n + 1)..11
    OBVIOUS
  <2> QED
    BY <2>1, GateOrder DEF Left, DeclaredPieces, AttestProperties
<1>2. (9 + 1)..11 = {10, 11} /\ (10 + 1)..11 = {11} /\ (11 + 1)..11 = {} /\ (12 + 1)..11 = {}
  OBVIOUS
<1> QED
  BY <1>1, <1>2, GateOrder DEF Left

LEMMA GateStarts == ConfInit => GateInv
BY DEF ConfInit, GateInv, GateTypes, PassedOnce, SeenTogether, AttestedTogether, Pieces

\* The gate's own steps: each check that passes is one piece found right.
LEMMA GateStepKeeps == GateInv /\ GateStep => GateInv'
<1> SUFFICES ASSUME GateInv, GateStep PROVE GateInv'
  OBVIOUS
<1>1. cgroup = "gate" /\ gate \in 0..10 /\ UNCHANGED <<right, moved, together>>
  BY GateOrder DEF GateStep, GateInv, GateTypes
<1>2. CASE GateRefuses
  BY <1>1, <1>2 DEF GateRefuses, GateInv, GateTypes, PassedOnce, SeenTogether, AttestedTogether
<1>3. CASE CheckHolds(GateChecks[gate + 1]) /\ gate' = gate + 1 /\ UNCHANGED <<active, cgroup, told>>
  <2> DEFINE p == GateChecks[gate + 1]
  <2>1. p \in DeclaredPieces \cup Directions => p \in right
    BY <1>3 DEF CheckHolds, UnitHolds, IdentityHolds, DeclaredPieces, AttestProperties, Directions
  <2>2. GateTypes'
    BY <1>1, <1>3 DEF GateInv, GateTypes
  <2>3. PassedOnce'
    <3> SUFFICES ASSUME NEW i \in 4..6, i <= gate + 1 PROVE GateChecks[i] \in right \cup moved
      BY <1>1, <1>3 DEF PassedOnce
    <3>1. CASE i <= gate
      BY <1>1, <3>1 DEF GateInv, PassedOnce
    <3>2. CASE i = gate + 1
      BY <2>1, <3>2, GateOrder DEF DeclaredPieces, AttestProperties
    <3> QED
      BY <1>1, <3>1, <3>2
  <2>4. SeenTogether'
    <3> SUFFICES ASSUME NEW i \in 7..8, i <= gate + 1
                 PROVE  \/ GateChecks[i] \in together
                        \/ \E q \in DeclaredPieces \cap Left(gate + 1) : Spoilt(q)
      BY <1>1, <1>3 DEF GateInv, SeenTogether, Spoilt, TogetherNow
    <3>1. CASE i = gate + 1
      <4>1. CASE DeclaredPieces \subseteq right
        BY <1>1, <2>1, <3>1, <4>1, GateOrder DEF GateInv, SeenTogether, TogetherNow, Directions
      <4>2. CASE \E q \in DeclaredPieces : q \notin right
        <5>1. PICK q \in DeclaredPieces : q \notin right
          BY <4>2
        <5>2. q \in moved
          BY <1>1, <3>1, <5>1, GateOrder DEF GateInv, PassedOnce, DeclaredPieces, AttestProperties
        <5>3. q \in Left(gate + 1)
          BY <3>1, <5>1, LeftSays
        <5> QED
          BY <5>1, <5>2, <5>3 DEF Spoilt
      <4> QED
        BY <4>1, <4>2
    <3>2. CASE i <= gate
      <4>1. \/ GateChecks[i] \in together
            \/ \E q \in DeclaredPieces \cap Left(gate) : Spoilt(q)
        BY <1>1, <3>2 DEF GateInv, SeenTogether
      <4>2. ASSUME NEW q \in DeclaredPieces \cap Left(gate), Spoilt(q)
            PROVE  q \in Left(gate + 1)
        <5>1. q # p
          BY <2>1, <4>2 DEF Spoilt
        <5>2. PICK j \in (gate + 1)..11 : q = GateChecks[j]
          BY <4>2 DEF Left
        <5>3. j \in (gate + 2)..11
          BY <1>1, <5>1, <5>2
        <5> QED
          BY <1>1, <5>2, <5>3 DEF Left
      <4> QED
        BY <4>1, <4>2
    <3> QED
      BY <1>1, <3>1, <3>2
  <2>5. AttestedTogether'
    BY <1>1, <1>3 DEF AttestedTogether
  <2> QED
    BY <2>2, <2>3, <2>4, <2>5 DEF GateInv
<1> QED
  BY <1>2, <1>3 DEF GateStep

\* A piece changes at most once: what was right and is spoilt stays so.
LEMMA PieceKeeps == GateInv /\ PieceChanges => GateInv'
<1> SUFFICES ASSUME GateInv, PieceChanges PROVE GateInv'
  OBVIOUS
<1>1. PICK p \in Pieces \ moved :
        /\ moved' = moved \cup {p}
        /\ right' = IF p \in right THEN right \ {p} ELSE right \cup {p}
  BY DEF PieceChanges
<1>2. cgroup = "gate" /\ UNCHANGED <<cgroup, gate>> /\ together' = together \cup TogetherNow(right')
  BY DEF PieceChanges
<1>3. GateTypes'
  BY <1>1, <1>2 DEF GateInv, GateTypes, TogetherNow
<1>4. PassedOnce'
  BY <1>1, <1>2 DEF GateInv, PassedOnce
<1>5. TogetherNow(right)' \subseteq together'
  BY <1>2 DEF TogetherNow
<1>6. \A q : Spoilt(q) => Spoilt(q)'
  BY <1>1 DEF Spoilt
<1>7. SeenTogether'
  BY <1>2, <1>5, <1>6 DEF GateInv, SeenTogether, Left
<1>8. AttestedTogether'
  BY <1>2 DEF AttestedTogether
<1> QED
  BY <1>3, <1>4, <1>7, <1>8 DEF GateInv

\* The gate starts with what stands now, and lets go only past its last check.
LEMMA GateOpens == GateInv /\ (RunStart \/ DropPrivileges \/ GateReleases) => GateInv'
<1> SUFFICES ASSUME GateInv PROVE RunStart \/ DropPrivileges \/ GateReleases => GateInv'
  OBVIOUS
<1>1. ASSUME RunStart, cgroup' = "gate", gate' = 0, together' = TogetherNow(right)
      PROVE  GateInv'
  BY <1>1 DEF RunStart, GateInv, GateTypes, PassedOnce, SeenTogether, AttestedTogether, TogetherNow
<1>2. ASSUME RunStart, UNCHANGED <<cgroup, gate, together>>
      PROVE  GateInv'
  BY <1>2 DEF RunStart, GateInv, GateTypes, PassedOnce, SeenTogether, AttestedTogether, TogetherNow, Spoilt, Left
<1>3. ASSUME GateRefuses, UNCHANGED <<right, moved, together>>
      PROVE  GateInv'
  BY <1>3 DEF GateRefuses, GateInv, GateTypes, PassedOnce, SeenTogether, AttestedTogether
<1>4. ASSUME cgroup = "gate", gate \in 11..12
      PROVE  "ingress" \in together /\ "egress" \in together
  <2>1. Left(gate) = {}
    BY <1>4, LeftSays
  <2> QED
    BY <1>4, <2>1, GateOrder DEF GateInv, SeenTogether
<1>5. ASSUME DropPrivileges, gate' = gate + 1, UNCHANGED cgroup
      PROVE  GateInv'
  <2>1. cgroup = "gate" /\ gate = 11 /\ UNCHANGED <<right, moved, together>>
    BY <1>5, GateOrder DEF DropPrivileges
  <2>2. PassedOnce'
    BY <1>5, <2>1 DEF GateInv, PassedOnce
  <2>3. SeenTogether'
    BY <1>4, <1>5, <2>1, GateOrder DEF GateInv, SeenTogether, TogetherNow
  <2> QED
    BY <1>5, <2>1, <2>2, <2>3 DEF GateInv, GateTypes, AttestedTogether
<1>6. ASSUME GateReleases, cgroup' = "app", gate' = 0
      PROVE  GateInv'
  <2>1. cgroup = "gate" /\ gate = 12 /\ UNCHANGED <<right, moved, together>>
    BY <1>6, GateOrder DEF GateReleases
  <2>2. together = Directions
    <3>1. "ingress" \in together /\ "egress" \in together
      BY <1>4, <2>1
    <3>2. together \subseteq {"ingress", "egress"}
      BY DEF GateInv, GateTypes, Directions
    <3> QED
      BY <3>1, <3>2 DEF Directions
  <2> QED
    BY <1>6, <2>1, <2>2 DEF GateInv, GateTypes, PassedOnce, SeenTogether, AttestedTogether
<1> QED
  BY <1>1, <1>2, <1>3, <1>5, <1>6 DEF RunStart, DropPrivileges, GateReleases

\* No other step moves the gate, but to empty its control group.
LEMMA GateLeftAlone ==
  ASSUME GateInv, UNCHANGED <<right, moved, together>>,
         \/ UNCHANGED <<cgroup, gate>>
         \/ cgroup' \in {"none", "empty", "stuck"} /\ gate' \in {0, gate}
  PROVE  GateInv'
BY DEF GateInv, GateTypes, PassedOnce, SeenTogether, AttestedTogether, TogetherNow, Spoilt, Left

LEMMA GateKept == GateInv /\ [ConfNext]_confVars => GateInv'
<1> SUFFICES ASSUME GateInv, [ConfNext]_confVars PROVE GateInv'
  OBVIOUS
<1>1. CASE RunChecks \/ RunReload \/ RunPoll \/ RunStatus \/ RunEnds \/ Signal \/ Killed \/ AdminStops
  BY <1>1, GateLeftAlone DEF RunChecks, RunReload, RunPoll, RunStatus, RunEnds, Signal, Killed, AdminStops
<1>2. CASE \/ Provision("mkdir", "dir", "manifest") \/ Provision("manifest", "manifest", "unit")
           \/ Provision("unit", "unit", "reload")
  BY <1>2, GateLeftAlone DEF Provision
<1>3. ASSUME NEW c \in Callers, StopStep(c)
      PROVE  GateInv'
  <2>1. CASE StopLooks(c) \/ StopCounts(c) \/ StopReloads(c)
    BY <2>1, GateLeftAlone DEF StopLooks, StopCounts, StopReloads
  <2>2. CASE CleanupFiles(c)
    BY <2>2, GateLeftAlone DEF CleanupFiles, RemoveFile
  <2>3. CASE StopAsks(c)
    <3>1. UNCHANGED <<right, moved, together>>
      BY <2>3 DEF StopAsks
    <3>2. CASE UNCHANGED <<cgroup, gate>>
      BY <3>1, <3>2, GateLeftAlone
    <3>3. CASE gate' = (IF cgroup = "gate" THEN 0 ELSE gate) /\ cgroup' = "empty"
      BY <3>1, <3>3, GateLeftAlone
    <3>4. CASE gate' = (IF cgroup = "gate" THEN 0 ELSE gate) /\ cgroup = "app" /\ cgroup' = "stuck"
      BY <3>1, <3>4, GateLeftAlone
    <3>5. CASE gate' = (IF cgroup = "gate" THEN 0 ELSE gate) /\ cgroup # "gate" /\ cgroup' = cgroup
      BY <3>1, <3>5, GateLeftAlone
    <3> QED
      BY <2>3, <3>2, <3>3, <3>4, <3>5 DEF StopAsks, Populated
  <2> QED
    BY <1>3, <2>1, <2>2, <2>3 DEF StopStep
<1>4. CASE AppExits \/ StuckDies \/ GroupReaped
  BY <1>4, GateLeftAlone DEF AppExits, StuckDies, GroupReaped
<1>5. CASE UNCHANGED confVars
  BY <1>5, GateLeftAlone DEF confVars
<1> QED
  BY <1>1, <1>2, <1>3, <1>4, <1>5, GateStepKeeps, PieceKeeps, GateOpens DEF ConfNext

\* An application is let go only if the filters of each direction once stood right
\* beside everything declared of its unit: whatever changes while the gate reads,
\* a piece it passed twice was right in between (native.rs verify, mod.rs gate).
THEOREM AttestedTogetherHolds == ConfSpec => []AttestedTogether
<1>1. GateInv => AttestedTogether
  BY DEF GateInv
<1> QED
  BY <1>1, GateStarts, GateKept, PTL DEF ConfSpec

-----------------------------------------------------------------------------
(* The stop.                                                               *)

Provisioning == {"check", "mkdir", "manifest", "unit", "reload", "start"}
Watching == {"poll", "status"}
Stopping == {"abandon", "setupError", "watchError", "stop"}
Ended == {"done", "error", "killed"}

\* Only the launcher writes the tree's files and starts its unit, and it does
\* neither once it stops; a directory that holds the manifest is not removed.
StopTypes ==
  /\ launcher \in Provisioning \cup Watching \cup Stopping \cup Ended
  /\ DOMAIN stopping = Callers /\ files \subseteq Control
  /\ cgroup \in {"none", "gate", "app", "stuck", "empty"}
OwnStop ==
  /\ launcher \in Provisioning \cup Watching \cup {"killed"} => stopping["run"] = "idle"
  /\ "manifest" \in files => "dir" \in files
\* Nothing runs before the start, and nothing again once the census found it empty.
NothingRuns ==
  launcher \in Provisioning \cup {"abandon"} \/ stopping["run"] \in {"rmUnit", "rmManifest", "rmDir", "reload", "ok"} =>
    ~Populated
\* What this stop has removed stays away.
RemovedSoFar ==
  /\ stopping["run"] \in {"rmManifest", "rmDir", "reload", "ok"} => "unit" \notin files
  /\ stopping["run"] \in {"rmDir", "reload", "ok"} => "manifest" \notin files
  /\ stopping["run"] \in {"reload", "ok"} => "dir" \notin files
StopInv == StopTypes /\ OwnStop /\ NothingRuns /\ RemovedSoFar

LEMMA StopStarts == ConfInit => StopInv
BY DEF ConfInit, StopInv, StopTypes, OwnStop, NothingRuns, RemovedSoFar, Provisioning, Watching,
       Stopping, Ended, Callers, Control, Populated

\* Whoever stops, only the launcher's own stop is its concern.
LEMMA StepTaken ==
  ASSUME NEW c \in Callers, NEW from, NEW to, StopTypes, Step(c, from, to)
  PROVE  /\ DOMAIN stopping' = Callers
         /\ c = "run" => stopping["run"] = from /\ stopping'["run"] = to
         /\ c # "run" => stopping'["run"] = stopping["run"]
BY DEF Step, StopTypes, Callers

\* What a step may do that leaves the launcher, its stop and the files alone.
LEMMA StopLeftAlone ==
  ASSUME StopInv, UNCHANGED <<launcher, stopping, files>>,
         cgroup' \in {"none", "gate", "app", "stuck", "empty"}, Populated' => Populated
  PROVE  StopInv'
BY DEF StopInv, StopTypes, OwnStop, NothingRuns, RemovedSoFar

LEMMA LauncherKeepsStop ==
  ASSUME StopInv,
         \/ RunChecks \/ RunReload \/ RunStart \/ RunPoll \/ RunStatus \/ RunEnds
         \/ Signal \/ Killed
         \/ Provision("mkdir", "dir", "manifest") \/ Provision("manifest", "manifest", "unit")
         \/ Provision("unit", "unit", "reload")
  PROVE  StopInv'
<1> USE DEF StopInv, StopTypes, OwnStop, NothingRuns, RemovedSoFar, Provisioning, Watching, Stopping, Ended, Callers, Control
<1>1. CASE RunChecks
  BY <1>1 DEF RunChecks, Populated
<1>2. CASE RunReload
  BY <1>2 DEF RunReload, ThenStop, Populated
<1>3. CASE RunStart
  BY <1>3 DEF RunStart, ThenStop, Populated
<1>4. CASE RunPoll \/ RunStatus
  BY <1>4 DEF RunPoll, RunStatus, ThenStop, Leave, Populated
<1>5. CASE RunEnds \/ Signal
  BY <1>5 DEF RunEnds, Signal, Populated
<1>6. CASE Killed
  BY <1>6 DEF Killed, Populated
<1>7. CASE Provision("mkdir", "dir", "manifest")
  BY <1>7 DEF Provision, Populated
<1>8. CASE Provision("manifest", "manifest", "unit")
  BY <1>8 DEF Provision, Populated
<1>9. CASE Provision("unit", "unit", "reload")
  BY <1>9 DEF Provision, Populated
<1> QED
  BY <1>1, <1>2, <1>3, <1>4, <1>5, <1>6, <1>7, <1>8, <1>9

LEMMA StopStepKeeps ==
  ASSUME StopInv, NEW c \in Callers, StopStep(c)
  PROVE  StopInv'
<1>1. UNCHANGED launcher
  BY DEF StopStep, StopLooks, StopAsks, StopCounts, CleanupFiles, RemoveFile, StopReloads
<1>2. CASE StopLooks(c)
  <2>1. UNCHANGED <<files, cgroup>> /\ Step(c, "look", IF Removed THEN "ok" ELSE "ask")
    BY <1>2 DEF StopLooks
  <2> QED
    BY <1>1, <2>1, StepTaken DEF StopInv, StopTypes, OwnStop, NothingRuns, RemovedSoFar, Populated,
       Removed, Control, Provisioning, Watching
<1>3. CASE StopAsks(c)
  <2>1. cgroup' \in {"none", "gate", "app", "stuck", "empty"}
    BY <1>3 DEF StopAsks, StopInv, StopTypes
  <2>2. PICK to : Step(c, "ask", to) /\ (to = "ok" => Removed /\ UNCHANGED cgroup) /\ to \in {"census", "ok", "failed"}
    BY <1>3 DEF StopAsks
  <2>3. UNCHANGED files /\ (Populated' => Populated)
    BY <1>3 DEF StopAsks, Populated
  <2> QED
    BY <1>1, <2>1, <2>2, <2>3, StepTaken DEF StopInv, StopTypes, OwnStop, NothingRuns, RemovedSoFar, Populated,
       Removed, Control, Provisioning, Watching
<1>4. CASE StopCounts(c)
  <2>1. UNCHANGED <<files, cgroup>>
    BY <1>4 DEF StopCounts
  <2>2. PICK to : Step(c, "census", to) /\ (to = "rmUnit" => ~Populated) /\ to \in {"rmUnit", "failed"}
    BY <1>4 DEF StopCounts, Census
  <2> QED
    BY <1>1, <2>1, <2>2, StepTaken DEF StopInv, StopTypes, OwnStop, NothingRuns, RemovedSoFar, Populated,
       Control, Provisioning, Watching
<1>5. ASSUME NEW from \in {"rmUnit", "rmManifest", "rmDir"}, NEW to, NEW file,
             RemoveFile(c, from, file, to),
             \/ <<from, file, to>> = <<"rmUnit", "unit", "rmManifest">>
             \/ <<from, file, to>> = <<"rmManifest", "manifest", "rmDir">>
             \/ from = "rmDir" /\ file = "dir" /\ to \in {"ok", "reload"} /\ "manifest" \notin files
      PROVE  StopInv'
  <2>1. Step(c, from, to) /\ files' = files \ {file} /\ UNCHANGED cgroup
    BY <1>5 DEF RemoveFile
  <2> QED
    BY <1>1, <1>5, <2>1, StepTaken DEF StopInv, StopTypes, OwnStop, NothingRuns, RemovedSoFar, Populated,
       Control, Provisioning, Watching
<1>6. CASE CleanupFiles(c)
  <2>1. CASE "manifest" \in files /\ Step(c, "rmDir", "failed") /\ UNCHANGED <<files, cgroup>>
    BY <1>1, <2>1, StepTaken DEF StopInv, StopTypes, OwnStop, NothingRuns, RemovedSoFar, Populated,
       Control, Provisioning, Watching
  <2> QED
    BY <1>5, <1>6, <2>1 DEF CleanupFiles
<1>7. CASE StopReloads(c)
  <2>1. UNCHANGED <<files, cgroup>>
    BY <1>7 DEF StopReloads
  <2>2. PICK to : Step(c, "reload", to) /\ to \in {"ok", "failed"}
    BY <1>7 DEF StopReloads
  <2> QED
    BY <1>1, <2>1, <2>2, StepTaken DEF StopInv, StopTypes, OwnStop, NothingRuns, RemovedSoFar, Populated,
       Control, Provisioning, Watching
<1> QED
  BY <1>2, <1>3, <1>4, <1>6, <1>7 DEF StopStep

LEMMA StopKept == StopInv /\ [ConfNext]_confVars => StopInv'
<1> SUFFICES ASSUME StopInv, [ConfNext]_confVars PROVE StopInv'
  OBVIOUS
<1>1. CASE GateStep \/ DropPrivileges \/ GateReleases
  BY <1>1, StopLeftAlone DEF GateStep, DropPrivileges, GateReleases, GateRefuses, Populated, StopInv, StopTypes
<1>2. CASE AppExits \/ StuckDies \/ GroupReaped \/ PieceChanges
  BY <1>2, StopLeftAlone DEF AppExits, StuckDies, GroupReaped, PieceChanges, Populated, StopInv, StopTypes
<1>3. CASE AdminStops
  <2>1. UNCHANGED <<launcher, files, cgroup>> /\ stopping' = [stopping EXCEPT !["admin"] = "look"]
    BY <1>3 DEF AdminStops
  <2>2. DOMAIN stopping' = Callers /\ stopping'["run"] = stopping["run"]
    BY <2>1 DEF StopInv, StopTypes, Callers
  <2> QED
    BY <2>1, <2>2 DEF StopInv, StopTypes, OwnStop, NothingRuns, RemovedSoFar, Populated
<1>4. CASE UNCHANGED confVars
  BY <1>4 DEF confVars, StopInv, StopTypes, OwnStop, NothingRuns, RemovedSoFar, Populated
<1> QED
  BY <1>1, <1>2, <1>3, <1>4, LauncherKeepsStop, StopStepKeeps DEF ConfNext

\* When the launcher's own stop or cleanup succeeds, no process of the tree and no
\* control file is left, whatever another administrator's stop does in between
\* (mod.rs stop, cleanup_files).
THEOREM NothingLeftBehindHolds == ConfSpec => []NothingLeftBehind
<1>1. StopInv => NothingLeftBehind
  BY DEF StopInv, StopTypes, NothingRuns, RemovedSoFar, NothingLeftBehind, Control
<1> QED
  BY <1>1, StopStarts, StopKept, PTL DEF ConfSpec

-----------------------------------------------------------------------------
(* The inspection of the native filters.                                   *)

\* What the kernel can show the inspection: lists of numbers and of prefixes, and
\* finitely many approved peers.
FilterCase(c) ==
  /\ c.allowed \subseteq Peers /\ IsFiniteSet(c.allowed)
  /\ c.direct \in Seq(Nat)
  /\ \A id \in Ids(c.direct) : c.programs[id].name = "sd_fw" =>
        \A i \in DOMAIN c.programs[id].maps : c.programs[id].maps[i].keys \in Seq(SUBSET Addresses)

DeclaredCase(c) == c.allowed \subseteq Peers

HostsOf(maps, i, k) == {Peer(maps[i].family, a) : a \in maps[i].keys[k]}
ReadKeys(m, allowed) == {k \in DOMAIN m.keys : k <= KeysRead(allowed)}

\* What the walk over the maps establishes of the keys it read.
LEMMA WalkSays ==
  ASSUME NEW maps, NEW allowed, IpMaps(maps, allowed), NEW i \in DOMAIN maps, NEW k \in ReadKeys(maps[i], allowed)
  PROVE  /\ Cardinality(HostsOf(maps, i, k)) = 1 /\ HostsOf(maps, i, k) \subseteq allowed
         /\ \A l \in ReadKeys(maps[i], allowed) : l # k => HostsOf(maps, i, l) # HostsOf(maps, i, k)
<1> DEFINE read(m)  == {j \in DOMAIN m.keys : j <= KeysRead(allowed)}
           sites    == UNION {{<<x, j>> : j \in read(maps[x])} : x \in DOMAIN maps}
           hosts(s) == {Peer(maps[s[1]].family, a) : a \in maps[s[1]].keys[s[2]]}
<1>1. \A s \in sites : /\ Cardinality(hosts(s)) = 1
                       /\ hosts(s) \subseteq allowed
                       /\ \A t \in sites \ {s} : hosts(t) # hosts(s)
  BY DEF IpMaps
<1>2. ASSUME NEW l \in ReadKeys(maps[i], allowed)
      PROVE  <<i, l>> \in sites /\ hosts(<<i, l>>) = HostsOf(maps, i, l)
  <2>1. l \in read(maps[i])
    BY DEF ReadKeys
  <2>2. <<i, l>> \in {<<i, j>> : j \in read(maps[i])}
    BY <2>1
  <2> QED
    BY <2>2 DEF HostsOf
<1> HIDE DEF sites, hosts
<1>3. \A l \in ReadKeys(maps[i], allowed) : l # k => <<i, l>> # <<i, k>>
  OBVIOUS
<1> QED
  BY <1>1, <1>2, <1>3

\* No map holds a key the walk has not read: one more than there are approved
\* peers cannot all be different approved peers.
LEMMA AllKeysRead ==
  ASSUME NEW maps, NEW allowed, IpMaps(maps, allowed), IsFiniteSet(allowed),
         NEW i \in DOMAIN maps, maps[i].keys \in Seq(SUBSET Addresses)
  PROVE  ReadKeys(maps[i], allowed) = DOMAIN maps[i].keys
<1> DEFINE n == Cardinality(allowed)
           keys == maps[i].keys
<1>1. n \in Nat
  BY FS_CardinalityType
<1>2. DOMAIN keys = 1..Len(keys) /\ Len(keys) \in Nat
  OBVIOUS
<1>3. ASSUME Len(keys) > n PROVE FALSE
  <2> DEFINE S == 1..(n + 1)
             f == [k \in S |-> CHOOSE p \in allowed : HostsOf(maps, i, k) = {p}]
  <2>1. S \subseteq ReadKeys(maps[i], allowed)
    BY <1>1, <1>2, <1>3 DEF ReadKeys, KeysRead
  <2>2. IsFiniteSet(S) /\ Cardinality(S) = n + 1
    <3>1. 1 \in Int /\ n + 1 \in Int /\ ~(1 > n + 1) /\ (n + 1) - 1 + 1 = n + 1
      BY <1>1
    <3> HIDE DEF n
    <3> QED
      BY <3>1, FS_Interval
  <2>3. ASSUME NEW k \in S
        PROVE  \E p \in allowed : HostsOf(maps, i, k) = {p}
    <3>1. Cardinality(HostsOf(maps, i, k)) = 1 /\ HostsOf(maps, i, k) \subseteq allowed
      BY <2>1, WalkSays
    <3>2. IsFiniteSet(HostsOf(maps, i, k))
      BY <3>1, FS_Subset
    <3>3. PICK p : HostsOf(maps, i, k) = {p}
      BY <3>1, <3>2, FS_Singleton
    <3> QED
      BY <3>1, <3>3
  <2>4. \A k \in S : f[k] \in allowed /\ HostsOf(maps, i, k) = {f[k]}
    BY <2>3
  <2>5. f \in [S -> allowed]
    BY <2>4
  <2> HIDE DEF f
  <2>6. n < Cardinality(S)
    BY <1>1, <2>2
  <2> HIDE DEF S
  <2>7. PICK x, y \in S : x # y /\ f[x] = f[y]
    BY <2>2, <2>5, <2>6, FS_PigeonHole
  <2>8. HostsOf(maps, i, x) = HostsOf(maps, i, y)
    BY <2>4, <2>7
  <2> QED
    BY <2>1, <2>7, <2>8, WalkSays
<1> QED
  BY <1>1, <1>2, <1>3 DEF ReadKeys, KeysRead

\* An address filter the walk accepts admits approved peers alone.
LEMMA AddressFilterSays ==
  ASSUME NEW maps, NEW allowed, IpMaps(maps, allowed), IsFiniteSet(allowed),
         \A i \in DOMAIN maps : maps[i].keys \in Seq(SUBSET Addresses),
         NEW peer \in Peers, IpAdmits(maps, peer)
  PROVE  peer \in allowed
<1>1. PICK i \in DOMAIN maps : maps[i].family = peer.family /\ \E k \in DOMAIN maps[i].keys : peer.addr \in maps[i].keys[k]
  BY DEF IpAdmits
<1>2. PICK k \in DOMAIN maps[i].keys : peer.addr \in maps[i].keys[k]
  BY <1>1
<1>3. k \in ReadKeys(maps[i], allowed)
  BY AllKeysRead
<1>4. peer = Peer(maps[i].family, peer.addr)
  BY <1>1 DEF Peers, Peer
<1>5. peer \in HostsOf(maps, i, k)
  BY <1>2, <1>4 DEF HostsOf
<1> QED
  BY <1>3, <1>5, WalkSays

\* The attached pair is one program of each kind, and both are effective.
LEMMA PairSays ==
  ASSUME NEW c, FilterCase(c), Filters(c)
  PROVE  \E ip, iface \in Ids(c.direct) \cap (Ids(c.effective) \ {0}) :
            /\ c.programs[ip].name = "sd_fw" /\ c.programs[iface].name = "sd_restrictif"
            /\ Ids(c.direct) = {ip, iface}
<1>1. /\ c.direct \in Seq(Nat) /\ Len(c.direct) = 2 /\ Distinct(c.direct) /\ 0 \notin Ids(c.direct)
      /\ Ids(c.direct) \subseteq Ids(c.effective)
      /\ \A id \in Ids(c.direct) : c.programs[id].name \in {"sd_fw", "sd_restrictif"}
      /\ \A i, j \in Ids(c.direct) : c.programs[i].name = c.programs[j].name => i = j
  BY DEF FilterCase, Filters, ProgramSet, NativeProgram
<1> DEFINE a == c.direct[1]
           b == c.direct[2]
<1>2. DOMAIN c.direct = {1, 2}
  BY <1>1
<1>3. Ids(c.direct) = {a, b}
  BY <1>2 DEF Ids
<1>4. a # b
  BY <1>1, <1>2 DEF Distinct
<1> HIDE DEF a, b
<1>5. c.programs[a].name # c.programs[b].name
  BY <1>1, <1>3, <1>4
<1>6. \/ c.programs[a].name = "sd_fw" /\ c.programs[b].name = "sd_restrictif"
      \/ c.programs[b].name = "sd_fw" /\ c.programs[a].name = "sd_restrictif"
  BY <1>1, <1>3, <1>5
<1>7. {a, b} \subseteq Ids(c.direct) \cap (Ids(c.effective) \ {0})
  BY <1>1, <1>3
<1> QED
  BY <1>3, <1>6, <1>7

LEMMA FiltersSay ==
  ASSUME NEW c, FilterCase(c), Filters(c)
  PROVE  /\ \A peer \in Peers, iface \in Interfaces : Reaches(c, peer, iface) => peer \in c.allowed /\ iface # Loopback
         /\ \A peer \in c.allowed : \A id \in Ids(c.direct) : Admits(c.programs[id], peer, External)
<1>1. PICK ip, net \in Ids(c.direct) \cap (Ids(c.effective) \ {0}) :
            /\ c.programs[ip].name = "sd_fw" /\ c.programs[net].name = "sd_restrictif"
            /\ Ids(c.direct) = {ip, net}
  BY PairSays
<1>2. /\ IpMaps(c.programs[ip].maps, c.allowed)
      /\ \A peer \in c.allowed : Admits(c.programs[ip], peer, External)
  BY <1>1 DEF Filters, NativeMaps, TestRuns
<1>3. c.programs[net].maps.keys = <<Loopback>> /\ c.programs[net].maps.mode = 0
  BY <1>1 DEF Filters, NativeMaps, InterfaceMaps
<1>4. ASSUME NEW peer, NEW iface
      PROVE  /\ Admits(c.programs[ip], peer, iface) <=> IpAdmits(c.programs[ip].maps, peer)
             /\ Admits(c.programs[net], peer, iface) <=> iface # Loopback
  <2>1. Admits(c.programs[ip], peer, iface) <=> IpAdmits(c.programs[ip].maps, peer)
    BY <1>1 DEF Admits
  <2>2. Admits(c.programs[net], peer, iface) <=> InterfaceAdmits(c.programs[net].maps, iface)
    BY <1>1 DEF Admits
  <2>3. InterfaceAdmits(c.programs[net].maps, iface) <=> iface # Loopback
    BY <1>3 DEF InterfaceAdmits
  <2> QED
    BY <2>1, <2>2, <2>3
<1>5. ASSUME NEW peer \in Peers, NEW iface \in Interfaces, Reaches(c, peer, iface)
      PROVE  peer \in c.allowed /\ iface # Loopback
  <2>1. Admits(c.programs[ip], peer, iface) /\ Admits(c.programs[net], peer, iface)
    BY <1>1, <1>5 DEF Reaches
  <2>2. peer \in c.allowed
    BY <1>1, <1>2, <1>4, <2>1, AddressFilterSays DEF FilterCase
  <2> QED
    BY <1>4, <2>1, <2>2
<1>6. ASSUME NEW peer \in c.allowed, NEW id \in Ids(c.direct)
      PROVE  Admits(c.programs[id], peer, External)
  <2>1. External # Loopback
    BY DEF External, Loopback
  <2> QED
    BY <1>1, <1>2, <1>4, <2>1
<1> QED
  BY <1>5, <1>6

LEMMA DeclarationsSay ==
  ASSUME NEW c, DeclaredCase(c), Declarations(c)
  PROVE  FoldedPeers(c) = c.allowed
<1>1. /\ Ids(c.unit.allow) = {[family |-> p.family, prefix |-> {p.addr}] : p \in c.allowed}
      /\ c.unit.denyAny = TRUE
  BY DEF Declarations, CgroupProperties, IpPrefixes
<1>2. ASSUME NEW i \in DOMAIN c.slices, NEW j \in DOMAIN c.slices[i].allow
      PROVE  FALSE
  <2>1. CgroupProperties(c.slices[i], {}, FALSE)
    BY DEF Declarations
  <2>2. Ids(c.slices[i].allow) = {[family |-> p.family, prefix |-> {p.addr}] : p \in {}}
    BY <2>1 DEF CgroupProperties, IpPrefixes
  <2>3. c.slices[i].allow[j] \in Ids(c.slices[i].allow)
    BY DEF Ids
  <2> QED
    BY <2>2, <2>3
<1>3. ASSUME NEW p \in c.allowed
      PROVE  p \in FoldedPeers(c)
  <2>1. p \in Peers
    BY DEF DeclaredCase
  <2>2. [family |-> p.family, prefix |-> {p.addr}] \in Ids(c.unit.allow)
    BY <1>1
  <2>3. PICK i \in DOMAIN c.unit.allow : c.unit.allow[i] = [family |-> p.family, prefix |-> {p.addr}]
    BY <2>2 DEF Ids
  <2>4. c.unit.allow[i].family = p.family /\ p.addr \in c.unit.allow[i].prefix
    BY <2>3
  <2> QED
    BY <2>1, <2>4 DEF FoldedPeers
<1>4. ASSUME NEW p \in FoldedPeers(c)
      PROVE  p \in c.allowed
  <2>1. p \in Peers
    BY DEF FoldedPeers
  <2>2. PICK i \in DOMAIN c.unit.allow : c.unit.allow[i].family = p.family /\ p.addr \in c.unit.allow[i].prefix
    BY <1>1, <1>2, <1>4 DEF FoldedPeers
  <2>3. c.unit.allow[i] \in Ids(c.unit.allow)
    BY <2>2 DEF Ids
  <2>4. PICK q \in c.allowed : c.unit.allow[i] = [family |-> q.family, prefix |-> {q.addr}]
    BY <1>1, <2>3
  <2>5. q.family = p.family /\ q.addr = p.addr
    BY <2>2, <2>4
  <2>6. p = Peer(p.family, p.addr) /\ q = Peer(q.family, q.addr)
    BY <2>1 DEF DeclaredCase, Peers, Peer
  <2> QED
    BY <2>5, <2>6
<1> QED
  BY <1>3, <1>4

-----------------------------------------------------------------------------
(* The program for the sandbox.  It is put together of pieces whose jumps  *)
(* are relative; it is first shown to be one fixed listing, then to keep   *)
(* its jumps inside and forward, so that the machine that runs it has an   *)
(* answer at every place; and from the answers at the places the verdicts  *)
(* of the parts follow, from the last part to the first.                   *)

\* The instructions.
Fetch(field)     == [op |-> "ld", k |-> field, jt |-> 0, jf |-> 0]
Mask(w)          == [op |-> "and", k |-> w, jt |-> 0, jf |-> 0]
Equal(w, yes, no) == [op |-> "jeq", k |-> w, jt |-> yes, jf |-> no]
AnyOf(w, yes, no) == [op |-> "jset", k |-> w, jt |-> yes, jf |-> no]
Return(verdict)  == [op |-> "ret", k |-> verdict, jt |-> 0, jf |-> 0]

\* The program as the kernel runs it.
Listing == <<
  Fetch("arch"),
  Equal(NativeArch, 1, 0),
  Return(KILL),
  Fetch("nr"),
  AnyOf(X32, 0, 1),
  Return(KILL),
  Equal(Nr.socket, 0, 19),
  Fetch("arg0"),
  Equal(AfInet, 2, 0),
  Equal(AfInet6, 1, 0),
  Return(DENY),
  Fetch("arg1"),
  Mask(Bits \ SockFlags),
  Equal(SockStream, 0, 5),
  Fetch("arg2"),
  Equal({}, 2, 0),
  Equal(IpprotoTcp, 1, 0),
  Return(DENY),
  Return(ALLOW),
  Equal(SockDgram, 0, 5),
  Fetch("arg2"),
  Equal({}, 2, 0),
  Equal(IpprotoUdp, 1, 0),
  Return(DENY),
  Return(ALLOW),
  Return(DENY),
  Equal(Nr.clone, 0, 7),
  Fetch("high0"),
  Equal({}, 1, 0),
  Return(DENY),
  Fetch("arg0"),
  AnyOf(Bits \ CloneOrdinary, 0, 1),
  Return(DENY),
  Return(ALLOW),
  Equal(Nr.prctl, 0, 6),
  Fetch("arg0"),
  Equal({0}, 0, 1),
  Return(ALLOW),
  Equal({1}, 0, 1),
  Return(ALLOW),
  Return(DENY),
  Equal(Nr.ioctl, 0, 4),
  Fetch("arg1"),
  Equal({0, 1}, 0, 1),
  Return(ALLOW),
  Return(DENY),
  Equal(Nr.arch_prctl, 0, 4),
  Fetch("arg0"),
  Equal({2}, 0, 1),
  Return(ALLOW),
  Return(DENY),
  Equal(Nr.file, 0, 1),
  Return(ALLOW),
  Equal(Nr.memory, 0, 1),
  Return(ALLOW),
  Equal(Nr.process, 0, 1),
  Return(ALLOW),
  Equal(Nr.event, 0, 1),
  Return(ALLOW),
  Equal(Nr.peer, 0, 1),
  Return(ALLOW),
  Return(ENOSYS) >>

\* Place by place.
LEMMA ListingIs ==
  /\ Listing[1] = Fetch("arch")
  /\ Listing[2] = Equal(NativeArch, 1, 0)
  /\ Listing[3] = Return(KILL)
  /\ Listing[4] = Fetch("nr")
  /\ Listing[5] = AnyOf(X32, 0, 1)
  /\ Listing[6] = Return(KILL)
  /\ Listing[7] = Equal(Nr.socket, 0, 19)
  /\ Listing[8] = Fetch("arg0")
  /\ Listing[9] = Equal(AfInet, 2, 0)
  /\ Listing[10] = Equal(AfInet6, 1, 0)
  /\ Listing[11] = Return(DENY)
  /\ Listing[12] = Fetch("arg1")
  /\ Listing[13] = Mask(Bits \ SockFlags)
  /\ Listing[14] = Equal(SockStream, 0, 5)
  /\ Listing[15] = Fetch("arg2")
  /\ Listing[16] = Equal({}, 2, 0)
  /\ Listing[17] = Equal(IpprotoTcp, 1, 0)
  /\ Listing[18] = Return(DENY)
  /\ Listing[19] = Return(ALLOW)
  /\ Listing[20] = Equal(SockDgram, 0, 5)
  /\ Listing[21] = Fetch("arg2")
  /\ Listing[22] = Equal({}, 2, 0)
  /\ Listing[23] = Equal(IpprotoUdp, 1, 0)
  /\ Listing[24] = Return(DENY)
  /\ Listing[25] = Return(ALLOW)
  /\ Listing[26] = Return(DENY)
  /\ Listing[27] = Equal(Nr.clone, 0, 7)
  /\ Listing[28] = Fetch("high0")
  /\ Listing[29] = Equal({}, 1, 0)
  /\ Listing[30] = Return(DENY)
  /\ Listing[31] = Fetch("arg0")
  /\ Listing[32] = AnyOf(Bits \ CloneOrdinary, 0, 1)
  /\ Listing[33] = Return(DENY)
  /\ Listing[34] = Return(ALLOW)
  /\ Listing[35] = Equal(Nr.prctl, 0, 6)
  /\ Listing[36] = Fetch("arg0")
  /\ Listing[37] = Equal({0}, 0, 1)
  /\ Listing[38] = Return(ALLOW)
  /\ Listing[39] = Equal({1}, 0, 1)
  /\ Listing[40] = Return(ALLOW)
  /\ Listing[41] = Return(DENY)
  /\ Listing[42] = Equal(Nr.ioctl, 0, 4)
  /\ Listing[43] = Fetch("arg1")
  /\ Listing[44] = Equal({0, 1}, 0, 1)
  /\ Listing[45] = Return(ALLOW)
  /\ Listing[46] = Return(DENY)
  /\ Listing[47] = Equal(Nr.arch_prctl, 0, 4)
  /\ Listing[48] = Fetch("arg0")
  /\ Listing[49] = Equal({2}, 0, 1)
  /\ Listing[50] = Return(ALLOW)
  /\ Listing[51] = Return(DENY)
  /\ Listing[52] = Equal(Nr.file, 0, 1)
  /\ Listing[53] = Return(ALLOW)
  /\ Listing[54] = Equal(Nr.memory, 0, 1)
  /\ Listing[55] = Return(ALLOW)
  /\ Listing[56] = Equal(Nr.process, 0, 1)
  /\ Listing[57] = Return(ALLOW)
  /\ Listing[58] = Equal(Nr.event, 0, 1)
  /\ Listing[59] = Return(ALLOW)
  /\ Listing[60] = Equal(Nr.peer, 0, 1)
  /\ Listing[61] = Return(ALLOW)
  /\ Listing[62] = Return(ENOSYS)
  BY DEF Listing

\* The instructions from a up to b.
Piece(a, b) == [i \in 1..(b - a) |-> Listing[(a - 1) + i]]
Ordered(a, b, c) == a \in Nat /\ b \in Nat /\ c \in Nat /\ a <= b /\ b <= c

\* Pieces that meet are one piece.
LEMMA Joined ==
  ASSUME NEW a, NEW b, NEW c, Ordered(a, b, c)
  PROVE  Piece(a, b) \o Piece(b, c) = Piece(a, c)
<1> DEFINE m == b - a
           k == c - b
           both == [i \in 1..(m + k) |-> Listing[(a - 1) + i]]
           x == [i \in 1..m |-> both[i]]
           y == [i \in 1..k |-> both[m + i]]
<1> HIDE DEF Listing
<1>0. /\ a \in Nat /\ b \in Nat /\ c \in Nat /\ m \in Nat /\ k \in Nat /\ m + k = c - a
      /\ (a - 1) + m = b - 1
  BY DEF Ordered
<1>1. Piece(a, b) = x /\ Piece(b, c) = y
  <2>1. \A i \in 1..m : Listing[(a - 1) + i] = both[i]
    BY <1>0
  <2>2. \A i \in 1..k : Listing[(b - 1) + i] = both[m + i]
    <3>1. \A i \in 1..k : m + i \in 1..(m + k) /\ (b - 1) + i = (a - 1) + (m + i)
      BY <1>0
    <3> QED
      BY <3>1
  <2> QED
    BY <2>1, <2>2 DEF Piece
<1>2. both = [i \in 1..(m + k) |-> both[i]] /\ both = Piece(a, c)
  BY <1>0 DEF Piece
<1> HIDE DEF both, m, k
<1>3. x \o y = [i \in 1..(m + k) |-> both[i]]
  BY <1>0, Concatenated
<1> HIDE DEF x, y
<1> QED
  BY <1>1, <1>2, <1>3

LEMMA Single == ASSUME NEW a \in Nat, NEW b \in Nat, b = a + 1, NEW e, Listing[a] = e PROVE <<e>> = Piece(a, b)
<1> HIDE DEF Listing
<1>1. <<e>> = [i \in 1..1 |-> Listing[(a - 1) + i]]
  OBVIOUS
<1>2. b - a = 1
  OBVIOUS
<1> QED
  BY <1>1, <1>2 DEF Piece

\* The parts of the program are pieces of the listing.
LEMMA SocketListing == SocketPolicy = Piece(8, 27)
<1>1. Ordered(8, 9, 10) /\ Ordered(8, 10, 11) /\ Ordered(8, 11, 12) /\ Ordered(8, 12, 13) /\ Ordered(8, 13, 14) /\ Ordered(8, 14, 15) /\ Ordered(8, 15, 16) /\ Ordered(8, 16, 17) /\ Ordered(8, 17, 18) /\ Ordered(8, 18, 19) /\ Ordered(8, 19, 20) /\ Ordered(8, 20, 21) /\ Ordered(8, 21, 22) /\ Ordered(8, 22, 23) /\ Ordered(8, 23, 24) /\ Ordered(8, 24, 25) /\ Ordered(8, 25, 26) /\ Ordered(8, 26, 27)
  BY DEF Ordered
<1> DEFINE i1 == Statement("ld", "arg0")
           i2 == Jump("jeq", AfInet, 2, 0)
           i3 == Jump("jeq", AfInet6, 1, 0)
           i4 == Statement("ret", DENY)
           i5 == Statement("ld", "arg1")
           i6 == Statement("and", Bits \ SockFlags)
           i7 == Jump("jeq", SockStream, 0, 5)
           i8 == Statement("ld", "arg2")
           i9 == Jump("jeq", {}, 2, 0)
           i10 == Jump("jeq", IpprotoTcp, 1, 0)
           i11 == Statement("ret", DENY)
           i12 == Statement("ret", ALLOW)
           i13 == Jump("jeq", SockDgram, 0, 5)
           i14 == Statement("ld", "arg2")
           i15 == Jump("jeq", {}, 2, 0)
           i16 == Jump("jeq", IpprotoUdp, 1, 0)
           i17 == Statement("ret", DENY)
           i18 == Statement("ret", ALLOW)
           i19 == Statement("ret", DENY)
<1>2. i1 = Piece(8, 9)
  BY ListingIs, Single DEF Statement, Fetch
<1>3. i2 = Piece(9, 10)
  BY ListingIs, Single DEF Jump, Equal
<1>4. i3 = Piece(10, 11)
  BY ListingIs, Single DEF Jump, Equal
<1>5. i4 = Piece(11, 12)
  BY ListingIs, Single DEF Statement, Return
<1>6. i5 = Piece(12, 13)
  BY ListingIs, Single DEF Statement, Fetch
<1>7. i6 = Piece(13, 14)
  BY ListingIs, Single DEF Statement, Mask
<1>8. i7 = Piece(14, 15)
  BY ListingIs, Single DEF Jump, Equal
<1>9. i8 = Piece(15, 16)
  BY ListingIs, Single DEF Statement, Fetch
<1>10. i9 = Piece(16, 17)
  BY ListingIs, Single DEF Jump, Equal
<1>11. i10 = Piece(17, 18)
  BY ListingIs, Single DEF Jump, Equal
<1>12. i11 = Piece(18, 19)
  BY ListingIs, Single DEF Statement, Return
<1>13. i12 = Piece(19, 20)
  BY ListingIs, Single DEF Statement, Return
<1>14. i13 = Piece(20, 21)
  BY ListingIs, Single DEF Jump, Equal
<1>15. i14 = Piece(21, 22)
  BY ListingIs, Single DEF Statement, Fetch
<1>16. i15 = Piece(22, 23)
  BY ListingIs, Single DEF Jump, Equal
<1>17. i16 = Piece(23, 24)
  BY ListingIs, Single DEF Jump, Equal
<1>18. i17 = Piece(24, 25)
  BY ListingIs, Single DEF Statement, Return
<1>19. i18 = Piece(25, 26)
  BY ListingIs, Single DEF Statement, Return
<1>20. i19 = Piece(26, 27)
  BY ListingIs, Single DEF Statement, Return
<1> HIDE DEF i1, i2, i3, i4, i5, i6, i7, i8, i9, i10, i11, i12, i13, i14, i15, i16, i17, i18, i19
<1> DEFINE s2 == i1 \o i2
           s3 == s2 \o i3
           s4 == s3 \o i4
           s5 == s4 \o i5
           s6 == s5 \o i6
           s7 == s6 \o i7
           s8 == s7 \o i8
           s9 == s8 \o i9
           s10 == s9 \o i10
           s11 == s10 \o i11
           s12 == s11 \o i12
           s13 == s12 \o i13
           s14 == s13 \o i14
           s15 == s14 \o i15
           s16 == s15 \o i16
           s17 == s16 \o i17
           s18 == s17 \o i18
           s19 == s18 \o i19
<1>21. s2 = Piece(8, 10)
  BY <1>1, <1>2, <1>3, Joined, Zenon
<1> HIDE DEF s2
<1>22. s3 = Piece(8, 11)
  BY <1>1, <1>21, <1>4, Joined, Zenon
<1> HIDE DEF s3
<1>23. s4 = Piece(8, 12)
  BY <1>1, <1>22, <1>5, Joined, Zenon
<1> HIDE DEF s4
<1>24. s5 = Piece(8, 13)
  BY <1>1, <1>23, <1>6, Joined, Zenon
<1> HIDE DEF s5
<1>25. s6 = Piece(8, 14)
  BY <1>1, <1>24, <1>7, Joined, Zenon
<1> HIDE DEF s6
<1>26. s7 = Piece(8, 15)
  BY <1>1, <1>25, <1>8, Joined, Zenon
<1> HIDE DEF s7
<1>27. s8 = Piece(8, 16)
  BY <1>1, <1>26, <1>9, Joined, Zenon
<1> HIDE DEF s8
<1>28. s9 = Piece(8, 17)
  BY <1>1, <1>27, <1>10, Joined, Zenon
<1> HIDE DEF s9
<1>29. s10 = Piece(8, 18)
  BY <1>1, <1>28, <1>11, Joined, Zenon
<1> HIDE DEF s10
<1>30. s11 = Piece(8, 19)
  BY <1>1, <1>29, <1>12, Joined, Zenon
<1> HIDE DEF s11
<1>31. s12 = Piece(8, 20)
  BY <1>1, <1>30, <1>13, Joined, Zenon
<1> HIDE DEF s12
<1>32. s13 = Piece(8, 21)
  BY <1>1, <1>31, <1>14, Joined, Zenon
<1> HIDE DEF s13
<1>33. s14 = Piece(8, 22)
  BY <1>1, <1>32, <1>15, Joined, Zenon
<1> HIDE DEF s14
<1>34. s15 = Piece(8, 23)
  BY <1>1, <1>33, <1>16, Joined, Zenon
<1> HIDE DEF s15
<1>35. s16 = Piece(8, 24)
  BY <1>1, <1>34, <1>17, Joined, Zenon
<1> HIDE DEF s16
<1>36. s17 = Piece(8, 25)
  BY <1>1, <1>35, <1>18, Joined, Zenon
<1> HIDE DEF s17
<1>37. s18 = Piece(8, 26)
  BY <1>1, <1>36, <1>19, Joined, Zenon
<1> HIDE DEF s18
<1>38. s19 = Piece(8, 27)
  BY <1>1, <1>37, <1>20, Joined, Zenon
<1> HIDE DEF s19
<1>39. SocketPolicy = s19
  BY DEF SocketPolicy, s2, s3, s4, s5, s6, s7, s8, s9, s10, s11, s12, s13, s14, s15, s16, s17, s18, s19, i1, i2, i3, i4, i5, i6, i7, i8, i9, i10, i11, i12, i13, i14, i15, i16, i17, i18, i19
<1> QED
  BY <1>38, <1>39

LEMMA CloneListing == ClonePolicy = Piece(28, 35)
<1>1. Ordered(28, 29, 30) /\ Ordered(28, 30, 31) /\ Ordered(28, 31, 32) /\ Ordered(28, 32, 33) /\ Ordered(28, 33, 34) /\ Ordered(28, 34, 35)
  BY DEF Ordered
<1> DEFINE i1 == Statement("ld", "high0")
           i2 == Jump("jeq", {}, 1, 0)
           i3 == Statement("ret", DENY)
           i4 == Statement("ld", "arg0")
           i5 == Jump("jset", Bits \ CloneOrdinary, 0, 1)
           i6 == Statement("ret", DENY)
           i7 == Statement("ret", ALLOW)
<1>2. i1 = Piece(28, 29)
  BY ListingIs, Single DEF Statement, Fetch
<1>3. i2 = Piece(29, 30)
  BY ListingIs, Single DEF Jump, Equal
<1>4. i3 = Piece(30, 31)
  BY ListingIs, Single DEF Statement, Return
<1>5. i4 = Piece(31, 32)
  BY ListingIs, Single DEF Statement, Fetch
<1>6. i5 = Piece(32, 33)
  BY ListingIs, Single DEF Jump, AnyOf
<1>7. i6 = Piece(33, 34)
  BY ListingIs, Single DEF Statement, Return
<1>8. i7 = Piece(34, 35)
  BY ListingIs, Single DEF Statement, Return
<1> HIDE DEF i1, i2, i3, i4, i5, i6, i7
<1> DEFINE s2 == i1 \o i2
           s3 == s2 \o i3
           s4 == s3 \o i4
           s5 == s4 \o i5
           s6 == s5 \o i6
           s7 == s6 \o i7
<1>9. s2 = Piece(28, 30)
  BY <1>1, <1>2, <1>3, Joined, Zenon
<1> HIDE DEF s2
<1>10. s3 = Piece(28, 31)
  BY <1>1, <1>9, <1>4, Joined, Zenon
<1> HIDE DEF s3
<1>11. s4 = Piece(28, 32)
  BY <1>1, <1>10, <1>5, Joined, Zenon
<1> HIDE DEF s4
<1>12. s5 = Piece(28, 33)
  BY <1>1, <1>11, <1>6, Joined, Zenon
<1> HIDE DEF s5
<1>13. s6 = Piece(28, 34)
  BY <1>1, <1>12, <1>7, Joined, Zenon
<1> HIDE DEF s6
<1>14. s7 = Piece(28, 35)
  BY <1>1, <1>13, <1>8, Joined, Zenon
<1> HIDE DEF s7
<1>15. ClonePolicy = s7
  BY DEF ClonePolicy, s2, s3, s4, s5, s6, s7, i1, i2, i3, i4, i5, i6, i7
<1> QED
  BY <1>14, <1>15

Listed(options, n, a, b) ==
  /\ n \in Nat /\ a \in Nat /\ b = a + 2 * n /\ Len(options) = n
  /\ \A j \in 1..n : /\ Listing[a + 2 * j - 2] = Equal(options[j], 0, 1)
                      /\ Listing[a + 2 * j - 1] = Return(ALLOW)

\* A list of options takes two instructions each.
LEMMA AllowingIs ==
  ASSUME NEW options, NEW n, NEW a, NEW b, Listed(options, n, a, b)
  PROVE  Allowing(options) = Piece(a, b)
<1> HIDE DEF Listing
<1> DEFINE f(i) == IF i % 2 = 1 THEN Jump("jeq", options[(i + 1) \div 2], 0, 1)[1]
                   ELSE Statement("ret", ALLOW)[1]
<1>0. /\ n \in Nat /\ a \in Nat /\ b = a + 2 * n /\ Len(options) = n
      /\ \A j \in 1..n : /\ Listing[a + 2 * j - 2] = Equal(options[j], 0, 1)
                          /\ Listing[a + 2 * j - 1] = Return(ALLOW)
  BY DEF Listed
<1>1. ASSUME NEW i \in 1..(2 * n) PROVE f(i) = Listing[(a - 1) + i]
  <2>1. CASE i % 2 = 1
    <3>1. PICK j \in 1..n : i = 2 * j - 1 /\ (i + 1) \div 2 = j
      <4> DEFINE j == (i + 1) \div 2
      <4>1. i = 2 * j - 1 /\ j \in 1..n
        BY <1>0, <2>1
      <4> QED
        BY <4>1
    <3>2. Listing[a + 2 * j - 2] = Equal(options[j], 0, 1) /\ a + 2 * j - 2 = (a - 1) + i
      <4>1. a + 2 * j - 2 = (a - 1) + i
        BY <1>0, <3>1
      <4> QED
        BY <1>0, <4>1
    <3>3. f(i) = Equal(options[j], 0, 1)
      BY <2>1, <3>1 DEF Jump, Equal
    <3> QED
      BY <3>2, <3>3
  <2>2. CASE i % 2 # 1
    <3>1. PICK j \in 1..n : i = 2 * j
      <4> DEFINE j == i \div 2
      <4>1. i = 2 * j /\ j \in 1..n
        BY <1>0, <2>2
      <4> QED
        BY <4>1
    <3>2. Listing[a + 2 * j - 1] = Return(ALLOW) /\ a + 2 * j - 1 = (a - 1) + i
      <4>1. a + 2 * j - 1 = (a - 1) + i
        BY <1>0, <3>1
      <4> QED
        BY <1>0, <4>1
    <3>3. f(i) = Return(ALLOW)
      BY <2>2 DEF Statement, Return
    <3> QED
      BY <3>2, <3>3
  <2> QED
    BY <2>1, <2>2
<1>2. b - a = 2 * n
  BY <1>0
<1>3. Allowing(options) = [i \in 1..(2 * n) |-> f(i)]
  BY <1>0 DEF Allowing
<1> HIDE DEF f
<1>4. [i \in 1..(2 * n) |-> f(i)] = [i \in 1..(2 * n) |-> Listing[(a - 1) + i]]
  BY <1>1
<1> QED
  BY <1>2, <1>3, <1>4 DEF Piece

LEMMA ConditionalIs ==
  ASSUME NEW nr, NEW body, NEW a \in Nat, NEW from \in Nat, NEW b \in Nat, from = a + 1, from <= b,
         body = Piece(from, b), Listing[a] = Equal(nr, 0, b - from)
  PROVE  Conditional(nr, body) = Piece(a, b)
<1> HIDE DEF Listing
<1>1. Len(body) = b - from
  BY DEF Piece
<1>2. Ordered(a, from, b)
  BY DEF Ordered
<1> DEFINE j == Jump("jeq", nr, 0, Len(body))
<1>3. j = Piece(a, from)
  BY <1>1, Single DEF Jump, Equal
<1> HIDE DEF j
<1>4. j \o body = Piece(a, b)
  BY <1>2, <1>3, Joined, Zenon
<1> QED
  BY <1>4 DEF Conditional, j

LEMMA PrctlAllowed == Allowing(PrctlOptions) = Piece(37, 41)
<1>1. Len(PrctlOptions) = 2
  BY DEF PrctlOptions
<1>2. Listing[37 + 2 * 1 - 2] = Equal(PrctlOptions[1], 0, 1) /\ Listing[37 + 2 * 1 - 1] = Return(ALLOW)
  BY ListingIs DEF PrctlOptions
<1>3. Listing[37 + 2 * 2 - 2] = Equal(PrctlOptions[2], 0, 1) /\ Listing[37 + 2 * 2 - 1] = Return(ALLOW)
  BY ListingIs DEF PrctlOptions
<1>4. Listed(PrctlOptions, 2, 37, 41)
  BY <1>1, <1>2, <1>3 DEF Listed
<1> QED
  BY <1>4, AllowingIs

LEMMA PrctlListing == ArgumentOptions("arg0", PrctlOptions) = Piece(36, 42)
<1>1. Ordered(36, 37, 41) /\ Ordered(36, 41, 42)
  BY DEF Ordered
<1> DEFINE i1 == Statement("ld", "arg0")
           i2 == Allowing(PrctlOptions)
           i3 == Statement("ret", DENY)
<1>2. i1 = Piece(36, 37)
  BY ListingIs, Single DEF Statement, Fetch
<1>3. i2 = Piece(37, 41)
  BY PrctlAllowed
<1>4. i3 = Piece(41, 42)
  BY ListingIs, Single DEF Statement, Return
<1> HIDE DEF i1, i2, i3
<1> DEFINE s2 == i1 \o i2
           s3 == s2 \o i3
<1>5. s2 = Piece(36, 41)
  BY <1>1, <1>2, <1>3, Joined, Zenon
<1> HIDE DEF s2
<1>6. s3 = Piece(36, 42)
  BY <1>1, <1>5, <1>4, Joined, Zenon
<1> HIDE DEF s3
<1>7. ArgumentOptions("arg0", PrctlOptions) = s3
  BY DEF ArgumentOptions, s2, s3, i1, i2, i3
<1> QED
  BY <1>6, <1>7

LEMMA IoctlAllowed == Allowing(IoctlOptions) = Piece(44, 46)
<1>1. Len(IoctlOptions) = 1
  BY DEF IoctlOptions
<1>2. Listing[44 + 2 * 1 - 2] = Equal(IoctlOptions[1], 0, 1) /\ Listing[44 + 2 * 1 - 1] = Return(ALLOW)
  BY ListingIs DEF IoctlOptions
<1>3. Listed(IoctlOptions, 1, 44, 46)
  BY <1>1, <1>2 DEF Listed
<1> QED
  BY <1>3, AllowingIs

LEMMA IoctlListing == ArgumentOptions("arg1", IoctlOptions) = Piece(43, 47)
<1>1. Ordered(43, 44, 46) /\ Ordered(43, 46, 47)
  BY DEF Ordered
<1> DEFINE i1 == Statement("ld", "arg1")
           i2 == Allowing(IoctlOptions)
           i3 == Statement("ret", DENY)
<1>2. i1 = Piece(43, 44)
  BY ListingIs, Single DEF Statement, Fetch
<1>3. i2 = Piece(44, 46)
  BY IoctlAllowed
<1>4. i3 = Piece(46, 47)
  <2> DEFINE e == Return(DENY)
  <2>1. Listing[46] = e
    BY ListingIs
  <2>2. i3 = <<e>>
    BY DEF Statement, Return
  <2> HIDE DEF i3, e
  <2>3. <<e>> = Piece(46, 47)
    BY <2>1, Single
  <2> QED
    BY <2>2, <2>3
<1> HIDE DEF i1, i2, i3
<1> DEFINE s2 == i1 \o i2
           s3 == s2 \o i3
<1>5. s2 = Piece(43, 46)
  BY <1>1, <1>2, <1>3, Joined, Zenon
<1> HIDE DEF s2
<1>6. s3 = Piece(43, 47)
  BY <1>1, <1>5, <1>4, Joined, Zenon
<1> HIDE DEF s3
<1>7. ArgumentOptions("arg1", IoctlOptions) = s3
  BY DEF ArgumentOptions, s2, s3, i1, i2, i3
<1> QED
  BY <1>6, <1>7

LEMMA ArchPrctlAllowed == Allowing(ArchPrctlOptions) = Piece(49, 51)
<1>1. Len(ArchPrctlOptions) = 1
  BY DEF ArchPrctlOptions
<1>2. Listing[49 + 2 * 1 - 2] = Equal(ArchPrctlOptions[1], 0, 1) /\ Listing[49 + 2 * 1 - 1] = Return(ALLOW)
  BY ListingIs DEF ArchPrctlOptions
<1>3. Listed(ArchPrctlOptions, 1, 49, 51)
  BY <1>1, <1>2 DEF Listed
<1> QED
  BY <1>3, AllowingIs

LEMMA ArchPrctlListing == ArgumentOptions("arg0", ArchPrctlOptions) = Piece(48, 52)
<1>1. Ordered(48, 49, 51) /\ Ordered(48, 51, 52)
  BY DEF Ordered
<1> DEFINE i1 == Statement("ld", "arg0")
           i2 == Allowing(ArchPrctlOptions)
           i3 == Statement("ret", DENY)
<1>2. i1 = Piece(48, 49)
  BY ListingIs, Single DEF Statement, Fetch
<1>3. i2 = Piece(49, 51)
  BY ArchPrctlAllowed
<1>4. i3 = Piece(51, 52)
  BY ListingIs, Single DEF Statement, Return
<1> HIDE DEF i1, i2, i3
<1> DEFINE s2 == i1 \o i2
           s3 == s2 \o i3
<1>5. s2 = Piece(48, 51)
  BY <1>1, <1>2, <1>3, Joined, Zenon
<1> HIDE DEF s2
<1>6. s3 = Piece(48, 52)
  BY <1>1, <1>5, <1>4, Joined, Zenon
<1> HIDE DEF s3
<1>7. ArgumentOptions("arg0", ArchPrctlOptions) = s3
  BY DEF ArgumentOptions, s2, s3, i1, i2, i3
<1> QED
  BY <1>6, <1>7

LEMMA PlainListing == Allowing(FileCalls \o MemoryCalls \o ProcessCalls \o EventCalls \o PeerCalls) = Piece(52, 62)
<1> DEFINE calls == FileCalls \o MemoryCalls \o ProcessCalls \o EventCalls \o PeerCalls
<1>1. /\ Len(calls) = 5
      /\ calls[1] = Nr.file /\ calls[2] = Nr.memory /\ calls[3] = Nr.process
      /\ calls[4] = Nr.event /\ calls[5] = Nr.peer
  BY DEF FileCalls, MemoryCalls, ProcessCalls, EventCalls, PeerCalls
<1> HIDE DEF calls
<1>2. Listing[52 + 2 * 1 - 2] = Equal(calls[1], 0, 1) /\ Listing[52 + 2 * 1 - 1] = Return(ALLOW)
  BY <1>1, ListingIs
<1>3. Listing[52 + 2 * 2 - 2] = Equal(calls[2], 0, 1) /\ Listing[52 + 2 * 2 - 1] = Return(ALLOW)
  BY <1>1, ListingIs
<1>4. Listing[52 + 2 * 3 - 2] = Equal(calls[3], 0, 1) /\ Listing[52 + 2 * 3 - 1] = Return(ALLOW)
  BY <1>1, ListingIs
<1>5. Listing[52 + 2 * 4 - 2] = Equal(calls[4], 0, 1) /\ Listing[52 + 2 * 4 - 1] = Return(ALLOW)
  BY <1>1, ListingIs
<1>6. Listing[52 + 2 * 5 - 2] = Equal(calls[5], 0, 1) /\ Listing[52 + 2 * 5 - 1] = Return(ALLOW)
  BY <1>1, ListingIs
<1>7. Listed(calls, 5, 52, 62)
  BY <1>1, <1>2, <1>3, <1>4, <1>5, <1>6 DEF Listed
<1>8. Allowing(calls) = Piece(52, 62)
  BY <1>7, AllowingIs
<1> QED
  BY <1>8 DEF calls

LEMMA ProgramListing == FilterProgram = Piece(1, 63)
<1>1. Ordered(1, 2, 3) /\ Ordered(1, 3, 4) /\ Ordered(1, 4, 5) /\ Ordered(1, 5, 6) /\ Ordered(1, 6, 7) /\ Ordered(1, 7, 27) /\ Ordered(1, 27, 35) /\ Ordered(1, 35, 42) /\ Ordered(1, 42, 47) /\ Ordered(1, 47, 52) /\ Ordered(1, 52, 62) /\ Ordered(1, 62, 63)
  BY DEF Ordered
<1> DEFINE i1 == Statement("ld", "arch")
           i2 == Jump("jeq", NativeArch, 1, 0)
           i3 == Statement("ret", KILL)
           i4 == Statement("ld", "nr")
           i5 == Jump("jset", X32, 0, 1)
           i6 == Statement("ret", KILL)
           i7 == Conditional(Nr.socket, SocketPolicy)
           i8 == Conditional(Nr.clone, ClonePolicy)
           i9 == Conditional(Nr.prctl, ArgumentOptions("arg0", PrctlOptions))
           i10 == Conditional(Nr.ioctl, ArgumentOptions("arg1", IoctlOptions))
           i11 == Conditional(Nr.arch_prctl, ArgumentOptions("arg0", ArchPrctlOptions))
           i12 == Allowing(FileCalls \o MemoryCalls \o ProcessCalls \o EventCalls \o PeerCalls)
           i13 == Statement("ret", ENOSYS)
<1>2. i1 = Piece(1, 2)
  BY ListingIs, Single DEF Statement, Fetch
<1>3. i2 = Piece(2, 3)
  BY ListingIs, Single DEF Jump, Equal
<1>4. i3 = Piece(3, 4)
  BY ListingIs, Single DEF Statement, Return
<1>5. i4 = Piece(4, 5)
  BY ListingIs, Single DEF Statement, Fetch
<1>6. i5 = Piece(5, 6)
  BY ListingIs, Single DEF Jump, AnyOf
<1>7. i6 = Piece(6, 7)
  BY ListingIs, Single DEF Statement, Return
<1>8. i7 = Piece(7, 27)
  BY ListingIs, ConditionalIs, SocketListing
<1>9. i8 = Piece(27, 35)
  BY ListingIs, ConditionalIs, CloneListing
<1>10. i9 = Piece(35, 42)
  BY ListingIs, ConditionalIs, PrctlListing
<1>11. i10 = Piece(42, 47)
  BY ListingIs, ConditionalIs, IoctlListing
<1>12. i11 = Piece(47, 52)
  BY ListingIs, ConditionalIs, ArchPrctlListing
<1>13. i12 = Piece(52, 62)
  BY PlainListing
<1>14. i13 = Piece(62, 63)
  BY ListingIs, Single DEF Statement, Return
<1> HIDE DEF i1, i2, i3, i4, i5, i6, i7, i8, i9, i10, i11, i12, i13
<1> DEFINE s2 == i1 \o i2
           s3 == s2 \o i3
           s4 == s3 \o i4
           s5 == s4 \o i5
           s6 == s5 \o i6
           s7 == s6 \o i7
           s8 == s7 \o i8
           s9 == s8 \o i9
           s10 == s9 \o i10
           s11 == s10 \o i11
           s12 == s11 \o i12
           s13 == s12 \o i13
<1>15. s2 = Piece(1, 3)
  BY <1>1, <1>2, <1>3, Joined, Zenon
<1> HIDE DEF s2
<1>16. s3 = Piece(1, 4)
  BY <1>1, <1>15, <1>4, Joined, Zenon
<1> HIDE DEF s3
<1>17. s4 = Piece(1, 5)
  BY <1>1, <1>16, <1>5, Joined, Zenon
<1> HIDE DEF s4
<1>18. s5 = Piece(1, 6)
  BY <1>1, <1>17, <1>6, Joined, Zenon
<1> HIDE DEF s5
<1>19. s6 = Piece(1, 7)
  BY <1>1, <1>18, <1>7, Joined, Zenon
<1> HIDE DEF s6
<1>20. s7 = Piece(1, 27)
  BY <1>1, <1>19, <1>8, Joined, Zenon
<1> HIDE DEF s7
<1>21. s8 = Piece(1, 35)
  BY <1>1, <1>20, <1>9, Joined, Zenon
<1> HIDE DEF s8
<1>22. s9 = Piece(1, 42)
  BY <1>1, <1>21, <1>10, Joined, Zenon
<1> HIDE DEF s9
<1>23. s10 = Piece(1, 47)
  BY <1>1, <1>22, <1>11, Joined, Zenon
<1> HIDE DEF s10
<1>24. s11 = Piece(1, 52)
  BY <1>1, <1>23, <1>12, Joined, Zenon
<1> HIDE DEF s11
<1>25. s12 = Piece(1, 62)
  BY <1>1, <1>24, <1>13, Joined, Zenon
<1> HIDE DEF s12
<1>26. s13 = Piece(1, 63)
  BY <1>1, <1>25, <1>14, Joined, Zenon
<1> HIDE DEF s13
<1>27. FilterProgram = s13
  BY DEF FilterProgram, s2, s3, s4, s5, s6, s7, s8, s9, s10, s11, s12, s13, i1, i2, i3, i4, i5, i6, i7, i8, i9, i10, i11, i12, i13
<1> QED
  BY <1>26, <1>27

\* The words a system call is judged by, and a call.
Fields == {"arch", "nr", "arg0", "arg1", "arg2", "high0"}
Word == SUBSET Bits
SystemCall(data) == \A f \in Fields : data[f] \in Word

\* Where the machine goes from an instruction, and with which word.
Place(pc, acc) ==
  LET i == Listing[pc] IN
  CASE i.op = "jeq"  -> pc + 1 + (IF acc = i.k THEN i.jt ELSE i.jf)
    [] i.op = "jset" -> pc + 1 + (IF acc \cap i.k # {} THEN i.jt ELSE i.jf)
    [] OTHER         -> pc + 1
Then(data, pc, acc) ==
  LET i == Listing[pc] IN
  CASE i.op = "ld"  -> data[i.k]
    [] i.op = "and" -> acc \cap i.k
    [] OTHER        -> acc

\* What the machine says at an instruction, given what it says at the later ones.
Outcome(g, data, pc, acc) ==
  IF Listing[pc].op = "ret" THEN Listing[pc].k ELSE g[Place(pc, acc)][Then(data, pc, acc)]

\* No jump and no fall leaves the program, and only words of the call are loaded.
StaysInside(pc) ==
  LET i == Listing[pc] IN
  \/ i.op = "ret"
  \/ i.op = "ld" /\ i.k \in Fields /\ pc < 62
  \/ i.op = "and" /\ pc < 62
  \/ i.op \in {"jeq", "jset"} /\ i.jt \in Nat /\ i.jf \in Nat /\ pc + 1 + i.jt <= 62 /\ pc + 1 + i.jf <= 62

\* No jump leaves the program.
LEMMA AllStayInside == \A pc \in 1..62 : StaysInside(pc)
<1>1. \A pc \in 1..20 : StaysInside(pc)
  <2>1. StaysInside(1)
    BY ListingIs DEF StaysInside, Fields, Fetch
  <2>2. StaysInside(2)
    BY ListingIs DEF StaysInside, Fields, Equal
  <2>3. StaysInside(3)
    BY ListingIs DEF StaysInside, Fields, Return
  <2>4. StaysInside(4)
    BY ListingIs DEF StaysInside, Fields, Fetch
  <2>5. StaysInside(5)
    BY ListingIs DEF StaysInside, Fields, AnyOf
  <2>6. StaysInside(6)
    BY ListingIs DEF StaysInside, Fields, Return
  <2>7. StaysInside(7)
    BY ListingIs DEF StaysInside, Fields, Equal
  <2>8. StaysInside(8)
    BY ListingIs DEF StaysInside, Fields, Fetch
  <2>9. StaysInside(9)
    BY ListingIs DEF StaysInside, Fields, Equal
  <2>10. StaysInside(10)
    BY ListingIs DEF StaysInside, Fields, Equal
  <2>11. StaysInside(11)
    BY ListingIs DEF StaysInside, Fields, Return
  <2>12. StaysInside(12)
    BY ListingIs DEF StaysInside, Fields, Fetch
  <2>13. StaysInside(13)
    BY ListingIs DEF StaysInside, Fields, Mask
  <2>14. StaysInside(14)
    BY ListingIs DEF StaysInside, Fields, Equal
  <2>15. StaysInside(15)
    BY ListingIs DEF StaysInside, Fields, Fetch
  <2>16. StaysInside(16)
    BY ListingIs DEF StaysInside, Fields, Equal
  <2>17. StaysInside(17)
    BY ListingIs DEF StaysInside, Fields, Equal
  <2>18. StaysInside(18)
    BY ListingIs DEF StaysInside, Fields, Return
  <2>19. StaysInside(19)
    BY ListingIs DEF StaysInside, Fields, Return
  <2>20. StaysInside(20)
    BY ListingIs DEF StaysInside, Fields, Equal
  <2> HIDE DEF StaysInside
  <2> QED
    BY <2>1, <2>2, <2>3, <2>4, <2>5, <2>6, <2>7, <2>8, <2>9, <2>10, <2>11, <2>12, <2>13, <2>14, <2>15, <2>16, <2>17, <2>18, <2>19, <2>20
<1>2. \A pc \in 21..41 : StaysInside(pc)
  <2>1. StaysInside(21)
    BY ListingIs DEF StaysInside, Fields, Fetch
  <2>2. StaysInside(22)
    BY ListingIs DEF StaysInside, Fields, Equal
  <2>3. StaysInside(23)
    BY ListingIs DEF StaysInside, Fields, Equal
  <2>4. StaysInside(24)
    BY ListingIs DEF StaysInside, Fields, Return
  <2>5. StaysInside(25)
    BY ListingIs DEF StaysInside, Fields, Return
  <2>6. StaysInside(26)
    BY ListingIs DEF StaysInside, Fields, Return
  <2>7. StaysInside(27)
    BY ListingIs DEF StaysInside, Fields, Equal
  <2>8. StaysInside(28)
    BY ListingIs DEF StaysInside, Fields, Fetch
  <2>9. StaysInside(29)
    BY ListingIs DEF StaysInside, Fields, Equal
  <2>10. StaysInside(30)
    BY ListingIs DEF StaysInside, Fields, Return
  <2>11. StaysInside(31)
    BY ListingIs DEF StaysInside, Fields, Fetch
  <2>12. StaysInside(32)
    BY ListingIs DEF StaysInside, Fields, AnyOf
  <2>13. StaysInside(33)
    BY ListingIs DEF StaysInside, Fields, Return
  <2>14. StaysInside(34)
    BY ListingIs DEF StaysInside, Fields, Return
  <2>15. StaysInside(35)
    BY ListingIs DEF StaysInside, Fields, Equal
  <2>16. StaysInside(36)
    BY ListingIs DEF StaysInside, Fields, Fetch
  <2>17. StaysInside(37)
    BY ListingIs DEF StaysInside, Fields, Equal
  <2>18. StaysInside(38)
    BY ListingIs DEF StaysInside, Fields, Return
  <2>19. StaysInside(39)
    BY ListingIs DEF StaysInside, Fields, Equal
  <2>20. StaysInside(40)
    BY ListingIs DEF StaysInside, Fields, Return
  <2>21. StaysInside(41)
    BY ListingIs DEF StaysInside, Fields, Return
  <2> HIDE DEF StaysInside
  <2> QED
    BY <2>1, <2>2, <2>3, <2>4, <2>5, <2>6, <2>7, <2>8, <2>9, <2>10, <2>11, <2>12, <2>13, <2>14, <2>15, <2>16, <2>17, <2>18, <2>19, <2>20, <2>21
<1>3. \A pc \in 42..62 : StaysInside(pc)
  <2>1. StaysInside(42)
    BY ListingIs DEF StaysInside, Fields, Equal
  <2>2. StaysInside(43)
    BY ListingIs DEF StaysInside, Fields, Fetch
  <2>3. StaysInside(44)
    BY ListingIs DEF StaysInside, Fields, Equal
  <2>4. StaysInside(45)
    BY ListingIs DEF StaysInside, Fields, Return
  <2>5. StaysInside(46)
    BY ListingIs DEF StaysInside, Fields, Return
  <2>6. StaysInside(47)
    BY ListingIs DEF StaysInside, Fields, Equal
  <2>7. StaysInside(48)
    BY ListingIs DEF StaysInside, Fields, Fetch
  <2>8. StaysInside(49)
    BY ListingIs DEF StaysInside, Fields, Equal
  <2>9. StaysInside(50)
    BY ListingIs DEF StaysInside, Fields, Return
  <2>10. StaysInside(51)
    BY ListingIs DEF StaysInside, Fields, Return
  <2>11. StaysInside(52)
    BY ListingIs DEF StaysInside, Fields, Equal
  <2>12. StaysInside(53)
    BY ListingIs DEF StaysInside, Fields, Return
  <2>13. StaysInside(54)
    BY ListingIs DEF StaysInside, Fields, Equal
  <2>14. StaysInside(55)
    BY ListingIs DEF StaysInside, Fields, Return
  <2>15. StaysInside(56)
    BY ListingIs DEF StaysInside, Fields, Equal
  <2>16. StaysInside(57)
    BY ListingIs DEF StaysInside, Fields, Return
  <2>17. StaysInside(58)
    BY ListingIs DEF StaysInside, Fields, Equal
  <2>18. StaysInside(59)
    BY ListingIs DEF StaysInside, Fields, Return
  <2>19. StaysInside(60)
    BY ListingIs DEF StaysInside, Fields, Equal
  <2>20. StaysInside(61)
    BY ListingIs DEF StaysInside, Fields, Return
  <2>21. StaysInside(62)
    BY ListingIs DEF StaysInside, Fields, Return
  <2> HIDE DEF StaysInside
  <2> QED
    BY <2>1, <2>2, <2>3, <2>4, <2>5, <2>6, <2>7, <2>8, <2>9, <2>10, <2>11, <2>12, <2>13, <2>14, <2>15, <2>16, <2>17, <2>18, <2>19, <2>20, <2>21
<1> QED
  BY <1>1, <1>2, <1>3

\* A step asks only for later places.
LEMMA StepsForward ==
  ASSUME NEW data, SystemCall(data), NEW pc \in 1..62, NEW acc \in Word, Listing[pc].op # "ret"
  PROVE  Place(pc, acc) \in 1..62 /\ Place(pc, acc) > pc /\ Then(data, pc, acc) \in Word
<1> HIDE DEF Listing
<1> DEFINE i == Listing[pc]
           op == i.op
           k == i.k
           jt == i.jt
           jf == i.jf
<1>1. \/ op = "ld" /\ k \in Fields /\ pc < 62
      \/ op = "and" /\ pc < 62
      \/ op \in {"jeq", "jset"} /\ jt \in Nat /\ jf \in Nat /\ pc + 1 + jt <= 62 /\ pc + 1 + jf <= 62
  BY AllStayInside DEF StaysInside
<1>2. /\ op = "jeq" => Place(pc, acc) = pc + 1 + (IF acc = k THEN jt ELSE jf)
      /\ op = "jset" => Place(pc, acc) = pc + 1 + (IF acc \cap k # {} THEN jt ELSE jf)
      /\ op \in {"ld", "and"} => Place(pc, acc) = pc + 1
  BY DEF Place
<1>3. /\ op = "ld" => Then(data, pc, acc) = data[k]
      /\ op = "and" => Then(data, pc, acc) = acc \cap k
      /\ op \in {"jeq", "jset"} => Then(data, pc, acc) = acc
  BY DEF Then
<1> HIDE DEF i, op, k, jt, jf
<1>4. Place(pc, acc) \in 1..62 /\ Place(pc, acc) > pc
  BY <1>1, <1>2
<1>5. Then(data, pc, acc) \in Word
  BY <1>1, <1>3 DEF SystemCall, Word
<1> QED
  BY <1>4, <1>5

\* The machine's answers satisfy the equations of its instructions.
Obeys(g, data) == \A pc \in 1..62 : \A acc \in Word : g[pc][acc] = Outcome(g, data, pc, acc)

LEMMA AnswersObey ==
  ASSUME NEW data, SystemCall(data)
  PROVE  \E g : Obeys(g, data) /\ Interpret(data) = g[1][{}]
<1> HIDE DEF Listing
<1> DEFINE Rec(g) == g = [pc \in 1..62 |-> [acc \in Word |-> Outcome(g, data, pc, acc)]]
           From(g, n) == \A pc \in 1..62 : pc > 62 - n => \A acc \in Word : g[pc][acc] = Outcome(g, data, pc, acc)
           T == {n \in 0..62 : ~\E g : From(g, n)}
<1>0. ASSUME NEW g, NEW h, NEW pc \in 1..62, NEW acc \in Word,
             \A p \in 1..62 : p > pc => \A w \in Word : g[p][w] = h[p][w]
      PROVE  Outcome(g, data, pc, acc) = Outcome(h, data, pc, acc)
  <2>1. CASE Listing[pc].op = "ret"
    BY <2>1 DEF Outcome
  <2>2. CASE Listing[pc].op # "ret"
    <3>1. Place(pc, acc) \in 1..62 /\ Place(pc, acc) > pc /\ Then(data, pc, acc) \in Word
      BY <2>2, StepsForward
    <3>2. g[Place(pc, acc)][Then(data, pc, acc)] = h[Place(pc, acc)][Then(data, pc, acc)]
      BY <1>0, <3>1
    <3> QED
      BY <2>2, <3>2 DEF Outcome
  <2> QED
    BY <2>1, <2>2
<1>1. T = {}
  <2> SUFFICES ASSUME T # {} PROVE FALSE
    OBVIOUS
  <2>1. T \in SUBSET Nat
    <3> HIDE DEF From
    <3> QED
      OBVIOUS
  <2> HIDE DEF T
  <2>2. PICK n \in T : \A k \in T : n <= k
    BY <2>1, NatLeast
  <2> USE DEF T
  <2> HIDE DEF From
  <2>3. n \in 0..62 /\ ~\E g : From(g, n)
    BY <2>2
  <2>4. n # 0
    <3>1. \A pc \in 1..62 : ~(pc > 62 - 0)
      OBVIOUS
    <3>2. From(<<>>, 0)
      BY <3>1 DEF From
    <3> QED
      BY <2>3, <3>2
  <2>5. n - 1 \in 0..62 /\ n - 1 \notin T
    BY <2>2, <2>3, <2>4
  <2>6. PICK g : From(g, n - 1)
    BY <2>5
  <2> DEFINE h == [pc \in 1..62 |-> [acc \in Word |-> Outcome(g, data, pc, acc)]]
  <2>7. \A pc \in 1..62 : \A acc \in Word : h[pc][acc] = Outcome(g, data, pc, acc)
    OBVIOUS
  <2> HIDE DEF h
  <2>8. From(h, n)
    <3> SUFFICES ASSUME NEW pc \in 1..62, pc > 62 - n, NEW acc \in Word
                 PROVE  h[pc][acc] = Outcome(h, data, pc, acc)
      BY DEF From
    <3>1. ASSUME NEW p \in 1..62, p > pc, NEW w \in Word
          PROVE  g[p][w] = h[p][w]
      <4>1. p > 62 - (n - 1)
        BY <2>3, <3>1
      <4>2. g[p][w] = Outcome(g, data, p, w)
        BY <2>6, <4>1 DEF From
      <4> QED
        BY <2>7, <4>2
    <3>2. Outcome(g, data, pc, acc) = Outcome(h, data, pc, acc)
      BY <1>0, <3>1
    <3> QED
      BY <2>7, <3>2
  <2> QED
    BY <2>3, <2>8
<1>2. PICK g : From(g, 62)
  <2> HIDE DEF From
  <2>1. 62 \in 0..62
    OBVIOUS
  <2>2. 62 \notin T
    BY <1>1
  <2> QED
    BY <2>1, <2>2
<1>3. \A pc \in 1..62 : \A acc \in Word : g[pc][acc] = Outcome(g, data, pc, acc)
  <2>1. \A pc \in 1..62 : pc > 62 - 62
    OBVIOUS
  <2> QED
    BY <1>2, <2>1
<1> DEFINE f == [pc \in 1..62 |-> [acc \in Word |-> g[pc][acc]]]
<1>4. \A pc \in 1..62 : \A acc \in Word : f[pc][acc] = g[pc][acc]
  OBVIOUS
<1>5. Rec(f)
  <2>1. ASSUME NEW pc \in 1..62, NEW acc \in Word PROVE g[pc][acc] = Outcome(f, data, pc, acc)
    <3> HIDE DEF f
    <3>1. \A p \in 1..62 : p > pc => \A w \in Word : g[p][w] = f[p][w]
      BY <1>4
    <3>2. Outcome(g, data, pc, acc) = Outcome(f, data, pc, acc)
      BY <1>0, <3>1
    <3> QED
      BY <1>3, <3>2
  <2> DEFINE r(pc) == [acc \in Word |-> Outcome(f, data, pc, acc)]
  <2>2. \A pc \in 1..62 : [acc \in Word |-> g[pc][acc]] = r(pc)
    <3> HIDE DEF f
    <3> QED
      BY <2>1
  <2>3. f = [pc \in 1..62 |-> r(pc)]
    <3> HIDE DEF r
    <3> QED
      BY <2>2
  <2> QED
    BY <2>3
<1> DEFINE exec == CHOOSE x : Rec(x)
<1>6. Rec(exec)
  <2> HIDE DEF Rec
  <2> QED
    BY <1>5
<1>7. Interpret(data) = exec[1][{}]
  <2> DEFINE D == 1..Len(FilterProgram)
             Row(x, pc) == [acc \in Word |-> Execute(FilterProgram[pc], pc, acc, data, x)]
             Body(x) == [pc \in D |-> Row(x, pc)]
  <2>1. Interpret(data) = (CHOOSE x : x = Body(x))[1][{}]
    BY DEF Interpret, Word
  <2>2. D = 1..62 /\ \A pc \in 1..62 : FilterProgram[pc] = Listing[pc]
    BY ProgramListing DEF Piece
  <2>3. ASSUME NEW x, NEW pc \in 1..62 PROVE Row(x, pc) = [acc \in Word |-> Outcome(x, data, pc, acc)]
    <3>1. FilterProgram[pc] = Listing[pc]
      BY <2>2
    <3>2. \A acc \in Word : Execute(Listing[pc], pc, acc, data, x) = Outcome(x, data, pc, acc)
      <4>1. Listing[pc].op \in {"ret", "ld", "and", "jeq", "jset"}
        BY AllStayInside DEF StaysInside
      <4> QED
        BY <4>1 DEF Outcome, Place, Then, Execute
    <3> QED
      BY <3>1, <3>2
  <2> HIDE DEF Row
  <2>4. ASSUME NEW x PROVE (x = Body(x)) <=> Rec(x)
    <3>1. Body(x) = [pc \in 1..62 |-> [acc \in Word |-> Outcome(x, data, pc, acc)]]
      BY <2>2, <2>3
    <3> HIDE DEF Body
    <3> QED
      BY <3>1
  <2>5. (CHOOSE x : x = Body(x)) = exec
    <3> HIDE DEF Body, Rec
    <3> QED
      BY <2>4
  <2> QED
    BY <2>1, <2>5
<1>8. Obeys(exec, data)
  <2> HIDE DEF exec
  <2>1. \A pc \in 1..62 : exec[pc] = [acc \in Word |-> Outcome(exec, data, pc, acc)]
    BY <1>6
  <2> QED
    BY <2>1 DEF Obeys
<1> QED
  BY <1>7, <1>8

\* What each kind of instruction does, wherever it stands.
LEMMA ReturnRuns ==
  ASSUME NEW data, NEW g, Obeys(g, data), NEW acc \in Word, NEW pc \in 1..62, NEW verdict, Listing[pc] = Return(verdict)
  PROVE  g[pc][acc] = verdict
<1> HIDE DEF Listing
<1>1. Listing[pc].op = "ret" /\ Listing[pc].k = verdict
  BY DEF Return
<1> QED
  BY <1>1 DEF Obeys, Outcome

LEMMA FetchRuns ==
  ASSUME NEW data, NEW g, Obeys(g, data), NEW acc \in Word, NEW pc \in 1..62, NEW field, Listing[pc] = Fetch(field)
  PROVE  g[pc][acc] = g[pc + 1][data[field]]
<1> HIDE DEF Listing
<1>1. Listing[pc].op = "ld" /\ Listing[pc].k = field
  BY DEF Fetch
<1>2. Place(pc, acc) = pc + 1 /\ Then(data, pc, acc) = data[field]
  BY <1>1 DEF Place, Then
<1> QED
  BY <1>1, <1>2 DEF Obeys, Outcome

LEMMA MaskRuns ==
  ASSUME NEW data, NEW g, Obeys(g, data), NEW acc \in Word, NEW pc \in 1..62, NEW w, Listing[pc] = Mask(w)
  PROVE  g[pc][acc] = g[pc + 1][acc \cap w]
<1> HIDE DEF Listing
<1>1. Listing[pc].op = "and" /\ Listing[pc].k = w
  BY DEF Mask
<1>2. Place(pc, acc) = pc + 1 /\ Then(data, pc, acc) = acc \cap w
  BY <1>1 DEF Place, Then
<1> QED
  BY <1>1, <1>2 DEF Obeys, Outcome

LEMMA EqualRuns ==
  ASSUME NEW data, NEW g, Obeys(g, data), NEW acc \in Word, NEW pc \in 1..62, NEW w, NEW yes \in Nat, NEW no \in Nat,
         Listing[pc] = Equal(w, yes, no)
  PROVE  g[pc][acc] = IF acc = w THEN g[pc + 1 + yes][acc] ELSE g[pc + 1 + no][acc]
<1> HIDE DEF Listing
<1>1. Listing[pc].op = "jeq" /\ Listing[pc].k = w /\ Listing[pc].jt = yes /\ Listing[pc].jf = no
  BY DEF Equal
<1>2. Place(pc, acc) = pc + 1 + (IF acc = w THEN yes ELSE no) /\ Then(data, pc, acc) = acc
  BY <1>1 DEF Place, Then
<1>3. g[pc][acc] = g[Place(pc, acc)][acc]
  BY <1>1, <1>2 DEF Obeys, Outcome
<1> QED
  BY <1>2, <1>3

LEMMA AnyOfRuns ==
  ASSUME NEW data, NEW g, Obeys(g, data), NEW acc \in Word, NEW pc \in 1..62, NEW w, NEW yes \in Nat, NEW no \in Nat,
         Listing[pc] = AnyOf(w, yes, no)
  PROVE  g[pc][acc] = IF acc \cap w # {} THEN g[pc + 1 + yes][acc] ELSE g[pc + 1 + no][acc]
<1> HIDE DEF Listing
<1>1. Listing[pc].op = "jset" /\ Listing[pc].k = w /\ Listing[pc].jt = yes /\ Listing[pc].jf = no
  BY DEF AnyOf
<1>2. Place(pc, acc) = pc + 1 + (IF acc \cap w # {} THEN yes ELSE no) /\ Then(data, pc, acc) = acc
  BY <1>1 DEF Place, Then
<1>3. g[pc][acc] = g[Place(pc, acc)][acc]
  BY <1>1, <1>2 DEF Obeys, Outcome
<1> QED
  BY <1>2, <1>3


\* The answers at the places, part by part.
LEMMA EntryRuns ==
  ASSUME NEW data, NEW g, Obeys(g, data), NEW acc \in Word
  PROVE  /\ g[1][acc] = g[2][data["arch"]]
         /\ g[2][acc] = IF acc = NativeArch THEN g[4][acc] ELSE g[3][acc]
         /\ g[3][acc] = KILL
         /\ g[4][acc] = g[5][data["nr"]]
         /\ g[5][acc] = IF acc \cap (X32) # {} THEN g[6][acc] ELSE g[7][acc]
         /\ g[6][acc] = KILL
         /\ g[7][acc] = IF acc = Nr.socket THEN g[8][acc] ELSE g[27][acc]
<1>1. g[1][acc] = g[2][data["arch"]]
  BY ListingIs, FetchRuns
<1>2. g[2][acc] = IF acc = NativeArch THEN g[4][acc] ELSE g[3][acc]
  BY ListingIs, EqualRuns
<1>3. g[3][acc] = KILL
  BY ListingIs, ReturnRuns
<1>4. g[4][acc] = g[5][data["nr"]]
  BY ListingIs, FetchRuns
<1>5. g[5][acc] = IF acc \cap (X32) # {} THEN g[6][acc] ELSE g[7][acc]
  BY ListingIs, AnyOfRuns
<1>6. g[6][acc] = KILL
  BY ListingIs, ReturnRuns
<1>7. g[7][acc] = IF acc = Nr.socket THEN g[8][acc] ELSE g[27][acc]
  BY ListingIs, EqualRuns
<1> QED
  BY <1>1, <1>2, <1>3, <1>4, <1>5, <1>6, <1>7

LEMMA AddressRuns ==
  ASSUME NEW data, NEW g, Obeys(g, data), NEW acc \in Word
  PROVE  /\ g[8][acc] = g[9][data["arg0"]]
         /\ g[9][acc] = IF acc = AfInet THEN g[12][acc] ELSE g[10][acc]
         /\ g[10][acc] = IF acc = AfInet6 THEN g[12][acc] ELSE g[11][acc]
         /\ g[11][acc] = DENY
<1>1. g[8][acc] = g[9][data["arg0"]]
  BY ListingIs, FetchRuns
<1>2. g[9][acc] = IF acc = AfInet THEN g[12][acc] ELSE g[10][acc]
  BY ListingIs, EqualRuns
<1>3. g[10][acc] = IF acc = AfInet6 THEN g[12][acc] ELSE g[11][acc]
  BY ListingIs, EqualRuns
<1>4. g[11][acc] = DENY
  BY ListingIs, ReturnRuns
<1> QED
  BY <1>1, <1>2, <1>3, <1>4

LEMMA KindRuns ==
  ASSUME NEW data, NEW g, Obeys(g, data), NEW acc \in Word
  PROVE  /\ g[12][acc] = g[13][data["arg1"]]
         /\ g[13][acc] = g[14][acc \cap (Bits \ SockFlags)]
         /\ g[14][acc] = IF acc = SockStream THEN g[15][acc] ELSE g[20][acc]
<1>1. g[12][acc] = g[13][data["arg1"]]
  BY ListingIs, FetchRuns
<1>2. g[13][acc] = g[14][acc \cap (Bits \ SockFlags)]
  <2> DEFINE w == Bits \ SockFlags
  <2>1. Listing[13] = Mask(w)
    BY ListingIs
  <2> HIDE DEF w
  <2>2. g[13][acc] = g[14][acc \cap w]
    BY <2>1, MaskRuns
  <2> QED
    BY <2>2 DEF w
<1>3. g[14][acc] = IF acc = SockStream THEN g[15][acc] ELSE g[20][acc]
  BY ListingIs, EqualRuns, SMTT(30), ZenonT(30)
<1> QED
  BY <1>1, <1>2, <1>3

LEMMA StreamRuns ==
  ASSUME NEW data, NEW g, Obeys(g, data), NEW acc \in Word
  PROVE  /\ g[15][acc] = g[16][data["arg2"]]
         /\ g[16][acc] = IF acc = {} THEN g[19][acc] ELSE g[17][acc]
         /\ g[17][acc] = IF acc = IpprotoTcp THEN g[19][acc] ELSE g[18][acc]
         /\ g[18][acc] = DENY
         /\ g[19][acc] = ALLOW
<1>1. g[15][acc] = g[16][data["arg2"]]
  BY ListingIs, FetchRuns
<1>2. g[16][acc] = IF acc = {} THEN g[19][acc] ELSE g[17][acc]
  <2> DEFINE w == {}
  <2>1. Listing[16] = Equal(w, 2, 0)
    BY ListingIs
  <2> HIDE DEF w
  <2>2. g[16][acc] = IF acc = w THEN g[19][acc] ELSE g[17][acc]
    BY <2>1, EqualRuns
  <2> QED
    BY <2>2 DEF w
<1>3. g[17][acc] = IF acc = IpprotoTcp THEN g[19][acc] ELSE g[18][acc]
  BY ListingIs, EqualRuns
<1>4. g[18][acc] = DENY
  BY ListingIs, ReturnRuns
<1>5. g[19][acc] = ALLOW
  BY ListingIs, ReturnRuns
<1> QED
  BY <1>1, <1>2, <1>3, <1>4, <1>5

LEMMA DatagramRuns ==
  ASSUME NEW data, NEW g, Obeys(g, data), NEW acc \in Word
  PROVE  /\ g[20][acc] = IF acc = SockDgram THEN g[21][acc] ELSE g[26][acc]
         /\ g[21][acc] = g[22][data["arg2"]]
         /\ g[22][acc] = IF acc = {} THEN g[25][acc] ELSE g[23][acc]
         /\ g[23][acc] = IF acc = IpprotoUdp THEN g[25][acc] ELSE g[24][acc]
         /\ g[24][acc] = DENY
         /\ g[25][acc] = ALLOW
         /\ g[26][acc] = DENY
         /\ g[27][acc] = IF acc = Nr.clone THEN g[28][acc] ELSE g[35][acc]
<1>1. g[20][acc] = IF acc = SockDgram THEN g[21][acc] ELSE g[26][acc]
  BY ListingIs, EqualRuns
<1>2. g[21][acc] = g[22][data["arg2"]]
  BY ListingIs, FetchRuns
<1>3. g[22][acc] = IF acc = {} THEN g[25][acc] ELSE g[23][acc]
  <2> DEFINE w == {}
  <2>1. Listing[22] = Equal(w, 2, 0)
    BY ListingIs
  <2> HIDE DEF w
  <2>2. g[22][acc] = IF acc = w THEN g[25][acc] ELSE g[23][acc]
    BY <2>1, EqualRuns
  <2> QED
    BY <2>2 DEF w
<1>4. g[23][acc] = IF acc = IpprotoUdp THEN g[25][acc] ELSE g[24][acc]
  BY ListingIs, EqualRuns
<1>5. g[24][acc] = DENY
  BY ListingIs, ReturnRuns
<1>6. g[25][acc] = ALLOW
  BY ListingIs, ReturnRuns
<1>7. g[26][acc] = DENY
  BY ListingIs, ReturnRuns
<1>8. g[27][acc] = IF acc = Nr.clone THEN g[28][acc] ELSE g[35][acc]
  BY ListingIs, EqualRuns
<1> QED
  BY <1>1, <1>2, <1>3, <1>4, <1>5, <1>6, <1>7, <1>8

LEMMA CloneRuns ==
  ASSUME NEW data, NEW g, Obeys(g, data), NEW acc \in Word
  PROVE  /\ g[28][acc] = g[29][data["high0"]]
         /\ g[29][acc] = IF acc = {} THEN g[31][acc] ELSE g[30][acc]
         /\ g[30][acc] = DENY
         /\ g[31][acc] = g[32][data["arg0"]]
         /\ g[32][acc] = IF acc \cap (Bits \ CloneOrdinary) # {} THEN g[33][acc] ELSE g[34][acc]
         /\ g[33][acc] = DENY
         /\ g[34][acc] = ALLOW
         /\ g[35][acc] = IF acc = Nr.prctl THEN g[36][acc] ELSE g[42][acc]
<1>1. g[28][acc] = g[29][data["high0"]]
  BY ListingIs, FetchRuns
<1>2. g[29][acc] = IF acc = {} THEN g[31][acc] ELSE g[30][acc]
  <2> DEFINE w == {}
  <2>1. Listing[29] = Equal(w, 1, 0)
    BY ListingIs
  <2> HIDE DEF w
  <2>2. g[29][acc] = IF acc = w THEN g[31][acc] ELSE g[30][acc]
    BY <2>1, EqualRuns
  <2> QED
    BY <2>2 DEF w
<1>3. g[30][acc] = DENY
  BY ListingIs, ReturnRuns
<1>4. g[31][acc] = g[32][data["arg0"]]
  BY ListingIs, FetchRuns
<1>5. g[32][acc] = IF acc \cap (Bits \ CloneOrdinary) # {} THEN g[33][acc] ELSE g[34][acc]
  <2> DEFINE w == Bits \ CloneOrdinary
  <2>1. Listing[32] = AnyOf(w, 0, 1)
    BY ListingIs
  <2> HIDE DEF w
  <2>2. g[32][acc] = IF acc \cap w # {} THEN g[33][acc] ELSE g[34][acc]
    BY <2>1, AnyOfRuns
  <2> QED
    BY <2>2 DEF w
<1>6. g[33][acc] = DENY
  BY ListingIs, ReturnRuns
<1>7. g[34][acc] = ALLOW
  BY ListingIs, ReturnRuns
<1>8. g[35][acc] = IF acc = Nr.prctl THEN g[36][acc] ELSE g[42][acc]
  BY ListingIs, EqualRuns
<1> QED
  BY <1>1, <1>2, <1>3, <1>4, <1>5, <1>6, <1>7, <1>8

LEMMA OptionRuns ==
  ASSUME NEW data, NEW g, Obeys(g, data), NEW acc \in Word
  PROVE  /\ g[36][acc] = g[37][data["arg0"]]
         /\ g[37][acc] = IF acc = {0} THEN g[38][acc] ELSE g[39][acc]
         /\ g[38][acc] = ALLOW
         /\ g[39][acc] = IF acc = {1} THEN g[40][acc] ELSE g[41][acc]
         /\ g[40][acc] = ALLOW
         /\ g[41][acc] = DENY
         /\ g[42][acc] = IF acc = Nr.ioctl THEN g[43][acc] ELSE g[47][acc]
         /\ g[43][acc] = g[44][data["arg1"]]
         /\ g[44][acc] = IF acc = {0, 1} THEN g[45][acc] ELSE g[46][acc]
         /\ g[45][acc] = ALLOW
         /\ g[46][acc] = DENY
         /\ g[47][acc] = IF acc = Nr.arch_prctl THEN g[48][acc] ELSE g[52][acc]
         /\ g[48][acc] = g[49][data["arg0"]]
         /\ g[49][acc] = IF acc = {2} THEN g[50][acc] ELSE g[51][acc]
         /\ g[50][acc] = ALLOW
         /\ g[51][acc] = DENY
         /\ g[52][acc] = IF acc = Nr.file THEN g[53][acc] ELSE g[54][acc]
<1>1. g[36][acc] = g[37][data["arg0"]]
  BY ListingIs, FetchRuns
<1>2. g[37][acc] = IF acc = {0} THEN g[38][acc] ELSE g[39][acc]
  <2> DEFINE w == {0}
  <2>1. Listing[37] = Equal(w, 0, 1)
    BY ListingIs
  <2> HIDE DEF w
  <2>2. g[37][acc] = IF acc = w THEN g[38][acc] ELSE g[39][acc]
    BY <2>1, EqualRuns
  <2> QED
    BY <2>2 DEF w
<1>3. g[38][acc] = ALLOW
  BY ListingIs, ReturnRuns
<1>4. g[39][acc] = IF acc = {1} THEN g[40][acc] ELSE g[41][acc]
  <2> DEFINE w == {1}
  <2>1. Listing[39] = Equal(w, 0, 1)
    BY ListingIs
  <2> HIDE DEF w
  <2>2. g[39][acc] = IF acc = w THEN g[40][acc] ELSE g[41][acc]
    BY <2>1, EqualRuns
  <2> QED
    BY <2>2 DEF w
<1>5. g[40][acc] = ALLOW
  BY ListingIs, ReturnRuns
<1>6. g[41][acc] = DENY
  BY ListingIs, ReturnRuns
<1>7. g[42][acc] = IF acc = Nr.ioctl THEN g[43][acc] ELSE g[47][acc]
  BY ListingIs, EqualRuns
<1>8. g[43][acc] = g[44][data["arg1"]]
  BY ListingIs, FetchRuns
<1>9. g[44][acc] = IF acc = {0, 1} THEN g[45][acc] ELSE g[46][acc]
  <2> DEFINE w == {0, 1}
  <2>1. Listing[44] = Equal(w, 0, 1)
    BY ListingIs
  <2> HIDE DEF w
  <2>2. g[44][acc] = IF acc = w THEN g[45][acc] ELSE g[46][acc]
    BY <2>1, EqualRuns
  <2> QED
    BY <2>2 DEF w
<1>10. g[45][acc] = ALLOW
  BY ListingIs, ReturnRuns
<1>11. g[46][acc] = DENY
  BY ListingIs, ReturnRuns
<1>12. g[47][acc] = IF acc = Nr.arch_prctl THEN g[48][acc] ELSE g[52][acc]
  BY ListingIs, EqualRuns
<1>13. g[48][acc] = g[49][data["arg0"]]
  BY ListingIs, FetchRuns
<1>14. g[49][acc] = IF acc = {2} THEN g[50][acc] ELSE g[51][acc]
  <2> DEFINE w == {2}
  <2>1. Listing[49] = Equal(w, 0, 1)
    BY ListingIs
  <2> HIDE DEF w
  <2>2. g[49][acc] = IF acc = w THEN g[50][acc] ELSE g[51][acc]
    BY <2>1, EqualRuns
  <2> QED
    BY <2>2 DEF w
<1>15. g[50][acc] = ALLOW
  BY ListingIs, ReturnRuns
<1>16. g[51][acc] = DENY
  BY ListingIs, ReturnRuns
<1>17. g[52][acc] = IF acc = Nr.file THEN g[53][acc] ELSE g[54][acc]
  BY ListingIs, EqualRuns
<1> QED
  BY <1>1, <1>2, <1>3, <1>4, <1>5, <1>6, <1>7, <1>8, <1>9, <1>10, <1>11, <1>12, <1>13, <1>14, <1>15, <1>16, <1>17

LEMMA PlainRuns ==
  ASSUME NEW data, NEW g, Obeys(g, data), NEW acc \in Word
  PROVE  /\ g[53][acc] = ALLOW
         /\ g[54][acc] = IF acc = Nr.memory THEN g[55][acc] ELSE g[56][acc]
         /\ g[55][acc] = ALLOW
         /\ g[56][acc] = IF acc = Nr.process THEN g[57][acc] ELSE g[58][acc]
         /\ g[57][acc] = ALLOW
         /\ g[58][acc] = IF acc = Nr.event THEN g[59][acc] ELSE g[60][acc]
         /\ g[59][acc] = ALLOW
         /\ g[60][acc] = IF acc = Nr.peer THEN g[61][acc] ELSE g[62][acc]
         /\ g[61][acc] = ALLOW
         /\ g[62][acc] = ENOSYS
<1>1. g[53][acc] = ALLOW
  BY ListingIs, ReturnRuns
<1>2. g[54][acc] = IF acc = Nr.memory THEN g[55][acc] ELSE g[56][acc]
  BY ListingIs, EqualRuns
<1>3. g[55][acc] = ALLOW
  BY ListingIs, ReturnRuns
<1>4. g[56][acc] = IF acc = Nr.process THEN g[57][acc] ELSE g[58][acc]
  BY ListingIs, EqualRuns
<1>5. g[57][acc] = ALLOW
  BY ListingIs, ReturnRuns
<1>6. g[58][acc] = IF acc = Nr.event THEN g[59][acc] ELSE g[60][acc]
  BY ListingIs, EqualRuns
<1>7. g[59][acc] = ALLOW
  BY ListingIs, ReturnRuns
<1>8. g[60][acc] = IF acc = Nr.peer THEN g[61][acc] ELSE g[62][acc]
  BY ListingIs, EqualRuns
<1>9. g[61][acc] = ALLOW
  BY ListingIs, ReturnRuns
<1>10. g[62][acc] = ENOSYS
  BY ListingIs, ReturnRuns
<1> QED
  BY <1>1, <1>2, <1>3, <1>4, <1>5, <1>6, <1>7, <1>8, <1>9, <1>10

\* The verdicts of the parts, from wherever the word stands that they are entered with.
LEMMA SocketVerdict ==
  ASSUME NEW data, SystemCall(data), NEW g, Obeys(g, data), NEW acc \in Word
  PROVE  LET kind == data.arg1 \ SockFlags IN
         g[8][acc] = IF /\ data.arg0 \in {AfInet, AfInet6}
                        /\ \/ kind = SockStream /\ data.arg2 \in {{}, IpprotoTcp}
                           \/ kind = SockDgram /\ data.arg2 \in {{}, IpprotoUdp}
                     THEN ALLOW ELSE DENY
<1> DEFINE a0 == data.arg0
           a1 == data.arg1
           a2 == data.arg2
           kind == a1 \ SockFlags
<1>1. a0 \in Word /\ a1 \in Word /\ a2 \in Word
  BY DEF SystemCall, Fields
<1>2. kind \in Word /\ a1 \cap (Bits \ SockFlags) = kind
  BY <1>1 DEF Word
<1>3. SockStream # SockDgram
  <2>1. 0 \in SockStream /\ 0 \notin SockDgram
    BY DEF SockStream, SockDgram
  <2> QED
    BY <2>1
<1> HIDE DEF a0, a1, a2, kind
<1>4. g[8][acc] = g[9][a0] /\ g[12][a0] = g[13][a1] /\ g[13][a1] = g[14][kind]
  <2>1. g[8][acc] = g[9][a0]
    BY AddressRuns DEF a0
  <2>2. g[12][a0] = g[13][a1]
    <3> HIDE DEF a0
    <3> QED
      BY <1>1, KindRuns DEF a1
  <2>3. g[13][a1] = g[14][a1 \cap (Bits \ SockFlags)]
    BY <1>1, KindRuns
  <2> QED
    BY <1>2, <2>1, <2>2, <2>3
<1>5. g[15][kind] = g[16][a2] /\ g[21][kind] = g[22][a2]
  <2> USE DEF a2
  <2>1. g[15][kind] = g[16][a2]
    BY <1>2, StreamRuns
  <2>2. g[21][kind] = g[22][a2]
    BY <1>2, DatagramRuns
  <2> QED
    BY <2>1, <2>2
<1>6. g[9][a0] = IF a0 \in {AfInet, AfInet6} THEN g[12][a0] ELSE DENY
  <2>1. /\ g[9][a0] = IF a0 = AfInet THEN g[12][a0] ELSE g[10][a0]
        /\ g[10][a0] = IF a0 = AfInet6 THEN g[12][a0] ELSE g[11][a0]
        /\ g[11][a0] = DENY
    BY <1>1, AddressRuns
  <2> QED
    BY <2>1
<1>7. g[14][kind] = IF kind = SockStream THEN g[15][kind] ELSE g[20][kind]
  BY <1>2, KindRuns
<1>8. g[20][kind] = IF kind = SockDgram THEN g[21][kind] ELSE DENY
  BY <1>2, DatagramRuns
<1>9. g[16][a2] = IF a2 \in {{}, IpprotoTcp} THEN ALLOW ELSE DENY
  BY <1>1, StreamRuns
<1>10. g[22][a2] = IF a2 \in {{}, IpprotoUdp} THEN ALLOW ELSE DENY
  BY <1>1, DatagramRuns
<1>11. g[8][acc] = IF /\ a0 \in {AfInet, AfInet6}
                      /\ \/ kind = SockStream /\ a2 \in {{}, IpprotoTcp}
                         \/ kind = SockDgram /\ a2 \in {{}, IpprotoUdp}
                   THEN ALLOW ELSE DENY
  BY <1>3, <1>4, <1>5, <1>6, <1>7, <1>8, <1>9, <1>10
<1> QED
  BY <1>11 DEF a0, a1, a2, kind

LEMMA CloneVerdict ==
  ASSUME NEW data, SystemCall(data), NEW g, Obeys(g, data), NEW acc \in Word
  PROVE  g[28][acc] = IF data.high0 = {} /\ data.arg0 \subseteq CloneOrdinary THEN ALLOW ELSE DENY
<1> DEFINE a0 == data.arg0
           h0 == data.high0
<1>1. a0 \in Word /\ h0 \in Word
  BY DEF SystemCall, Fields
<1>2. (a0 \cap (Bits \ CloneOrdinary) # {}) <=> ~(a0 \subseteq CloneOrdinary)
  BY <1>1 DEF Word
<1> HIDE DEF a0, h0
<1>3. g[28][acc] = g[29][h0] /\ g[31][h0] = g[32][a0]
  BY <1>1, CloneRuns DEF a0, h0
<1>4. g[29][h0] = IF h0 = {} THEN g[31][h0] ELSE DENY
  BY <1>1, CloneRuns
<1>5. g[32][a0] = IF a0 \cap (Bits \ CloneOrdinary) # {} THEN DENY ELSE ALLOW
  BY <1>1, CloneRuns
<1>6. g[28][acc] = IF h0 = {} /\ a0 \subseteq CloneOrdinary THEN ALLOW ELSE DENY
  BY <1>2, <1>3, <1>4, <1>5
<1> QED
  BY <1>6 DEF a0, h0

LEMMA OptionVerdicts ==
  ASSUME NEW data, SystemCall(data), NEW g, Obeys(g, data), NEW acc \in Word
  PROVE  /\ g[36][acc] = IF data.arg0 \in {{0}, {1}} THEN ALLOW ELSE DENY
         /\ g[43][acc] = IF data.arg1 = {0, 1} THEN ALLOW ELSE DENY
         /\ g[48][acc] = IF data.arg0 = {2} THEN ALLOW ELSE DENY
<1> DEFINE a0 == data.arg0
           a1 == data.arg1
<1>1. a0 \in Word /\ a1 \in Word
  BY DEF SystemCall, Fields
<1> HIDE DEF a0, a1
<1>2. g[36][acc] = g[37][a0] /\ g[43][acc] = g[44][a1] /\ g[48][acc] = g[49][a0]
  BY <1>1, OptionRuns DEF a0, a1
<1>3. g[37][a0] = IF a0 \in {{0}, {1}} THEN ALLOW ELSE DENY
  BY <1>1, OptionRuns
<1>4. g[44][a1] = IF a1 = {0, 1} THEN ALLOW ELSE DENY
  BY <1>1, OptionRuns
<1>5. g[49][a0] = IF a0 = {2} THEN ALLOW ELSE DENY
  BY <1>1, OptionRuns
<1> QED
  BY <1>2, <1>3, <1>4, <1>5 DEF a0, a1

LEMMA PlainVerdict ==
  ASSUME NEW data, SystemCall(data), NEW g, Obeys(g, data), NEW acc \in Word
  PROVE  g[52][acc] = IF acc \in {Nr.file, Nr.memory, Nr.process, Nr.event, Nr.peer} THEN ALLOW ELSE ENOSYS
  BY OptionRuns, PlainRuns

\* No two numbers with a policy are the same.
LEMMA NrDiffer ==
  /\ 0 \in Nr.socket     /\ 1 \notin Nr.socket  /\ 2 \notin Nr.socket     /\ 3 \notin Nr.socket
  /\ 0 \notin Nr.clone   /\ 1 \in Nr.clone      /\ 2 \notin Nr.clone      /\ 3 \notin Nr.clone
  /\ 0 \in Nr.prctl      /\ 1 \in Nr.prctl      /\ 2 \notin Nr.prctl      /\ 3 \notin Nr.prctl
  /\ 0 \notin Nr.ioctl   /\ 1 \notin Nr.ioctl   /\ 2 \in Nr.ioctl         /\ 3 \notin Nr.ioctl
  /\ 0 \in Nr.arch_prctl /\ 1 \notin Nr.arch_prctl /\ 2 \in Nr.arch_prctl /\ 3 \notin Nr.arch_prctl
  /\ 0 \notin Nr.file    /\ 1 \in Nr.file       /\ 2 \in Nr.file          /\ 3 \notin Nr.file
  /\ 0 \in Nr.memory     /\ 1 \in Nr.memory     /\ 2 \in Nr.memory        /\ 3 \notin Nr.memory
  /\ 0 \notin Nr.process /\ 1 \notin Nr.process /\ 2 \notin Nr.process    /\ 3 \in Nr.process
  /\ 0 \in Nr.event      /\ 1 \notin Nr.event   /\ 2 \notin Nr.event      /\ 3 \in Nr.event
  /\ 0 \notin Nr.peer    /\ 1 \in Nr.peer       /\ 2 \notin Nr.peer       /\ 3 \in Nr.peer
  BY DEF Nr


LEMMA NrNative ==
  /\ X32 \cap Nr.socket = {} /\ X32 \cap Nr.clone = {} /\ X32 \cap Nr.prctl = {} /\ X32 \cap Nr.ioctl = {}
  /\ X32 \cap Nr.arch_prctl = {} /\ X32 \cap Nr.file = {} /\ X32 \cap Nr.memory = {}
  /\ X32 \cap Nr.process = {} /\ X32 \cap Nr.event = {} /\ X32 \cap Nr.peer = {}
  BY DEF Nr, X32

\* What the policy says, call by call.
LEMMA PolicySays ==
  ASSUME NEW data
  PROVE  LET kind == data.arg1 \ SockFlags
             native == data.arch = NativeArch /\ X32 \cap data.nr = {}
             plain == {Nr.file, Nr.memory, Nr.process, Nr.event, Nr.peer}
         IN /\ (data.arch # NativeArch \/ X32 \cap data.nr # {}) => Policy(data) = KILL
            /\ native /\ data.nr = Nr.socket =>
                  Policy(data) = IF /\ data.arg0 \in {AfInet, AfInet6}
                                    /\ \/ kind = SockStream /\ data.arg2 \in {{}, IpprotoTcp}
                                       \/ kind = SockDgram /\ data.arg2 \in {{}, IpprotoUdp}
                                 THEN ALLOW ELSE DENY
            /\ native /\ data.nr = Nr.clone =>
                  Policy(data) = IF data.high0 = {} /\ data.arg0 \subseteq CloneOrdinary THEN ALLOW ELSE DENY
            /\ native /\ data.nr = Nr.prctl => Policy(data) = IF data.arg0 \in {{0}, {1}} THEN ALLOW ELSE DENY
            /\ native /\ data.nr = Nr.ioctl => Policy(data) = IF data.arg1 = {0, 1} THEN ALLOW ELSE DENY
            /\ native /\ data.nr = Nr.arch_prctl => Policy(data) = IF data.arg0 = {2} THEN ALLOW ELSE DENY
            /\ native /\ data.nr \notin {Nr.socket, Nr.clone, Nr.prctl, Nr.ioctl, Nr.arch_prctl} =>
                  Policy(data) = IF data.nr \in plain THEN ALLOW ELSE ENOSYS
<1> DEFINE a == data.arg0
           b == data.arg1
           nr == data.nr
           arch == data.arch
           foreign == arch # NativeArch \/ X32 \cap nr # {}
           fine == /\ data.arg0 \in {AfInet, AfInet6}
                   /\ \/ (data.arg1 \ SockFlags) = SockStream /\ data.arg2 \in {{}, IpprotoTcp}
                      \/ (data.arg1 \ SockFlags) = SockDgram /\ data.arg2 \in {{}, IpprotoUdp}
           same == data.high0 = {} /\ data.arg0 \subseteq CloneOrdinary
           p == data.arg0 \in {{0}, {1}}
           i == data.arg1 = {0, 1}
           t == data.arg0 = {2}
           any == nr \in {Nr.file, Nr.memory, Nr.process, Nr.event, Nr.peer}
<1>1. Policy(data) = CASE foreign -> KILL
                       [] arch = NativeArch /\ nr = Nr.socket -> (IF fine THEN ALLOW ELSE DENY)
                       [] arch = NativeArch /\ nr = Nr.clone -> (IF same THEN ALLOW ELSE DENY)
                       [] arch = NativeArch /\ nr = Nr.prctl -> (IF p THEN ALLOW ELSE DENY)
                       [] arch = NativeArch /\ nr = Nr.ioctl -> (IF i THEN ALLOW ELSE DENY)
                       [] arch = NativeArch /\ nr = Nr.arch_prctl -> (IF t THEN ALLOW ELSE DENY)
                       [] arch = NativeArch /\ any -> ALLOW
                       [] OTHER -> ENOSYS
  BY DEF Policy
<1>2. (arch = NativeArch /\ nr \in {Nr.socket, Nr.clone, Nr.prctl, Nr.ioctl, Nr.arch_prctl}) => ~foreign
  <2> HIDE DEF nr
  <2> QED
    BY NrNative
<1>3. any => ~(arch = NativeArch /\ foreign)
  <2> HIDE DEF nr
  <2> QED
    BY NrNative
<1>4. any => nr \notin {Nr.socket, Nr.clone, Nr.prctl, Nr.ioctl, Nr.arch_prctl}
  <2> HIDE DEF nr
  <2> QED
    BY NrDiffer
<1>5. /\ Nr.socket # Nr.clone /\ Nr.socket # Nr.prctl /\ Nr.socket # Nr.ioctl /\ Nr.socket # Nr.arch_prctl
      /\ Nr.clone # Nr.prctl /\ Nr.clone # Nr.ioctl /\ Nr.clone # Nr.arch_prctl
      /\ Nr.prctl # Nr.ioctl /\ Nr.prctl # Nr.arch_prctl /\ Nr.ioctl # Nr.arch_prctl
  BY NrDiffer
<1>6. ~foreign => arch = NativeArch
  OBVIOUS
<1> HIDE DEF foreign, fine, same, p, i, t, any, nr, arch
<1>7. /\ foreign => Policy(data) = KILL
      /\ (~foreign /\ nr = Nr.socket) => Policy(data) = IF fine THEN ALLOW ELSE DENY
      /\ (~foreign /\ nr = Nr.clone) => Policy(data) = IF same THEN ALLOW ELSE DENY
      /\ (~foreign /\ nr = Nr.prctl) => Policy(data) = IF p THEN ALLOW ELSE DENY
      /\ (~foreign /\ nr = Nr.ioctl) => Policy(data) = IF i THEN ALLOW ELSE DENY
      /\ (~foreign /\ nr = Nr.arch_prctl) => Policy(data) = IF t THEN ALLOW ELSE DENY
      /\ (~foreign /\ nr \notin {Nr.socket, Nr.clone, Nr.prctl, Nr.ioctl, Nr.arch_prctl}) =>
            Policy(data) = IF any THEN ALLOW ELSE ENOSYS
  BY <1>1, <1>2, <1>3, <1>4, <1>5, <1>6
<1>8. ~foreign <=> arch = NativeArch /\ X32 \cap nr = {}
  BY DEF foreign
<1> QED
  BY <1>7, <1>8 DEF foreign, fine, same, p, i, t, any, nr, arch

\* Jump by jump, the program gives every call the verdict of the policy.
LEMMA ProgramFollowsPolicy == ASSUME NEW data, SystemCall(data) PROVE Interpret(data) = Policy(data)
<1>1. PICK g : Obeys(g, data) /\ Interpret(data) = g[1][{}]
  BY AnswersObey
<1> DEFINE nr == data.nr
           arch == data.arch
           plain == {Nr.file, Nr.memory, Nr.process, Nr.event, Nr.peer}
<1>2. nr \in Word /\ arch \in Word /\ {} \in Word
  BY DEF SystemCall, Fields, Word
<1>3. g[1][{}] = IF arch # NativeArch \/ nr \cap X32 # {} THEN KILL ELSE g[7][nr]
  <2> HIDE DEF nr, arch
  <2>1. g[1][{}] = g[2][arch] /\ g[4][arch] = g[5][nr]
    BY <1>1, <1>2, EntryRuns DEF nr, arch
  <2>2. g[2][arch] = IF arch = NativeArch THEN g[4][arch] ELSE KILL
    BY <1>1, <1>2, EntryRuns
  <2>3. g[5][nr] = IF nr \cap X32 # {} THEN KILL ELSE g[7][nr]
    BY <1>1, <1>2, EntryRuns
  <2> QED
    BY <2>1, <2>2, <2>3
<1>4. /\ g[7][nr] = IF nr = Nr.socket THEN g[8][nr] ELSE g[27][nr]
      /\ g[27][nr] = IF nr = Nr.clone THEN g[28][nr] ELSE g[35][nr]
      /\ g[35][nr] = IF nr = Nr.prctl THEN g[36][nr] ELSE g[42][nr]
      /\ g[42][nr] = IF nr = Nr.ioctl THEN g[43][nr] ELSE g[47][nr]
      /\ g[47][nr] = IF nr = Nr.arch_prctl THEN g[48][nr] ELSE g[52][nr]
      /\ g[52][nr] = IF nr \in plain THEN ALLOW ELSE ENOSYS
  <2> HIDE DEF nr, plain
  <2>1. /\ g[7][nr] = IF nr = Nr.socket THEN g[8][nr] ELSE g[27][nr]
        /\ g[27][nr] = IF nr = Nr.clone THEN g[28][nr] ELSE g[35][nr]
        /\ g[35][nr] = IF nr = Nr.prctl THEN g[36][nr] ELSE g[42][nr]
    BY <1>1, <1>2, EntryRuns, DatagramRuns, CloneRuns
  <2>2. /\ g[42][nr] = IF nr = Nr.ioctl THEN g[43][nr] ELSE g[47][nr]
        /\ g[47][nr] = IF nr = Nr.arch_prctl THEN g[48][nr] ELSE g[52][nr]
    BY <1>1, <1>2, OptionRuns
  <2>3. g[52][nr] = IF nr \in plain THEN ALLOW ELSE ENOSYS
    BY <1>1, <1>2, PlainVerdict DEF plain
  <2> QED
    BY <2>1, <2>2, <2>3
<1>5. X32 \cap nr = nr \cap X32
  OBVIOUS
<1>6. nr \in plain => nr \notin {Nr.socket, Nr.clone, Nr.prctl, Nr.ioctl, Nr.arch_prctl}
  BY NrDiffer
<1> HIDE DEF nr, arch
<1>7. CASE arch # NativeArch \/ X32 \cap nr # {}
  <2>1. Policy(data) = KILL
    BY <1>7, PolicySays DEF nr, arch
  <2> QED
    BY <1>1, <1>3, <1>5, <1>7, <2>1
<1>8. CASE arch = NativeArch /\ X32 \cap nr = {} /\ nr = Nr.socket
  <2>1. Interpret(data) = g[8][nr]
    BY <1>1, <1>3, <1>4, <1>5, <1>8, NrDiffer
  <2>2. Policy(data) = g[8][nr]
    BY <1>1, <1>2, <1>8, PolicySays, SocketVerdict DEF nr, arch
  <2> QED
    BY <2>1, <2>2
<1>9. CASE arch = NativeArch /\ X32 \cap nr = {} /\ nr = Nr.clone
  <2>1. Interpret(data) = g[28][nr]
    BY <1>1, <1>3, <1>4, <1>5, <1>9, NrDiffer
  <2>2. Policy(data) = g[28][nr]
    BY <1>1, <1>2, <1>9, PolicySays, CloneVerdict DEF nr, arch
  <2> QED
    BY <2>1, <2>2
<1>10. CASE arch = NativeArch /\ X32 \cap nr = {} /\ nr = Nr.prctl
  <2>1. Interpret(data) = g[36][nr]
    BY <1>1, <1>3, <1>4, <1>5, <1>10, NrDiffer
  <2>2. Policy(data) = g[36][nr]
    BY <1>1, <1>2, <1>10, PolicySays, OptionVerdicts DEF nr, arch
  <2> QED
    BY <2>1, <2>2
<1>11. CASE arch = NativeArch /\ X32 \cap nr = {} /\ nr = Nr.ioctl
  <2>1. Interpret(data) = g[43][nr]
    BY <1>1, <1>3, <1>4, <1>5, <1>11, NrDiffer
  <2>2. Policy(data) = g[43][nr]
    BY <1>1, <1>2, <1>11, PolicySays, OptionVerdicts DEF nr, arch
  <2> QED
    BY <2>1, <2>2
<1>12. CASE arch = NativeArch /\ X32 \cap nr = {} /\ nr = Nr.arch_prctl
  <2>1. Interpret(data) = g[48][nr]
    BY <1>1, <1>3, <1>4, <1>5, <1>12, NrDiffer
  <2>2. Policy(data) = g[48][nr]
    BY <1>1, <1>2, <1>12, PolicySays, OptionVerdicts DEF nr, arch
  <2> QED
    BY <2>1, <2>2
<1>13. CASE /\ arch = NativeArch /\ X32 \cap nr = {}
             /\ nr \notin {Nr.socket, Nr.clone, Nr.prctl, Nr.ioctl, Nr.arch_prctl}
  <2>1. Interpret(data) = g[52][nr]
    BY <1>1, <1>3, <1>4, <1>5, <1>13
  <2>2. Policy(data) = IF nr \in plain THEN ALLOW ELSE ENOSYS
    BY <1>13, PolicySays DEF nr, arch
  <2> QED
    BY <1>4, <2>1, <2>2
<1> QED
  BY <1>7, <1>8, <1>9, <1>10, <1>11, <1>12, <1>13

\* The half of ConfinesExactly that is about the program.
PolicyFollowed == tried.what = "call" => tried.verdict = Policy(tried.data)

\* Every case the kernel and the manager can present, and any system call.
CheckNext ==
  \/ \E c : FilterCase(c) /\ InspectFilters(c)
  \/ \E c : DeclaredCase(c) /\ InspectDeclarations(c)
  \/ \E data : SystemCall(data) /\ MakeSystemCall(data)
  \/ Forget

\* Filters the gate accepts let a packet of the tree through only to an approved
\* peer and never over the loopback interface, and refuse no approved peer; and
\* declarations it accepts make the manager build such filters: for address spaces
\* and maps of any size, so the one key read beyond the number of approved peers is
\* enough (native.rs filters, native_maps, attest_properties).
THEOREM AttestedFiltersHolds == CheckInit /\ [][CheckNext]_checkVars => []AttestedFilters
<1>1. CheckInit => AttestedFilters
  BY DEF CheckInit, Fresh, AttestedFilters
<1>2. AttestedFilters /\ [CheckNext]_checkVars => AttestedFilters'
  <2> SUFFICES ASSUME AttestedFilters, [CheckNext]_checkVars PROVE AttestedFilters'
    OBVIOUS
  <2>1. CASE UNCHANGED checkVars
    BY <2>1 DEF checkVars, AttestedFilters
  <2>2. ASSUME NEW c, FilterCase(c), InspectFilters(c)
        PROVE  AttestedFilters'
    <3>1. tried'.what = "filters" /\ tried'.case = c /\ tried'.accepted = Filters(c)
      BY <2>2 DEF InspectFilters
    <3> QED
      BY <2>2, <3>1, FiltersSay DEF AttestedFilters, Ids
  <2>3. ASSUME NEW c, DeclaredCase(c), InspectDeclarations(c)
        PROVE  AttestedFilters'
    <3>1. tried'.what = "declared" /\ tried'.case = c /\ tried'.accepted = Declarations(c)
      BY <2>3 DEF InspectDeclarations
    <3> QED
      BY <2>3, <3>1, DeclarationsSay DEF AttestedFilters
  <2>4. ASSUME NEW data, MakeSystemCall(data)
        PROVE  AttestedFilters'
    <3>1. tried'.what = "call"
      BY <2>4 DEF MakeSystemCall
    <3> QED
      BY <3>1 DEF AttestedFilters
  <2>5. CASE Forget
    BY <2>5 DEF Forget, Fresh, AttestedFilters
  <2> QED
    BY <2>1, <2>2, <2>3, <2>4, <2>5 DEF CheckNext
<1> QED
  BY <1>1, <1>2, PTL

\* And every system call, whatever words it is made with, gets from the program the
\* gate hands to the sandbox the verdict of the policy: foreign and x32 calls are
\* killed, sockets are TCP or UDP over IP, clone makes no namespace, what is not
\* listed does not exist (filter.rs filter_program, conditional, socket_policy).
THEOREM ConfinesExactlyHolds == CheckInit /\ [][CheckNext]_checkVars => []ConfinesExactly
<1>1. CheckInit => PolicyFollowed
  BY DEF CheckInit, Fresh, PolicyFollowed
<1>2. PolicyFollowed /\ [CheckNext]_checkVars => PolicyFollowed'
  <2> SUFFICES ASSUME PolicyFollowed, [CheckNext]_checkVars PROVE PolicyFollowed'
    OBVIOUS
  <2>1. CASE UNCHANGED checkVars
    BY <2>1 DEF checkVars, PolicyFollowed
  <2>2. ASSUME NEW c, InspectFilters(c)
        PROVE  PolicyFollowed'
    <3>1. tried'.what = "filters"
      BY <2>2 DEF InspectFilters
    <3> QED
      BY <3>1 DEF PolicyFollowed
  <2>3. ASSUME NEW c, InspectDeclarations(c)
        PROVE  PolicyFollowed'
    <3>1. tried'.what = "declared"
      BY <2>3 DEF InspectDeclarations
    <3> QED
      BY <3>1 DEF PolicyFollowed
  <2>4. ASSUME NEW data, SystemCall(data), MakeSystemCall(data)
        PROVE  PolicyFollowed'
    <3>1. tried'.verdict = Interpret(data) /\ tried'.data = data
      BY <2>4 DEF MakeSystemCall
    <3>2. Interpret(data) = Policy(data)
      BY <2>4, ProgramFollowsPolicy
    <3> QED
      BY <3>1, <3>2 DEF PolicyFollowed
  <2>5. CASE Forget
    BY <2>5 DEF Forget, Fresh, PolicyFollowed
  <2> QED
    BY <2>1, <2>2, <2>3, <2>4, <2>5 DEF CheckNext
<1>3. AttestedFilters /\ PolicyFollowed => ConfinesExactly
  BY DEF ConfinesExactly, PolicyFollowed
<1> HIDE DEF CheckInit, CheckNext
<1> QED
  BY <1>1, <1>2, <1>3, AttestedFiltersHolds, PTL

-----------------------------------------------------------------------------
(* Bringing the layer up.                                                  *)

USE LoadAssumption

LoaderFields == {"pc", "pinDir", "inherited", "sockPinned", "maps", "sock", "execPinned", "sink", "clean", "report"}
ReportFields == {"exec", "exit", "dns", "level", "pinned", "execField", "exitField", "ppid", "sockNote"}
Opening == {"down", "vet", "prepare", "load", "disarm", "dropExec", "dropExit"}
Working == {"disarm", "dropExec", "dropExit", "attachExec", "attachExit", "attachDns", "enforce", "connect4", "connect6"}
Closing == {"maps", "consumers", "up"}

\* The steps up to the one that attaches to a hook: no program of this start is there.
Until(h) ==
  CASE h = "exec" -> Opening \cup {"attachExec"}
    [] h = "exit" -> Opening \cup {"attachExec", "attachExit"}
    [] h = "dns" -> Opening \cup {"attachExec", "attachExit", "attachDns"}
    [] h = "connect4" -> Opening \cup {"attachExec", "attachExit", "attachDns", "enforce", "connect4"}
    [] h = "connect6" -> Opening \cup Working
    [] OTHER -> Opening \cup Working \cup Closing

LoadTypes ==
  /\ DOMAIN hooks = Hooks /\ DOMAIN loader = LoaderFields /\ DOMAIN loader.report = ReportFields
  /\ DOMAIN mapPins = {"maps", "sock"} /\ DOMAIN armed = {"mark", "until", "grants"}
  /\ loader.pc \in Opening \cup Working \cup Closing
  /\ {loader.pinDir, loader.inherited, loader.execPinned, loader.sink, loader.clean, refused} \subseteq BOOLEAN
  /\ {loader.report.exec, loader.report.exit, loader.report.dns, loader.report.pinned} \subseteq BOOLEAN
  /\ loader.report.level \in {"Off", "Process", "Pinned", "Inherited", "Unavailable"}
  /\ starts \in Nat

\* Who holds what: until this start attaches to a hook only earlier daemons' pins are
\* there, at most one program to a connect hook; a pinned connect program runs on
\* the pinned maps, and the pins drop_stale_link_pin is done with are gone.
HeldRight ==
  /\ \A h \in Hooks : \A x \in hooks[h] :
        x.held \in {"pin", "fd", "old"} /\ (loader.pc \in Until(h) => x.held # "fd")
  /\ \A x \in hooks["dns"] : x.held = "fd"
  /\ \A c \in Connects : \A x, y \in hooks[c] : x = y
  /\ \A c \in Connects : \A x \in hooks[c] : x.held = "pin" => x.maps = mapPins.maps /\ x.maps # Absent
  /\ loader.pinDir /\ loader.pc \in {"dropExit", "attachExec"} => ~Pinned("exec", hooks)
  /\ loader.pinDir /\ loader.pc \in {"attachExec", "attachExit"} => ~Pinned("exit", hooks)

\* The way to a level: what is inherited is attached, the maps taken are the pinned
\* ones, and a level is only said when both connect programs run on those maps.
AttachRight ==
  /\ loader.inherited => loader.pinDir /\ AlreadyAttached(hooks)
  /\ loader.pinDir /\ loader.pc \in Working \cup {"maps", "consumers"} =>
        loader.maps = mapPins.maps /\ loader.maps # Absent
  /\ loader.pc \in {"connect4", "connect6"} => ~loader.inherited
  /\ loader.pc = "connect6" =>
        \E x \in hooks["connect4"] : x.maps = loader.maps /\ x.held = IF loader.pinDir THEN "pin" ELSE "fd"
  /\ loader.pc \notin Closing => loader.report.level = "Off"
  /\ IsLive(loader.report.level) =>
        \A c \in Connects : \E x \in hooks[c] :
           x.maps = loader.maps /\ x.held = IF SurvivesDaemon(loader.report.level) THEN "pin" ELSE "fd"
  /\ loader.sink => loader.pc \in {"consumers", "up"} /\ (loader.maps \in denies <=> refused)

\* The streams, pins and fields reported have their program of this start.
StreamsRight ==
  LET r == loader.report IN
  /\ loader.pc \in Opening \cup {"attachExec"} => ~r.exec /\ ~r.exit /\ ~r.pinned
  /\ loader.execPinned /\ loader.pc = "attachExit" => \E x \in hooks["exec"] : x.held = "pin" /\ x.ring = starts
  /\ r.exec => \E x \in hooks["exec"] : x.ring = starts /\ x.field = ExecFilenameOffset.told
  /\ r.exit => \E x \in hooks["exit"] : x.ring = starts /\ x.field = ExitGroupDeadOffset
  /\ r.pinned => \A h \in Tracepoints : \E x \in hooks[h] : x.held = "pin" /\ x.ring = starts
  /\ r.exec /\ loader.pc \in {"consumers", "up"} => r.exit
  /\ r.execField # Absent => r.execField = ExecFilenameOffset.says
  /\ r.exitField # Absent => r.exitField = ExitGroupDeadOffset

One(h) == \E x \in hooks[h] : hooks[h] = {x}

\* What a start in which nothing failed has got by each step.
CleanSoFar ==
  LET r == loader.report IN
  loader.clean =>
  /\ loader.pc \in {"load"} \cup Working \cup Closing =>
       /\ loader.pinDir /\ kernel.bpffs /\ hooks["sendmsg"] = {}
       /\ \A h \in Hooks : \A x \in hooks[h] : x.held # "old"
  /\ loader.pc \in (Working \ {"disarm"}) \cup Closing => loader.maps \notin armed.mark
  /\ loader.pc \in (Working \cup Closing) \ (Opening \cup {"attachExec"}) => r.exec /\ One("exec")
  /\ loader.pc = "attachExit" => (kernel.fdLink => loader.execPinned)
  /\ loader.pc \in (Working \cup Closing) \ (Opening \cup {"attachExec", "attachExit"}) =>
       r.exit /\ One("exit") /\ (kernel.fdLink => r.pinned)
  /\ loader.pc \in {"enforce", "connect4", "connect6"} \cup Closing /\ kernel.cgroup2 => r.dns /\ One("dns")
  /\ loader.pc = "connect4" => hooks["connect4"] = {}
  /\ loader.pc \in {"connect4", "connect6"} => hooks["connect6"] = {}
  /\ loader.pc \in Closing /\ kernel.cgroup2 =>
       /\ SurvivesDaemon(r.level)
       /\ \A c \in Connects : One(c) /\ \A x \in hooks[c] : x.maps \notin armed.mark

\* The inductive invariant.
LoadInv == LoadTypes /\ HeldRight /\ AttachRight /\ StreamsRight /\ CleanSoFar

LEMMA LoadStarts == KernelInit => LoadInv
<1> SUFFICES ASSUME KernelInit PROVE LoadInv
  OBVIOUS
<1> PICK who \in Leftovers :
       /\ who # "none" => kernel.bpffs /\ kernel.cgroup2
       /\ hooks = LeftBy(who)
       /\ mapPins = [maps |-> IF who = "legacy" THEN 0 ELSE Absent, sock |-> Absent]
       /\ armed = LET a == IF who = "legacy" THEN {0} ELSE {} IN [mark |-> a, until |-> a, grants |-> a]
  BY DEF KernelInit
<1>1. loader = Down /\ starts = 0 /\ refused \in BOOLEAN /\ who \in {"none", "oldAbi", "legacy"}
  BY LoadAssumption DEF KernelInit
<1>2. ASSUME NEW h \in Hooks, NEW x \in hooks[h]
      PROVE  /\ h # "dns" /\ x.maps = 0 /\ x.held = (IF who = "oldAbi" THEN "old" ELSE "pin") /\ who # "none"
             /\ \A y \in hooks[h] : x = y
  BY <1>1 DEF LeftBy, Program
<1>3. LoadTypes
  BY <1>1 DEF LoadTypes, LeftBy, LoaderFields, ReportFields, Down, InertReport, Opening, Absent
<1>4. HeldRight
  <2>1. mapPins.maps = IF who = "legacy" THEN 0 ELSE Absent
    OBVIOUS
  <2>2. Connects \subseteq Hooks /\ "dns" \in Hooks
    BY DEF Hooks, Connects
  <2> QED
    BY <1>1, <1>2, <2>1, <2>2 DEF HeldRight, Down, Opening, Absent
<1>5. AttachRight /\ StreamsRight /\ CleanSoFar
  BY <1>1 DEF AttachRight, StreamsRight, CleanSoFar, Down, InertReport, IsLive, Opening, Working, Closing, Absent
<1> QED
  BY <1>3, <1>4, <1>5 DEF LoadInv

LEMMA StartKeeps == ASSUME LoadInv, Start PROVE LoadInv'
<1>1. /\ loader.pc = "down" /\ starts' = starts + 1
      /\ UNCHANGED <<kernel, hooks, mapPins, denies, armed, marks, refused>>
  BY DEF Start
<1>2. PICK flushed, wanted \in BOOLEAN :
        loader' = [Down EXCEPT !.pc = IF wanted THEN "vet" ELSE "up", !.clean = flushed /\ wanted]
  BY DEF Start
<1>3. /\ loader' = [pc |-> IF wanted THEN "vet" ELSE "up", pinDir |-> FALSE, inherited |-> FALSE,
                    sockPinned |-> FALSE, maps |-> Absent, sock |-> Absent, execPinned |-> FALSE, sink |-> FALSE,
                    clean |-> (flushed /\ wanted), report |-> InertReport]
  BY <1>2 DEF Down
<1>4. LoadTypes'
  <2>1. DOMAIN loader' = LoaderFields /\ DOMAIN loader'.report = ReportFields
    BY <1>3 DEF LoaderFields, ReportFields, InertReport
  <2>2. /\ loader'.pc \in {"vet", "up"} /\ (flushed /\ wanted) \in BOOLEAN /\ loader'.clean = (flushed /\ wanted)
        /\ loader'.pinDir = FALSE /\ loader'.inherited = FALSE /\ loader'.execPinned = FALSE /\ loader'.sink = FALSE
    BY <1>3
  <2>3. /\ loader'.report = InertReport /\ loader'.report.exec = FALSE /\ loader'.report.exit = FALSE
        /\ loader'.report.dns = FALSE /\ loader'.report.pinned = FALSE /\ loader'.report.level = "Off"
    BY <1>3 DEF InertReport
  <2>4. starts' \in Nat /\ refused' \in BOOLEAN
    BY <1>1 DEF LoadInv, LoadTypes
  <2> QED
    BY <1>1, <2>1, <2>2, <2>3, <2>4 DEF LoadInv, LoadTypes, Opening, Closing
<1>5. HeldRight'
  BY <1>1, <1>3 DEF LoadInv, HeldRight, Until, Opening, Working, Closing
<1>6. AttachRight' /\ StreamsRight'
  BY <1>1, <1>3 DEF AttachRight, StreamsRight, InertReport, IsLive, Opening, Working, Closing, Absent
<1>7. CleanSoFar'
  BY <1>1, <1>3 DEF CleanSoFar, Opening, Working, Closing
<1> QED
  BY <1>4, <1>5, <1>6, <1>7 DEF LoadInv

\* An error leaves the daemon without the layer: it says nothing of the kernel.
LEMMA InertKeeps ==
  ASSUME LoadInv, loader' = Inert, UNCHANGED <<kernel, hooks, refused, starts>>,
         DOMAIN mapPins' = DOMAIN mapPins, mapPins.maps # Absent => mapPins'.maps = mapPins.maps, DOMAIN armed' = DOMAIN armed
  PROVE  LoadInv'
<1>1. DOMAIN loader = LoaderFields
  BY DEF LoadInv, LoadTypes
<1>2. /\ DOMAIN loader' = LoaderFields /\ loader'.pc = "up" /\ loader'.report = InertReport
      /\ loader'.clean = FALSE /\ loader'.sink = FALSE
      /\ loader'.pinDir = loader.pinDir /\ loader'.inherited = loader.inherited
      /\ loader'.execPinned = loader.execPinned
  BY <1>1 DEF Inert, LoaderFields
<1>3. /\ DOMAIN loader'.report = ReportFields /\ loader'.report.exec = FALSE /\ loader'.report.exit = FALSE
      /\ loader'.report.dns = FALSE /\ loader'.report.pinned = FALSE /\ loader'.report.level = "Off"
      /\ loader'.report.execField = Absent /\ loader'.report.exitField = Absent
  BY <1>2 DEF InertReport, ReportFields
<1>4. LoadTypes'
  BY <1>2, <1>3, ZenonT(60) DEF LoadInv, LoadTypes, Closing
<1>5. HeldRight'
  <2>1. ASSUME NEW h \in Hooks, NEW x \in hooks'[h]
        PROVE  x.held \in {"pin", "fd", "old"} /\ (loader'.pc \in Until(h) => x.held # "fd")
    BY <1>2, <2>1 DEF LoadInv, LoadTypes, HeldRight, Until, Opening, Working, Closing, Hooks, Connects, Tracepoints
  <2> QED
    BY <1>2, <2>1 DEF LoadInv, HeldRight
<1>6. AttachRight'
  BY <1>2, <1>3 DEF LoadInv, AttachRight, AlreadyAttached, Pinned, IsLive, Working, Closing
<1>7. CleanSoFar'
  <2>1. ~loader'.clean
    BY <1>2
  <2> QED
    BY <2>1 DEF CleanSoFar
<1>8. StreamsRight'
  BY <1>2, <1>3 DEF StreamsRight, Opening
<1> QED
  BY <1>4, <1>5, <1>6, <1>7, <1>8 DEF LoadInv

LEMMA VetKeeps == ASSUME LoadInv, VetObject PROVE LoadInv'
<1>1. loader.pc = "vet" /\ UNCHANGED <<kernel, hooks, mapPins, denies, armed, refused, starts>>
  BY DEF VetObject
<1>2. CASE loader' = Inert
  BY <1>1, <1>2, InertKeeps
<1>3. CASE loader' = [loader EXCEPT !.pc = "prepare", !.report.ppid = TaskStructOffsets]
  <2>1. DOMAIN loader = LoaderFields /\ DOMAIN loader.report = ReportFields
    BY DEF LoadInv, LoadTypes
  <2>2. /\ DOMAIN loader' = LoaderFields /\ loader'.pc = "prepare"
        /\ loader'.report = [loader.report EXCEPT !.ppid = TaskStructOffsets]
        /\ loader'.clean = loader.clean /\ loader'.sink = loader.sink
        /\ loader'.pinDir = loader.pinDir /\ loader'.inherited = loader.inherited
        /\ loader'.execPinned = loader.execPinned /\ loader'.maps = loader.maps
    BY <1>3, <2>1 DEF LoaderFields
  <2>3. /\ DOMAIN loader'.report = ReportFields
        /\ \A f \in ReportFields \ {"ppid"} : loader'.report[f] = loader.report[f]
    BY <2>1, <2>2
  <2>4. /\ loader'.report.exec = loader.report.exec /\ loader'.report.exit = loader.report.exit
        /\ loader'.report.dns = loader.report.dns /\ loader'.report.pinned = loader.report.pinned
        /\ loader'.report.level = loader.report.level
        /\ loader'.report.execField = loader.report.execField /\ loader'.report.exitField = loader.report.exitField
    BY <2>3 DEF ReportFields
  <2>5. LoadTypes'
    BY <1>1, <2>2, <2>3, <2>4 DEF LoadInv, LoadTypes, Opening
  <2>6. HeldRight'
    BY <1>1, <2>2 DEF LoadInv, HeldRight, Until, Opening, Working, Closing, Hooks
  <2>7. AttachRight'
    BY <1>1, <2>2, <2>4 DEF LoadInv, AttachRight, AlreadyAttached, Pinned, IsLive, Working, Closing
  <2>8. StreamsRight'
    BY <1>1, <2>2, <2>4 DEF LoadInv, StreamsRight, ExecFilenameOffset, ExitGroupDeadOffset, Opening
  <2>9. CleanSoFar'
    BY <1>1, <2>2, <2>4 DEF CleanSoFar, Opening, Working, Closing
  <2> QED
    BY <2>5, <2>6, <2>7, <2>8, <2>9 DEF LoadInv
<1> QED
  BY <1>2, <1>3 DEF VetObject

LEMMA PrepareKeeps == ASSUME LoadInv, Prepare PROVE LoadInv'
<1>1. loader.pc = "prepare" /\ UNCHANGED <<kernel, mapPins, denies, armed, refused, starts>>
  BY DEF Prepare
<1> PICK mounted, unpinned, removed, created \in BOOLEAN :
      LET hs1 == IF mounted /\ unpinned THEN UnpinOtherVersions(hooks) ELSE hooks
          hs2 == IF mounted /\ created /\ removed THEN RemoveLegacyPins(hs1) ELSE hs1
          dir == mounted /\ created
      IN /\ mounted => kernel.bpffs
         /\ Faulty(Cost(mounted \/ ~kernel.bpffs) + Cost(unpinned) + Cost(removed) + Cost(created))
         /\ hooks' = hs2
         /\ loader' = [loader EXCEPT !.pc = "load", !.pinDir = dir, !.inherited = dir /\ AlreadyAttached(hs2),
                            !.sockPinned = dir /\ mapPins.sock # Absent,
                            !.clean = @ /\ dir /\ unpinned /\ removed]
  BY DEF Prepare
<1> DEFINE hs1 == IF mounted /\ unpinned THEN UnpinOtherVersions(hooks) ELSE hooks
           dir == mounted /\ created
<1>2. /\ mounted => kernel.bpffs
      /\ hooks' = IF mounted /\ created /\ removed THEN RemoveLegacyPins(hs1) ELSE hs1
  OBVIOUS
<1>3. DOMAIN hooks = Hooks /\ DOMAIN loader = LoaderFields /\ DOMAIN loader.report = ReportFields
  BY DEF LoadInv, LoadTypes
<1>4. DOMAIN hs1 = Hooks /\ \A h \in Hooks : hs1[h] = IF mounted /\ unpinned THEN {x \in hooks[h] : x.held # "old"} ELSE hooks[h]
  BY <1>3 DEF UnpinOtherVersions
<1> HIDE DEF hs1
<1>5. /\ DOMAIN hooks' = Hooks
      /\ \A h \in Hooks \ {"sendmsg"} : hooks'[h] = hs1[h]
      /\ hooks'["sendmsg"] = IF mounted /\ created /\ removed THEN {x \in hs1["sendmsg"] : x.held # "pin"} ELSE hs1["sendmsg"]
  BY <1>2, <1>4 DEF RemoveLegacyPins, Without, Hooks
<1>6. /\ DOMAIN loader' = LoaderFields /\ loader'.pc = "load" /\ loader'.report = loader.report
      /\ loader'.sink = loader.sink /\ loader'.execPinned = loader.execPinned /\ loader'.maps = loader.maps
  BY <1>3 DEF LoaderFields
<1>7. loader'.pinDir = dir /\ loader'.inherited = (dir /\ AlreadyAttached(hooks'))
  BY <1>3 DEF LoaderFields
<1>8. loader'.clean = (loader.clean /\ dir /\ unpinned /\ removed)
  BY <1>3 DEF LoaderFields
<1>9. \A h \in Hooks : hooks'[h] \subseteq hooks[h]
  BY <1>4, <1>5
<1>10. LoadTypes'
  <2>1. {dir, dir /\ AlreadyAttached(hooks'), loader.clean /\ dir /\ unpinned /\ removed} \subseteq BOOLEAN
    OBVIOUS
  <2> HIDE DEF dir
  <2> QED
    BY <1>1, <1>5, <1>6, <1>7, <1>8, <2>1 DEF LoadInv, LoadTypes, Opening
<1>11. HeldRight'
  <2>1. ASSUME NEW h \in Hooks, NEW x \in hooks'[h]
        PROVE  x.held \in {"pin", "fd", "old"} /\ x.held # "fd"
    <3>1. x \in hooks[h] /\ loader.pc \in Until(h)
      BY <1>1, <1>9, <2>1 DEF Until, Opening, Hooks
    <3> QED
      BY <3>1 DEF LoadInv, HeldRight
  <2>2. \A x \in hooks'["dns"] : x.held = "fd"
    BY <1>9 DEF LoadInv, HeldRight, Hooks
  <2>3. \A c \in Connects : \A x, y \in hooks'[c] : x = y
    BY <1>9 DEF LoadInv, HeldRight, Hooks
  <2>4. \A c \in Connects : \A x \in hooks'[c] : x.held = "pin" => x.maps = mapPins.maps /\ x.maps # Absent
    BY <1>9 DEF LoadInv, HeldRight, Hooks
  <2> QED
    BY <1>1, <1>6, <2>1, <2>2, <2>3, <2>4 DEF HeldRight
<1>12. AttachRight'
  BY <1>1, <1>6, <1>7 DEF LoadInv, AttachRight, IsLive, Working, Closing
<1>13. StreamsRight'
  BY <1>1, <1>6 DEF LoadInv, StreamsRight, ExecFilenameOffset, ExitGroupDeadOffset, Opening
<1>14. CleanSoFar'
  <2> SUFFICES ASSUME loader'.clean
               PROVE  /\ loader'.pinDir /\ kernel.bpffs /\ hooks'["sendmsg"] = {}
                      /\ \A h \in Hooks : \A x \in hooks'[h] : x.held # "old"
    BY <1>1, <1>6 DEF CleanSoFar, Opening, Working, Closing
  <2>1. mounted /\ created /\ unpinned /\ removed
    BY <1>8
  <2>2. \A h \in Hooks : \A x \in hooks'[h] : x.held # "old"
    BY <1>4, <1>5, <2>1
  <2>3. \A x \in hooks["sendmsg"] : x.held \in {"pin", "old"}
    BY <1>1 DEF LoadInv, HeldRight, Until, Opening, Hooks
  <2>4. hooks'["sendmsg"] = {}
    BY <1>4, <1>5, <2>1, <2>3 DEF Hooks
  <2> QED
    BY <1>1, <1>2, <1>7, <2>1, <2>2, <2>4
<1> QED
  BY <1>10, <1>11, <1>12, <1>13, <1>14 DEF LoadInv

LEMMA LoadKeeps == ASSUME LoadInv, Load PROVE LoadInv'
<1>1. loader.pc = "load" /\ UNCHANGED <<kernel, hooks, denies, armed, refused, starts>>
  BY DEF Load
<1>2. /\ DOMAIN loader = LoaderFields /\ DOMAIN loader.report = ReportFields
      /\ DOMAIN mapPins = {"maps", "sock"} /\ starts \in Nat /\ loader.pinDir \in BOOLEAN
  BY DEF LoadInv, LoadTypes
<1> PICK ok \in BOOLEAN, made \in SUBSET {"maps", "sock"} :
       /\ Faulty(Cost(ok)) /\ (ok => made = {"maps", "sock"})
       /\ mapPins' = [n \in DOMAIN mapPins |-> IF loader.pinDir /\ n \in made THEN Opened(n) ELSE mapPins[n]]
       /\ loader' = IF ~ok THEN Inert
               ELSE [loader EXCEPT !.pc = "disarm", !.maps = Opened("maps"), !.sock = Opened("sock"),
                              !.report.execField = ExecFilenameOffset.says,
                              !.report.exitField = ExitGroupDeadOffset]
  BY DEF Load
<1>3. /\ DOMAIN mapPins' = DOMAIN mapPins /\ (mapPins.maps # Absent => mapPins'.maps = mapPins.maps)
      /\ ok /\ loader.pinDir => mapPins'.maps = Opened("maps")
  BY <1>2 DEF Opened
<1>4. Opened("maps") # Absent
  BY <1>2 DEF Opened, Absent
<1>5. CASE ~ok
  BY <1>1, <1>3, <1>5, InertKeeps
<1>6. CASE ok
  <2>1. /\ DOMAIN loader' = LoaderFields /\ loader'.pc = "disarm" /\ loader'.maps = Opened("maps")
        /\ loader'.report = [loader.report EXCEPT !.execField = ExecFilenameOffset.says,
                                                  !.exitField = ExitGroupDeadOffset]
        /\ loader'.clean = loader.clean /\ loader'.sink = loader.sink
        /\ loader'.pinDir = loader.pinDir /\ loader'.inherited = loader.inherited
        /\ loader'.execPinned = loader.execPinned
    BY <1>2, <1>6 DEF LoaderFields
  <2> DEFINE r == loader.report
  <2>2. /\ DOMAIN loader'.report = ReportFields
        /\ loader'.report.execField = ExecFilenameOffset.says /\ loader'.report.exitField = ExitGroupDeadOffset
    <3>1. "execField" \in DOMAIN r /\ "exitField" \in DOMAIN r /\ DOMAIN r = ReportFields
      BY <1>2 DEF ReportFields
    <3> HIDE DEF r
    <3>2. loader'.report = [r EXCEPT !.execField = ExecFilenameOffset.says, !.exitField = ExitGroupDeadOffset]
      BY <2>1 DEF r
    <3> QED
      BY <3>1, <3>2
  <2>3. /\ loader'.report.exec = loader.report.exec /\ loader'.report.exit = loader.report.exit
        /\ loader'.report.dns = loader.report.dns /\ loader'.report.pinned = loader.report.pinned
        /\ loader'.report.level = loader.report.level
    <3>1. {"exec", "exit", "dns", "pinned", "level"} \subseteq DOMAIN r
      BY <1>2 DEF ReportFields
    <3>2. loader'.report = [r EXCEPT !.execField = ExecFilenameOffset.says, !.exitField = ExitGroupDeadOffset]
      BY <2>1
    <3> HIDE DEF r
    <3>3. loader'.report.exec = r.exec /\ loader'.report.exit = r.exit /\ loader'.report.dns = r.dns
          /\ loader'.report.pinned = r.pinned /\ loader'.report.level = r.level
      BY <3>1, <3>2
    <3> QED
      BY <3>3 DEF r
  <2>4. LoadTypes'
    BY <1>1, <1>3, <2>1, <2>2, <2>3 DEF LoadInv, LoadTypes, Working
  <2>5. HeldRight'
    <3>1. \A h \in Hooks : loader.pc \in Until(h)
      BY <1>1 DEF Until, Opening
    <3> QED
      BY <1>1, <1>3, <2>1, <3>1 DEF LoadInv, HeldRight
  <2>6. AttachRight'
    BY <1>1, <1>3, <1>4, <1>6, <2>1, <2>3 DEF LoadInv, AttachRight, AlreadyAttached, Pinned, IsLive, Working, Closing
  <2>7. StreamsRight'
    BY <1>1, <2>1, <2>2, <2>3, ZenonT(60) DEF LoadInv, StreamsRight, ExecFilenameOffset, ExitGroupDeadOffset, Opening
  <2>8. CleanSoFar'
    BY <1>1, <2>1, <2>3 DEF LoadInv, CleanSoFar, Opening, Working, Closing
  <2> QED
    BY <2>4, <2>5, <2>6, <2>7, <2>8 DEF LoadInv
<1> QED
  BY <1>5, <1>6

LEMMA DisarmKeeps == ASSUME LoadInv, Disarm PROVE LoadInv'
<1>1. loader.pc = "disarm" /\ UNCHANGED <<kernel, hooks, mapPins, denies, refused, starts>>
  BY DEF Disarm
<1>2. DOMAIN loader = LoaderFields /\ DOMAIN armed = {"mark", "until", "grants"} /\ loader.clean \in BOOLEAN
  BY DEF LoadInv, LoadTypes
<1> PICK what \in SUBSET DOMAIN armed :
       /\ Faulty(Cost(what = DOMAIN armed))
       /\ armed' = DisarmLegacyFastAllow(what)
       /\ loader' = [loader EXCEPT !.pc = "dropExec", !.clean = @ /\ what = DOMAIN armed]
  BY DEF Disarm
<1>3. /\ DOMAIN loader' = LoaderFields /\ loader'.pc = "dropExec" /\ loader'.report = loader.report
      /\ loader'.maps = loader.maps /\ loader'.sink = loader.sink
      /\ loader'.pinDir = loader.pinDir /\ loader'.inherited = loader.inherited
      /\ loader'.execPinned = loader.execPinned
  BY <1>2 DEF LoaderFields
<1>4. loader'.clean = (loader.clean /\ what = DOMAIN armed)
  BY <1>2 DEF LoaderFields
<1>5. DOMAIN armed' = DOMAIN armed /\ (what = DOMAIN armed => loader.maps \notin armed'.mark)
  BY <1>2 DEF DisarmLegacyFastAllow
<1>6. loader'.clean \in BOOLEAN
  BY <1>4
<1>7. LoadTypes'
  BY <1>1, <1>3, <1>5, <1>6 DEF LoadInv, LoadTypes, Opening
<1>8. HeldRight'
  <2>1. \A h \in Hooks : loader.pc \in Until(h)
    BY <1>1 DEF Until, Opening
  <2> QED
    BY <1>1, <1>3, <2>1 DEF LoadInv, HeldRight
<1>9. AttachRight'
  BY <1>1, <1>3 DEF LoadInv, AttachRight, AlreadyAttached, Pinned, IsLive, Working, Closing
<1>10. StreamsRight'
  BY <1>1, <1>3 DEF LoadInv, StreamsRight, ExecFilenameOffset, ExitGroupDeadOffset, Opening
<1>11. CleanSoFar'
  <2> SUFFICES ASSUME loader'.clean PROVE CleanSoFar'
    BY DEF CleanSoFar
  <2>1. loader.clean /\ what = DOMAIN armed
    BY <1>4
  <2> QED
    BY <1>1, <1>3, <1>5, <2>1 DEF LoadInv, CleanSoFar, Opening, Working, Closing
<1> QED
  BY <1>7, <1>8, <1>9, <1>10, <1>11 DEF LoadInv

\* Only pins of the one hook go, those of an earlier run: its new link replaces them.
LEMMA DropKeeps ==
  ASSUME LoadInv, NEW h \in Tracepoints,
         DropStaleLinkPin(IF h = "exec" THEN "dropExec" ELSE "dropExit", h,
                          IF h = "exec" THEN "dropExit" ELSE "attachExec")
  PROVE  LoadInv'
<1> DEFINE pc == IF h = "exec" THEN "dropExec" ELSE "dropExit"
           next == IF h = "exec" THEN "dropExit" ELSE "attachExec"
<1>1. loader.pc = pc /\ UNCHANGED <<kernel, mapPins, denies, armed, refused, starts>>
  BY DEF DropStaleLinkPin
<1>2. DOMAIN loader = LoaderFields /\ DOMAIN hooks = Hooks /\ h \in {"exec", "exit"} /\ h \in Hooks
  BY DEF LoadInv, LoadTypes, Tracepoints, Hooks
<1> PICK ok \in BOOLEAN :
       /\ ok \/ (loader.pinDir /\ Pinned(h, hooks))
       /\ Faulty(Cost(ok))
       /\ hooks' = IF ok /\ loader.pinDir THEN Without(hooks, h, "pin") ELSE hooks
       /\ loader' = IF ok THEN [loader EXCEPT !.pc = next] ELSE Inert
  BY DEF DropStaleLinkPin
<1>3. CASE ~ok
  BY <1>1, <1>3, InertKeeps
<1>4. CASE ok
  <2>1. /\ DOMAIN loader' = LoaderFields /\ loader'.pc = next /\ loader'.report = loader.report
        /\ loader'.maps = loader.maps /\ loader'.sink = loader.sink /\ loader'.clean = loader.clean
        /\ loader'.pinDir = loader.pinDir /\ loader'.inherited = loader.inherited
        /\ loader'.execPinned = loader.execPinned
    BY <1>2, <1>4 DEF LoaderFields
  <2>2. /\ DOMAIN hooks' = Hooks /\ \A g \in Hooks \ {h} : hooks'[g] = hooks[g]
        /\ hooks'[h] \subseteq hooks[h]
        /\ loader.pinDir => ~Pinned(h, hooks')
    BY <1>2, <1>4 DEF Without, Pinned
  <2>3. pc \in {"dropExec", "dropExit"} /\ next \in {"dropExit", "attachExec"}
    OBVIOUS
  <2>4. LoadTypes'
    BY <1>1, <2>1, <2>2, <2>3 DEF LoadInv, LoadTypes, Opening, Working
  <2>5. \A g \in Hooks : hooks'[g] \subseteq hooks[g]
    BY <2>2
  <2>6. HeldRight'
    <3>1. \A g \in Hooks : loader.pc \in Until(g)
      BY <1>1, <2>3 DEF Until, Opening
    <3>2. \A g \in Hooks : \A x \in hooks'[g] :
            x.held \in {"pin", "fd", "old"} /\ (loader'.pc \in Until(g) => x.held # "fd")
      BY <2>5, <3>1 DEF LoadInv, HeldRight
    <3>3. \A x \in hooks'["dns"] : x.held = "fd"
      BY <2>5 DEF LoadInv, HeldRight, Hooks
    <3>4. /\ \A c \in Connects : \A x, y \in hooks'[c] : x = y
          /\ \A c \in Connects : \A x \in hooks'[c] : x.held = "pin" => x.maps = mapPins.maps /\ x.maps # Absent
      BY <2>5 DEF LoadInv, HeldRight, Hooks
    <3>5. CASE h = "exec"
      BY <1>1, <2>1, <2>2, <3>2, <3>3, <3>4, <3>5 DEF HeldRight
    <3>6. CASE h = "exit"
      <4>1. hooks'["exec"] = hooks["exec"] /\ loader.pc = "dropExit"
        BY <1>1, <2>2, <3>6 DEF Hooks, Tracepoints
      <4>2. loader'.pinDir => ~Pinned("exec", hooks')
        BY <2>1, <4>1 DEF LoadInv, HeldRight, Pinned
      <4> QED
        BY <1>1, <2>1, <2>2, <3>2, <3>3, <3>4, <3>6, <4>2 DEF HeldRight
    <3> QED
      BY <1>2, <3>5, <3>6
  <2>7. AttachRight'
    <3>1. \A c \in Connects : hooks'[c] = hooks[c]
      BY <2>2, <1>2 DEF Connects, Hooks
    <3>2. AlreadyAttached(hooks) => AlreadyAttached(hooks')
      BY <3>1 DEF AlreadyAttached, Pinned
    <3> QED
      BY <1>1, <2>1, <2>3, <3>1, <3>2 DEF LoadInv, AttachRight, IsLive, Working, Closing
  <2>8. StreamsRight'
    BY <1>1, <2>1, <2>3 DEF LoadInv, StreamsRight, ExecFilenameOffset, ExitGroupDeadOffset, Opening
  <2>9. CleanSoFar'
    <3> SUFFICES ASSUME loader'.clean PROVE CleanSoFar'
      BY DEF CleanSoFar
    <3>1. /\ loader.pinDir /\ kernel.bpffs /\ hooks["sendmsg"] = {} /\ loader.maps \notin armed.mark
          /\ \A g \in Hooks : \A x \in hooks[g] : x.held # "old"
      BY <1>1, <2>1, <2>3 DEF LoadInv, CleanSoFar, Working
    <3>2. hooks'["sendmsg"] = {} /\ \A g \in Hooks : \A x \in hooks'[g] : x.held # "old"
      BY <2>5, <3>1 DEF Hooks
    <3> QED
      BY <1>1, <2>1, <2>3, <3>1, <3>2 DEF CleanSoFar, Opening, Working, Closing
  <2> QED
    BY <2>4, <2>6, <2>7, <2>8, <2>9 DEF LoadInv
<1> QED
  BY <1>3, <1>4

\* What attaching to a tracepoint leaves behind.
Attached(h, field, next, held) ==
  /\ held \in {"fd", "none", "pin"}
  /\ DOMAIN hooks' = Hooks /\ \A g \in Hooks \ {h} : hooks'[g] = hooks[g]
  /\ held = "none" => hooks'[h] = hooks[h]
  /\ held # "none" => hooks'[h] = hooks[h] \cup {Mine(held, FALSE, field)}
  /\ DOMAIN loader' = LoaderFields /\ loader'.pc = next /\ loader'.maps = loader.maps /\ loader'.sink = loader.sink
  /\ loader'.pinDir = loader.pinDir /\ loader'.inherited = loader.inherited
  /\ loader'.execPinned = (held = "pin")
  /\ loader'.clean = (loader.clean /\ held = BestTracepoint)
  /\ DOMAIN loader'.report = ReportFields
  /\ loader'.report[h] = (held # "none")
  /\ loader'.report.pinned = ((h = "exit") /\ loader.execPinned /\ (held = "pin"))
  /\ \A f \in ReportFields \ {h, "pinned"} : loader'.report[f] = loader.report[f]

LEMMA AttachSays ==
  ASSUME LoadInv, NEW h \in Tracepoints, NEW pc, NEW field, NEW next, AttachTracepoint(pc, h, field, next)
  PROVE  \E held : Attached(h, field, next, held)
<1>1. DOMAIN loader = LoaderFields /\ DOMAIN loader.report = ReportFields /\ DOMAIN hooks = Hooks
  BY DEF LoadInv, LoadTypes
<1>2. h \in Hooks /\ h \in ReportFields /\ h # "pinned" /\ "pinned" \in ReportFields
  BY DEF Tracepoints, Hooks, ReportFields
<1> PICK held \in TracepointOutcomes :
       /\ Faulty(Cost(held = BestTracepoint))
       /\ hooks' = IF held = "none" THEN hooks ELSE [hooks EXCEPT ![h] = @ \cup {Mine(held, FALSE, field)}]
       /\ loader' = [loader EXCEPT !.pc = next, !.report[h] = (held # "none"), !.execPinned = (held = "pin"),
                         !.report.pinned = (h = "exit") /\ loader.execPinned /\ (held = "pin"),
                         !.clean = @ /\ held = BestTracepoint]
  BY DEF AttachTracepoint
<1>3. held \in {"fd", "none", "pin"}
  BY DEF TracepointOutcomes
<1>4. /\ DOMAIN hooks' = Hooks /\ \A g \in Hooks \ {h} : hooks'[g] = hooks[g]
      /\ held = "none" => hooks'[h] = hooks[h]
      /\ held # "none" => hooks'[h] = hooks[h] \cup {Mine(held, FALSE, field)}
  BY <1>1, <1>2
<1>5. /\ DOMAIN loader' = LoaderFields /\ loader'.pc = next /\ loader'.maps = loader.maps /\ loader'.sink = loader.sink
      /\ loader'.pinDir = loader.pinDir /\ loader'.inherited = loader.inherited
  BY <1>1 DEF LoaderFields
<1>6. loader'.execPinned = (held = "pin") /\ loader'.clean = (loader.clean /\ held = BestTracepoint)
  BY <1>1 DEF LoaderFields
<1> DEFINE r == loader.report
           a == held # "none"
           b == (h = "exit") /\ loader.execPinned /\ (held = "pin")
<1>7. loader'.report = [[r EXCEPT ![h] = a] EXCEPT !["pinned"] = b]
  BY <1>1 DEF LoaderFields
<1>8. DOMAIN r = ReportFields
  BY <1>1
<1> HIDE DEF r, a, b
<1>9. /\ DOMAIN loader'.report = ReportFields /\ loader'.report[h] = a /\ loader'.report["pinned"] = b
      /\ \A f \in ReportFields \ {h, "pinned"} : loader'.report[f] = r[f]
  BY <1>2, <1>7, <1>8
<1>10. /\ loader'.report[h] = (held # "none")
       /\ loader'.report.pinned = ((h = "exit") /\ loader.execPinned /\ (held = "pin"))
       /\ \A f \in ReportFields \ {h, "pinned"} : loader'.report[f] = loader.report[f]
  BY <1>9 DEF r, a, b
<1>11. Attached(h, field, next, held)
  BY <1>3, <1>4, <1>5, <1>6, <1>9, <1>10 DEF Attached
<1> QED
  BY <1>11

LEMMA AttachExecKeeps ==
  ASSUME LoadInv, AttachTracepoint("attachExec", "exec", ExecFilenameOffset.told, "attachExit")
  PROVE  LoadInv'
<1>1. loader.pc = "attachExec" /\ UNCHANGED <<kernel, mapPins, denies, armed, refused, starts>>
  BY DEF AttachTracepoint
<1> PICK held : Attached("exec", ExecFilenameOffset.told, "attachExit", held)
  BY AttachSays DEF Tracepoints
<1>2. /\ \A h \in Hooks \ {"exec"} : hooks'[h] = hooks[h]
      /\ held = "none" => hooks'["exec"] = hooks["exec"]
      /\ held # "none" => hooks'["exec"] = hooks["exec"] \cup {Mine(held, FALSE, ExecFilenameOffset.told)}
  BY DEF Attached
<1>3. /\ loader'.pc = "attachExit" /\ loader'.pinDir = loader.pinDir /\ loader'.sink = loader.sink
      /\ loader'.maps = loader.maps /\ loader'.inherited = loader.inherited
      /\ loader'.execPinned = (held = "pin") /\ loader'.clean = (loader.clean /\ held = BestTracepoint)
  BY DEF Attached
<1>4. /\ loader'.report.exec = (held # "none") /\ loader'.report.pinned = FALSE
      /\ loader'.report.exit = loader.report.exit /\ loader'.report.dns = loader.report.dns
      /\ loader'.report.level = loader.report.level
      /\ loader'.report.execField = loader.report.execField /\ loader'.report.exitField = loader.report.exitField
  BY DEF Attached, ReportFields
<1>5. held \in {"fd", "none", "pin"}
  BY DEF Attached
<1> DEFINE mine == Mine(held, FALSE, ExecFilenameOffset.told)
<1>6. mine.held = held /\ mine.ring = starts /\ mine.field = ExecFilenameOffset.told
  BY DEF Mine, Program
<1> HIDE DEF mine
<1>7. LoadTypes'
  <2>1. {loader'.execPinned, loader'.clean, loader'.report.exec} \subseteq BOOLEAN
    BY <1>3, <1>4
  <2> QED
    BY <1>1, <1>3, <1>4, <2>1 DEF Attached, LoadInv, LoadTypes, Working
<1>8. HeldRight'
  <2>1. ASSUME NEW h \in Hooks, NEW x \in hooks'[h]
        PROVE  x.held \in {"pin", "fd", "old"} /\ (loader'.pc \in Until(h) => x.held # "fd")
    <3>1. CASE h = "exec"
      BY <1>2, <1>3, <1>5, <1>6, <2>1, <3>1 DEF LoadInv, HeldRight, Until, Opening, mine
    <3>2. CASE h # "exec"
      <4>1. loader.pc \in Until(h) /\ x \in hooks[h]
        BY <1>1, <1>2, <2>1, <3>2 DEF Until, Opening, Working, Hooks, Connects, Tracepoints
      <4> QED
        BY <4>1 DEF LoadInv, HeldRight
    <3> QED
      BY <3>1, <3>2
  <2>2. \A g \in Connects \cup {"dns", "exit"} : hooks'[g] = hooks[g]
    BY <1>2 DEF Connects, Hooks, Tracepoints
  <2> QED
    BY <1>1, <1>3, <2>1, <2>2 DEF LoadInv, HeldRight, Pinned
<1>9. AttachRight'
  <2>1. \A c \in Connects : hooks'[c] = hooks[c]
    BY <1>2 DEF Connects, Hooks
  <2> QED
    BY <1>1, <1>3, <1>4, <2>1 DEF LoadInv, AttachRight, AlreadyAttached, Pinned, IsLive, Working, Closing
<1>10. StreamsRight'
  <2>1. loader.report.exit = FALSE
    BY <1>1 DEF LoadInv, LoadTypes, StreamsRight
  <2>2. held # "none" => mine \in hooks'["exec"]
    BY <1>2 DEF mine
  <2>3. loader'.execPinned => \E x \in hooks'["exec"] : x.held = "pin" /\ x.ring = starts
    BY <1>3, <1>6, <2>2
  <2>4. ExecFilenameOffset' = ExecFilenameOffset /\ ExitGroupDeadOffset' = ExitGroupDeadOffset
    BY <1>1 DEF ExecFilenameOffset, ExitGroupDeadOffset
  <2>5. loader'.report.exec => \E x \in hooks'["exec"] : x.ring = starts /\ x.field = ExecFilenameOffset.told
    BY <1>4, <1>6, <2>2
  <2>6. /\ loader.report.execField # Absent => loader.report.execField = ExecFilenameOffset.says
        /\ loader.report.exitField # Absent => loader.report.exitField = ExitGroupDeadOffset
    BY DEF LoadInv, StreamsRight
  <2> QED
    BY <1>1, <1>3, <1>4, <2>1, <2>3, <2>4, <2>5, <2>6 DEF StreamsRight, Opening
<1>11. CleanSoFar'
  <2> SUFFICES ASSUME loader'.clean PROVE CleanSoFar'
    BY DEF CleanSoFar
  <2>1. loader.clean /\ held = BestTracepoint
    BY <1>3
  <2>2. /\ loader.pinDir /\ kernel.bpffs /\ hooks["sendmsg"] = {} /\ loader.maps \notin armed.mark
        /\ \A g \in Hooks : \A x \in hooks[g] : x.held # "old"
    BY <1>1, <2>1 DEF LoadInv, CleanSoFar, Working
  <2>3. hooks["exec"] = {}
    <3>1. \A x \in hooks["exec"] : x.held # "fd" /\ x.held # "pin" /\ x.held # "old"
      BY <1>1, <2>2 DEF LoadInv, HeldRight, Until, Hooks, Tracepoints, Pinned
    <3> QED
      BY <3>1 DEF LoadInv, HeldRight, Hooks, Tracepoints
  <2>4. held # "none" /\ (kernel.fdLink => held = "pin")
    BY <2>1, <2>2 DEF BestTracepoint
  <2>5. hooks'["exec"] = {mine}
    BY <1>2, <2>3, <2>4 DEF mine
  <2>6. /\ hooks'["sendmsg"] = {}
        /\ \A g \in Hooks : \A x \in hooks'[g] : x.held # "old"
    BY <1>2, <1>5, <1>6, <2>2, <2>5 DEF Hooks
  <2> QED
    BY <1>1, <1>3, <1>4, <2>2, <2>4, <2>5, <2>6 DEF CleanSoFar, One, Opening, Working, Closing
<1> QED
  BY <1>7, <1>8, <1>9, <1>10, <1>11 DEF LoadInv

LEMMA AttachExitKeeps ==
  ASSUME LoadInv, AttachTracepoint("attachExit", "exit", ExitGroupDeadOffset, "attachDns")
  PROVE  LoadInv'
<1>1. loader.pc = "attachExit" /\ UNCHANGED <<kernel, mapPins, denies, armed, refused, starts>>
  BY DEF AttachTracepoint
<1> PICK held : Attached("exit", ExitGroupDeadOffset, "attachDns", held)
  BY AttachSays DEF Tracepoints
<1>2. /\ \A h \in Hooks \ {"exit"} : hooks'[h] = hooks[h]
      /\ held = "none" => hooks'["exit"] = hooks["exit"]
      /\ held # "none" => hooks'["exit"] = hooks["exit"] \cup {Mine(held, FALSE, ExitGroupDeadOffset)}
  BY DEF Attached
<1>3. /\ loader'.pc = "attachDns" /\ loader'.pinDir = loader.pinDir /\ loader'.sink = loader.sink
      /\ loader'.maps = loader.maps /\ loader'.inherited = loader.inherited
      /\ loader'.execPinned = (held = "pin") /\ loader'.clean = (loader.clean /\ held = BestTracepoint)
  BY DEF Attached
<1>4. /\ loader'.report.exit = (held # "none") /\ loader'.report.pinned = (loader.execPinned /\ held = "pin")
      /\ loader'.report.exec = loader.report.exec /\ loader'.report.dns = loader.report.dns
      /\ loader'.report.level = loader.report.level
      /\ loader'.report.execField = loader.report.execField /\ loader'.report.exitField = loader.report.exitField
  BY DEF Attached, ReportFields
<1>5. held \in {"fd", "none", "pin"}
  BY DEF Attached
<1> DEFINE mine == Mine(held, FALSE, ExitGroupDeadOffset)
<1>6. mine.held = held /\ mine.ring = starts /\ mine.field = ExitGroupDeadOffset
  BY DEF Mine, Program
<1> HIDE DEF mine
<1>7. LoadTypes'
  <2>1. {loader'.execPinned, loader'.clean, loader'.report.exit, loader'.report.pinned} \subseteq BOOLEAN
    BY <1>3, <1>4
  <2> QED
    BY <1>1, <1>3, <1>4, <2>1 DEF Attached, LoadInv, LoadTypes, Working
<1>8. HeldRight'
  <2>1. ASSUME NEW h \in Hooks, NEW x \in hooks'[h]
        PROVE  x.held \in {"pin", "fd", "old"} /\ (loader'.pc \in Until(h) => x.held # "fd")
    <3>1. CASE h = "exit"
      BY <1>2, <1>3, <1>5, <1>6, <2>1, <3>1 DEF LoadInv, HeldRight, Until, Opening, mine
    <3>2. CASE h = "exec"
      BY <1>2, <1>3, <2>1, <3>2 DEF LoadInv, HeldRight, Until, Opening
    <3>3. CASE h \notin Tracepoints
      <4>1. loader.pc \in Until(h) /\ x \in hooks[h]
        BY <1>1, <1>2, <2>1, <3>3 DEF Until, Opening, Working, Hooks, Connects, Tracepoints
      <4> QED
        BY <4>1 DEF LoadInv, HeldRight
    <3> QED
      BY <3>1, <3>2, <3>3 DEF Tracepoints
  <2>2. \A g \in Connects \cup {"dns"} : hooks'[g] = hooks[g]
    BY <1>2 DEF Connects, Hooks, Tracepoints
  <2> QED
    BY <1>1, <1>3, <2>1, <2>2 DEF LoadInv, HeldRight
<1>9. AttachRight'
  <2>1. \A c \in Connects : hooks'[c] = hooks[c]
    BY <1>2 DEF Connects, Hooks
  <2> QED
    BY <1>1, <1>3, <1>4, <2>1 DEF LoadInv, AttachRight, AlreadyAttached, Pinned, IsLive, Working, Closing
<1>10. hooks'["exec"] = hooks["exec"]
  BY <1>2 DEF Hooks, Tracepoints
<1>11. StreamsRight'
  <2>1. held # "none" => mine \in hooks'["exit"]
    BY <1>2 DEF mine
  <2>2. loader'.report.pinned => \A h \in Tracepoints : \E x \in hooks'[h] : x.held = "pin" /\ x.ring = starts
    <3> SUFFICES ASSUME loader'.report.pinned
                 PROVE  \A h \in Tracepoints : \E x \in hooks'[h] : x.held = "pin" /\ x.ring = starts
      OBVIOUS
    <3>1. loader.execPinned /\ held = "pin"
      BY <1>4
    <3>2. \E x \in hooks'["exec"] : x.held = "pin" /\ x.ring = starts
      BY <1>1, <1>10, <3>1 DEF LoadInv, StreamsRight
    <3>3. mine \in hooks'["exit"] /\ mine.held = "pin" /\ mine.ring = starts
      BY <1>6, <2>1, <3>1
    <3> QED
      BY <3>2, <3>3 DEF Tracepoints
  <2>3. ExecFilenameOffset' = ExecFilenameOffset /\ ExitGroupDeadOffset' = ExitGroupDeadOffset
    BY <1>1 DEF ExecFilenameOffset, ExitGroupDeadOffset
  <2>4. loader'.report.exec => \E x \in hooks'["exec"] : x.ring = starts /\ x.field = ExecFilenameOffset.told
    BY <1>4, <1>10 DEF LoadInv, StreamsRight
  <2>5. loader'.report.exit => \E x \in hooks'["exit"] : x.ring = starts /\ x.field = ExitGroupDeadOffset
    BY <1>4, <1>6, <2>1
  <2>6. /\ loader.report.execField # Absent => loader.report.execField = ExecFilenameOffset.says
        /\ loader.report.exitField # Absent => loader.report.exitField = ExitGroupDeadOffset
    BY DEF LoadInv, StreamsRight
  <2> QED
    BY <1>1, <1>3, <1>4, <2>2, <2>3, <2>4, <2>5, <2>6 DEF StreamsRight, Opening
<1>12. CleanSoFar'
  <2> SUFFICES ASSUME loader'.clean PROVE CleanSoFar'
    BY DEF CleanSoFar
  <2>1. loader.clean /\ held = BestTracepoint
    BY <1>3
  <2>2. /\ loader.pinDir /\ kernel.bpffs /\ hooks["sendmsg"] = {} /\ loader.maps \notin armed.mark
        /\ \A g \in Hooks : \A x \in hooks[g] : x.held # "old"
        /\ loader.report.exec /\ One("exec") /\ (kernel.fdLink => loader.execPinned)
    BY <1>1, <2>1 DEF LoadInv, CleanSoFar, Opening, Working
  <2>3. hooks["exit"] = {}
    <3>1. \A x \in hooks["exit"] : x.held # "fd" /\ x.held # "pin" /\ x.held # "old"
      BY <1>1, <2>2 DEF LoadInv, HeldRight, Until, Hooks, Tracepoints, Pinned
    <3> QED
      BY <3>1 DEF LoadInv, HeldRight, Hooks, Tracepoints
  <2>4. held # "none" /\ (kernel.fdLink => held = "pin")
    BY <2>1, <2>2 DEF BestTracepoint
  <2>5. hooks'["exit"] = {mine}
    BY <1>2, <2>3, <2>4 DEF mine
  <2>6. /\ hooks'["sendmsg"] = {}
        /\ \A g \in Hooks : \A x \in hooks'[g] : x.held # "old"
    BY <1>2, <1>5, <1>6, <2>2, <2>5 DEF Hooks
  <2> QED
    BY <1>1, <1>3, <1>4, <1>10, <2>2, <2>4, <2>5, <2>6 DEF CleanSoFar, One, Opening, Working, Closing
<1> QED
  BY <1>7, <1>8, <1>9, <1>11, <1>12 DEF LoadInv

LEMMA AttachDnsKeeps == ASSUME LoadInv, AttachDns PROVE LoadInv'
<1>1. loader.pc = "attachDns" /\ UNCHANGED <<kernel, mapPins, denies, armed, refused, starts>>
  BY DEF AttachDns
<1>2. /\ DOMAIN loader = LoaderFields /\ DOMAIN loader.report = ReportFields /\ DOMAIN hooks = Hooks
      /\ loader.clean \in BOOLEAN
  BY DEF LoadInv, LoadTypes
<1>0. PICK ok \in BOOLEAN :
       LET possible == kernel.cgroup2 /\ hooks["dns"] = {}
       IN /\ ok => possible
          /\ Faulty(Cost(ok \/ ~possible))
          /\ hooks' = IF ok THEN [hooks EXCEPT !["dns"] = {Mine("fd", FALSE, Absent)}] ELSE hooks
          /\ loader' = [loader EXCEPT !.pc = "enforce", !.report.dns = ok, !.clean = @ /\ (ok \/ ~possible)]
  BY DEF AttachDns
<1> DEFINE possible == kernel.cgroup2 /\ hooks["dns"] = {}
           mine == Mine("fd", FALSE, Absent)
<1>3. mine.held = "fd"
  BY DEF Mine, Program
<1> HIDE DEF mine
<1>4. /\ DOMAIN hooks' = Hooks /\ \A h \in Hooks \ {"dns"} : hooks'[h] = hooks[h]
      /\ ok => hooks'["dns"] = {mine}
      /\ ~ok => hooks'["dns"] = hooks["dns"]
  BY <1>0, <1>2 DEF Hooks, mine
<1>5. /\ DOMAIN loader' = LoaderFields /\ loader'.pc = "enforce" /\ loader'.maps = loader.maps
      /\ loader'.report = [loader.report EXCEPT !.dns = ok] /\ loader'.sink = loader.sink
      /\ loader'.pinDir = loader.pinDir /\ loader'.inherited = loader.inherited
      /\ loader'.execPinned = loader.execPinned
  BY <1>0, <1>2 DEF LoaderFields
<1>6. loader'.clean = (loader.clean /\ (ok \/ ~possible))
  BY <1>0, <1>2 DEF LoaderFields
<1>7. /\ DOMAIN loader'.report = ReportFields /\ loader'.report.dns = ok
      /\ loader'.report.exec = loader.report.exec /\ loader'.report.exit = loader.report.exit
      /\ loader'.report.pinned = loader.report.pinned /\ loader'.report.level = loader.report.level
      /\ loader'.report.execField = loader.report.execField /\ loader'.report.exitField = loader.report.exitField
  BY <1>2, <1>5 DEF ReportFields
<1>8. LoadTypes'
  <2>1. {loader'.clean, loader'.report.dns} \subseteq BOOLEAN
    BY <1>6, <1>7
  <2> QED
    BY <1>1, <1>4, <1>5, <1>7, <2>1 DEF LoadInv, LoadTypes, Working
<1>9. HeldRight'
  <2>1. ASSUME NEW h \in Hooks, NEW x \in hooks'[h]
        PROVE  x.held \in {"pin", "fd", "old"} /\ (loader'.pc \in Until(h) => x.held # "fd")
    <3>1. CASE h = "dns"
      BY <1>3, <1>4, <1>5, <2>1, <3>1 DEF LoadInv, HeldRight, Until, Opening
    <3>2. CASE h \in Tracepoints
      BY <1>4, <1>5, <2>1, <3>2 DEF LoadInv, HeldRight, Until, Opening, Tracepoints
    <3>3. CASE h \notin Tracepoints \cup {"dns"}
      <4>1. loader.pc \in Until(h) /\ x \in hooks[h]
        BY <1>1, <1>4, <2>1, <3>3 DEF Until, Opening, Working, Hooks, Connects, Tracepoints
      <4> QED
        BY <4>1 DEF LoadInv, HeldRight
    <3> QED
      BY <3>1, <3>2, <3>3
  <2>2. \A g \in Connects : hooks'[g] = hooks[g]
    BY <1>4 DEF Connects, Hooks
  <2>3. \A x \in hooks'["dns"] : x.held = "fd"
    BY <1>3, <1>4 DEF LoadInv, HeldRight
  <2> QED
    BY <1>1, <1>5, <2>1, <2>2, <2>3 DEF LoadInv, HeldRight
<1>10. AttachRight'
  <2>1. \A c \in Connects : hooks'[c] = hooks[c]
    BY <1>4 DEF Connects, Hooks
  <2> QED
    BY <1>1, <1>5, <1>7, <2>1 DEF LoadInv, AttachRight, AlreadyAttached, Pinned, IsLive, Working, Closing
<1>11. hooks'["exec"] = hooks["exec"] /\ hooks'["exit"] = hooks["exit"] /\ hooks'["sendmsg"] = hooks["sendmsg"]
  BY <1>4 DEF Hooks, Tracepoints
<1>12. StreamsRight'
  <2>1. ExecFilenameOffset' = ExecFilenameOffset /\ ExitGroupDeadOffset' = ExitGroupDeadOffset
    BY <1>1 DEF ExecFilenameOffset, ExitGroupDeadOffset
  <2>2. \A h \in Tracepoints : hooks'[h] = hooks[h]
    BY <1>11 DEF Tracepoints
  <2> QED
    BY <1>1, <1>5, <1>7, <1>11, <2>1, <2>2 DEF LoadInv, StreamsRight, Opening
<1>13. CleanSoFar'
  <2> SUFFICES ASSUME loader'.clean PROVE CleanSoFar'
    BY DEF CleanSoFar
  <2>1. loader.clean /\ (ok \/ ~possible)
    BY <1>6
  <2>2. /\ loader.pinDir /\ kernel.bpffs /\ hooks["sendmsg"] = {} /\ loader.maps \notin armed.mark
        /\ \A g \in Hooks : \A x \in hooks[g] : x.held # "old"
        /\ loader.report.exec /\ One("exec") /\ loader.report.exit /\ One("exit")
        /\ (kernel.fdLink => loader.report.pinned)
    BY <1>1, <2>1 DEF LoadInv, CleanSoFar, Opening, Working
  <2>3. hooks["dns"] = {}
    BY <1>1 DEF LoadInv, HeldRight, Until, Hooks, Opening
  <2>4. kernel.cgroup2 => ok /\ hooks'["dns"] = {mine}
    BY <1>4, <2>1, <2>3
  <2>5. \A g \in Hooks : \A x \in hooks'[g] : x.held # "old"
    BY <1>3, <1>4, <2>2
  <2> QED
    BY <1>1, <1>5, <1>7, <1>11, <2>2, <2>4, <2>5 DEF CleanSoFar, One, Opening, Working, Closing
<1> QED
  BY <1>8, <1>9, <1>10, <1>12, <1>13 DEF LoadInv

\* The steps that decide the level of enforcement: of the report they change only that.
LevelSet(next, level) ==
  /\ DOMAIN loader' = LoaderFields /\ loader'.pc = next /\ loader'.maps = loader.maps /\ loader'.sink = loader.sink
  /\ loader'.pinDir = loader.pinDir /\ loader'.inherited = loader.inherited
  /\ loader'.execPinned = loader.execPinned
  /\ DOMAIN loader'.report = ReportFields /\ loader'.report.level = level
  /\ loader'.report.exec = loader.report.exec /\ loader'.report.exit = loader.report.exit
  /\ loader'.report.dns = loader.report.dns /\ loader'.report.pinned = loader.report.pinned
  /\ loader'.report.execField = loader.report.execField /\ loader'.report.exitField = loader.report.exitField

LEMMA LevelTypes ==
  ASSUME LoadInv, NEW next \in Working \cup Closing,
         NEW level \in {"Off", "Process", "Pinned", "Inherited", "Unavailable"}, LevelSet(next, level),
         loader'.clean \in BOOLEAN, DOMAIN hooks' = Hooks, UNCHANGED <<mapPins, armed, refused, starts>>
  PROVE  LoadTypes'
BY DEF LevelSet, LoadInv, LoadTypes

\* They leave the streams alone.
LEMMA LevelStreams ==
  ASSUME LoadInv, NEW next \in {"connect4", "connect6", "maps"}, NEW level, LevelSet(next, level),
         UNCHANGED <<kernel, starts>>, \A h \in Tracepoints : hooks'[h] = hooks[h]
  PROVE  StreamsRight'
<1>1. ExecFilenameOffset' = ExecFilenameOffset /\ ExitGroupDeadOffset' = ExitGroupDeadOffset
  BY DEF ExecFilenameOffset, ExitGroupDeadOffset
<1>2. hooks'["exec"] = hooks["exec"] /\ hooks'["exit"] = hooks["exit"]
  BY DEF Tracepoints
<1>3. loader'.pc = next
  BY DEF LevelSet
<1> QED
  BY <1>1, <1>2, <1>3 DEF LoadInv, StreamsRight, LevelSet, Opening

\* What a clean start has by then.
LEMMA CleanBefore ==
  ASSUME LoadInv, loader.clean, loader.pc \in {"enforce", "connect4", "connect6"}
  PROVE  /\ loader.pinDir /\ kernel.bpffs /\ hooks["sendmsg"] = {} /\ loader.maps \notin armed.mark
         /\ \A h \in Hooks : \A x \in hooks[h] : x.held # "old"
         /\ loader.report.exec /\ One("exec") /\ loader.report.exit /\ One("exit")
         /\ (kernel.fdLink => loader.report.pinned)
         /\ (kernel.cgroup2 => loader.report.dns /\ One("dns"))
BY DEF LoadInv, CleanSoFar, Opening, Working

LEMMA CleanAfter ==
  ASSUME LoadInv, loader.clean, loader.pc \in {"enforce", "connect4", "connect6"},
         NEW next \in {"connect4", "connect6", "maps"}, NEW level, LevelSet(next, level),
         UNCHANGED <<kernel, armed>>, \A h \in Hooks \ Connects : hooks'[h] = hooks[h],
         \A c \in Connects : \A x \in hooks'[c] : x.held # "old",
         next = "connect4" => hooks'["connect4"] = {},
         next \in {"connect4", "connect6"} => hooks'["connect6"] = {},
         next = "maps" /\ kernel.cgroup2 =>
           SurvivesDaemon(level) /\ \A c \in Connects : (\E x \in hooks'[c] : hooks'[c] = {x})
                                                        /\ \A x \in hooks'[c] : x.maps \notin armed.mark
  PROVE  CleanSoFar'
<1>1. /\ hooks'["exec"] = hooks["exec"] /\ hooks'["exit"] = hooks["exit"] /\ hooks'["dns"] = hooks["dns"]
      /\ hooks'["sendmsg"] = hooks["sendmsg"]
  BY DEF Hooks, Connects, Tracepoints
<1>2. \A h \in Hooks : \A x \in hooks'[h] : x.held # "old"
  BY CleanBefore
<1>3. loader'.pc = next /\ loader'.report.level = level
  BY DEF LevelSet
<1>4. /\ loader'.pinDir /\ loader'.maps \notin armed.mark /\ loader'.report.exec /\ loader'.report.exit
      /\ (kernel.fdLink => loader'.report.pinned) /\ (kernel.cgroup2 => loader'.report.dns)
  BY CleanBefore DEF LevelSet
<1>5. One("exec")' /\ One("exit")' /\ (kernel.cgroup2 => One("dns")')
  BY <1>1, CleanBefore DEF One
<1>6. kernel.bpffs /\ hooks'["sendmsg"] = {}
  BY <1>1, CleanBefore
<1> QED
  BY <1>2, <1>3, <1>4, <1>5, <1>6 DEF CleanSoFar, One, Opening, Working, Closing

\* What stays with the hooks that are not connect's, in those steps.
LEMMA HeldBeside ==
  ASSUME LoadInv, loader.pc \in {"enforce", "connect4", "connect6"},
         NEW next \in {"connect4", "connect6", "maps"}, loader'.pc = next, NEW h \in Hooks \ Connects,
         NEW x \in hooks[h]
  PROVE  x.held \in {"pin", "fd", "old"} /\ (next \in Until(h) => x.held # "fd")
<1>1. next \in Until(h) => loader.pc \in Until(h)
  BY DEF Until, Opening, Working, Closing, Hooks, Connects, Tracepoints
<1> QED
  BY <1>1 DEF LoadInv, HeldRight

LEMMA EnforceKeeps == ASSUME LoadInv, Enforce PROVE LoadInv'
<1>1. loader.pc = "enforce" /\ UNCHANGED <<kernel, mapPins, denies, armed, refused, starts>>
  BY DEF Enforce
<1>2. /\ DOMAIN loader = LoaderFields /\ DOMAIN loader.report = ReportFields /\ DOMAIN hooks = Hooks
      /\ loader.clean \in BOOLEAN /\ loader.report.level = "Off"
  BY <1>1 DEF LoadInv, LoadTypes, AttachRight, Closing
<1>3. Connects \subseteq Hooks
  BY DEF Hooks
<1>4. ASSUME NEW level \in {"Inherited", "Unavailable"},
             loader' = [loader EXCEPT !.pc = "maps", !.report.level = level], UNCHANGED hooks,
             level = "Inherited" => loader.inherited, level = "Unavailable" => ~kernel.cgroup2
      PROVE  LoadInv'
  <2>1. LevelSet("maps", level) /\ loader'.clean = loader.clean
    BY <1>2, <1>4 DEF LevelSet, LoaderFields, ReportFields
  <2>2. loader'.pc = "maps" /\ loader'.report.level = level /\ loader'.maps = loader.maps
    BY <2>1 DEF LevelSet
  <2>3. LoadTypes'
    BY <1>1, <1>2, <1>4, <2>1, LevelTypes DEF Closing
  <2>4. HeldRight'
    <3>1. ASSUME NEW h \in Hooks, NEW x \in hooks'[h]
          PROVE  x.held \in {"pin", "fd", "old"} /\ (loader'.pc \in Until(h) => x.held # "fd")
      <4>1. CASE h \in Connects
        BY <1>4, <2>2, <3>1, <4>1 DEF LoadInv, HeldRight, Until, Opening, Working, Connects
      <4>2. CASE h \notin Connects
        BY <1>1, <1>4, <2>2, <3>1, <4>2, HeldBeside
      <4> QED
        BY <4>1, <4>2
    <3> QED
      BY <1>1, <1>4, <2>2, <3>1 DEF LoadInv, HeldRight
  <2>5. level = "Inherited" =>
          /\ loader.maps = mapPins.maps
          /\ \A c \in Connects : \E x \in hooks[c] : x.held = "pin" /\ x.maps = loader.maps /\ hooks[c] = {x}
    <3> SUFFICES ASSUME level = "Inherited", NEW c \in Connects
                 PROVE  /\ loader.maps = mapPins.maps
                        /\ \E x \in hooks[c] : x.held = "pin" /\ x.maps = loader.maps /\ hooks[c] = {x}
      BY DEF Connects
    <3>1. loader.pinDir /\ AlreadyAttached(hooks)
      BY <1>4 DEF LoadInv, AttachRight
    <3>2. loader.maps = mapPins.maps
      BY <1>1, <3>1 DEF LoadInv, AttachRight, Working
    <3>3. PICK x \in hooks[c] : x.held = "pin"
      BY <3>1 DEF AlreadyAttached, Pinned
    <3>4. x.maps = loader.maps /\ \A y \in hooks[c] : x = y
      BY <3>2, <3>3 DEF LoadInv, HeldRight
    <3> QED
      BY <3>2, <3>3, <3>4
  <2>6. AttachRight'
    <3>1. loader'.inherited => loader'.pinDir /\ AlreadyAttached(hooks')
      BY <1>4, <2>1 DEF LevelSet, LoadInv, AttachRight
    <3>2. loader'.pinDir => loader'.maps = mapPins.maps /\ loader'.maps # Absent
      BY <1>1, <2>1 DEF LevelSet, LoadInv, AttachRight, Working
    <3>3. ~loader'.sink
      BY <1>1, <2>1 DEF LevelSet, LoadInv, AttachRight
    <3>4. IsLive(level) => \A c \in Connects : \E x \in hooks'[c] : x.maps = loader'.maps /\ x.held = "pin"
      BY <1>4, <2>2, <2>5 DEF IsLive
    <3>5. IsLive(level) => SurvivesDaemon(level)
      BY DEF IsLive, SurvivesDaemon
    <3> QED
      BY <1>1, <2>2, <3>1, <3>2, <3>3, <3>4, <3>5 DEF AttachRight, Closing
  <2>7. StreamsRight'
    BY <1>1, <1>4, <2>1, LevelStreams
  <2>8. CleanSoFar'
    <3> SUFFICES ASSUME loader'.clean PROVE CleanSoFar'
      BY DEF CleanSoFar
    <3>1. loader.clean
      BY <2>1
    <3>2. kernel.cgroup2 => /\ SurvivesDaemon(level)
                            /\ \A c \in Connects : /\ \E x \in hooks[c] : hooks[c] = {x}
                                                   /\ \A x \in hooks[c] : x.maps \notin armed.mark
      BY <1>1, <1>4, <2>5, <3>1, CleanBefore DEF SurvivesDaemon
    <3>3. \A c \in Connects : \A x \in hooks[c] : x.held # "old"
      BY <1>1, <1>3, <3>1, CleanBefore
    <3> QED
      BY <1>1, <1>4, <2>1, <3>1, <3>2, <3>3, CleanAfter
  <2> QED
    BY <2>3, <2>4, <2>6, <2>7, <2>8 DEF LoadInv
<1>5. ASSUME ~loader.inherited, NEW removed \in SUBSET Connects, NEW all \in BOOLEAN,
             all <=> \A c \in Connects : ~loader.pinDir \/ ~Pinned(c, hooks) \/ c \in removed,
             hooks' = IF loader.pinDir THEN DropHalfAttached(removed) ELSE hooks,
             loader' = [loader EXCEPT !.pc = "connect4", !.clean = @ /\ all]
      PROVE  LoadInv'
  <2>1. LevelSet("connect4", "Off")
    BY <1>2, <1>5 DEF LevelSet, LoaderFields
  <2>2. loader'.clean = (loader.clean /\ all)
    BY <1>2, <1>5 DEF LoaderFields
  <2>3. /\ DOMAIN hooks' = Hooks /\ \A h \in Hooks \ Connects : hooks'[h] = hooks[h]
        /\ \A h \in Hooks : hooks'[h] \subseteq hooks[h]
        /\ \A c \in removed : loader.pinDir => \A x \in hooks'[c] : x.held # "pin"
    BY <1>2, <1>3, <1>5 DEF DropHalfAttached
  <2>4. loader'.pc = "connect4" /\ loader'.pinDir = loader.pinDir /\ loader'.inherited = loader.inherited
    BY <2>1 DEF LevelSet
  <2>5. LoadTypes'
    <3>1. loader'.clean \in BOOLEAN
      BY <2>2
    <3> QED
      BY <1>1, <2>1, <2>3, <3>1, LevelTypes DEF Working
  <2>6. HeldRight'
    <3>1. ASSUME NEW h \in Hooks, NEW x \in hooks'[h]
          PROVE  x.held \in {"pin", "fd", "old"} /\ (loader'.pc \in Until(h) => x.held # "fd")
      <4>1. CASE h \in Connects
        <5>1. loader.pc \in Until(h) /\ x \in hooks[h]
          BY <1>1, <2>3, <3>1, <4>1 DEF Until, Opening, Working, Connects
        <5> QED
          BY <5>1 DEF LoadInv, HeldRight
      <4>2. CASE h \notin Connects
        BY <1>1, <2>3, <2>4, <3>1, <4>2, HeldBeside
      <4> QED
        BY <4>1, <4>2
    <3>2. /\ \A x \in hooks'["dns"] : x.held = "fd"
          /\ \A c \in Connects : \A x, y \in hooks'[c] : x = y
          /\ \A c \in Connects : \A x \in hooks'[c] : x.held = "pin" => x.maps = mapPins.maps /\ x.maps # Absent
      BY <1>3, <2>3 DEF LoadInv, HeldRight, Hooks
    <3> QED
      BY <1>1, <2>4, <3>1, <3>2 DEF HeldRight
  <2>7. AttachRight'
    <3>1. loader'.pinDir => loader'.maps = mapPins.maps /\ loader'.maps # Absent
      BY <1>1, <2>1 DEF LevelSet, LoadInv, AttachRight, Working
    <3>2. ~loader'.sink /\ loader'.report.level = "Off"
      BY <1>1, <2>1 DEF LevelSet, LoadInv, AttachRight
    <3> QED
      BY <1>1, <1>5, <2>4, <3>1, <3>2 DEF AttachRight, IsLive
  <2>8. StreamsRight'
    <3>1. \A h \in Tracepoints : hooks'[h] = hooks[h]
      BY <2>3 DEF Tracepoints, Connects, Hooks
    <3> QED
      BY <1>1, <2>1, <3>1, LevelStreams
  <2>9. CleanSoFar'
    <3> SUFFICES ASSUME loader'.clean PROVE CleanSoFar'
      BY DEF CleanSoFar
    <3>1. loader.clean /\ all
      BY <2>2
    <3>2. \A c \in Connects : hooks'[c] = {}
      <4> SUFFICES ASSUME NEW c \in Connects, NEW x \in hooks'[c] PROVE FALSE
        OBVIOUS
      <4>1. x \in hooks[c] /\ c \in Hooks
        BY <1>3, <2>3
      <4>2. x.held \in {"pin", "fd", "old"} /\ x.held # "fd" /\ x.held # "old"
        BY <1>1, <3>1, <4>1, CleanBefore DEF LoadInv, HeldRight, Until, Opening, Working, Connects
      <4>3. loader.pinDir
        BY <1>1, <3>1, CleanBefore
      <4>4. c \in removed
        BY <1>5, <3>1, <4>1, <4>2, <4>3 DEF Pinned
      <4> QED
        BY <2>3, <4>2, <4>3, <4>4
    <3> QED
      BY <1>1, <2>1, <2>3, <3>1, <3>2, CleanAfter DEF Connects
  <2> QED
    BY <2>5, <2>6, <2>7, <2>8, <2>9 DEF LoadInv
<1> QED
  BY <1>4, <1>5 DEF Enforce

LEMMA AttachConnectKeeps ==
  ASSUME LoadInv, NEW c \in Connects, Attach(c, IF c = "connect4" THEN "connect6" ELSE "maps")
  PROVE  LoadInv'
<1> DEFINE next == IF c = "connect4" THEN "connect6" ELSE "maps"
<1>1. loader.pc = c /\ UNCHANGED <<kernel, mapPins, denies, armed, refused, starts>>
  BY DEF Attach
<1>2. /\ DOMAIN loader = LoaderFields /\ DOMAIN loader.report = ReportFields /\ DOMAIN hooks = Hooks
      /\ {loader.clean, loader.pinDir} \subseteq BOOLEAN
  BY DEF LoadInv, LoadTypes
<1>3. /\ c \in {"connect4", "connect6"} /\ c \in Hooks /\ next \in {"connect6", "maps"}
      /\ loader.pc \in {"enforce", "connect4", "connect6"} /\ loader.pc \in Working
  BY <1>1 DEF Connects, Hooks, Working
<1>4. /\ ~loader.inherited /\ ~loader.sink /\ loader.report.level = "Off"
      /\ loader.pinDir => loader.maps = mapPins.maps /\ loader.maps # Absent
  BY <1>1, <1>3 DEF LoadInv, AttachRight, Working, Closing
<1>5. ASSUME NEW v \in {"cookie", "basic"}, hooks[c] = {},
             hooks' = [hooks EXCEPT ![c] = {Mine(IF loader.pinDir THEN "pin" ELSE "fd", v = "cookie", Absent)}],
             loader' = [loader EXCEPT !.pc = next,
                      !.report.level = IF next = "connect6" THEN @ ELSE IF loader.pinDir THEN "Pinned" ELSE "Process"]
      PROVE  LoadInv'
  <2> DEFINE held == IF loader.pinDir THEN "pin" ELSE "fd"
             mine == Mine(held, v = "cookie", Absent)
             level == IF next = "connect6" THEN "Off" ELSE IF loader.pinDir THEN "Pinned" ELSE "Process"
  <2>1. mine.held = held /\ mine.maps = loader.maps
    BY DEF Mine, Program
  <2>2. DOMAIN hooks' = Hooks /\ hooks'[c] = {mine} /\ \A h \in Hooks \ {c} : hooks'[h] = hooks[h]
    BY <1>2, <1>3, <1>5
  <2>3. level \in {"Off", "Process", "Pinned"} /\ held \in {"pin", "fd"}
    OBVIOUS
  <2> HIDE DEF mine
  <2>4. LevelSet(next, level) /\ loader'.clean = loader.clean
    BY <1>2, <1>4, <1>5 DEF LevelSet, LoaderFields, ReportFields
  <2>5. loader'.pc = next /\ loader'.maps = loader.maps /\ loader'.pinDir = loader.pinDir /\ loader'.report.level = level
        /\ loader'.inherited = loader.inherited /\ loader'.sink = loader.sink
    BY <2>4 DEF LevelSet
  <2>6. LoadTypes'
    BY <1>1, <1>2, <1>3, <2>2, <2>3, <2>4, LevelTypes DEF Working, Closing
  <2>7. HeldRight'
    <3>1. ASSUME NEW h \in Hooks, NEW x \in hooks'[h]
          PROVE  x.held \in {"pin", "fd", "old"} /\ (loader'.pc \in Until(h) => x.held # "fd")
      <4>1. CASE h = c
        BY <1>3, <2>1, <2>2, <2>5, <3>1, <4>1 DEF Until, Opening, Working
      <4>2. CASE h # c /\ h \in Connects
        <5>1. x \in hooks[h] /\ (next \in Until(h) => loader.pc \in Until(h))
          BY <1>1, <1>3, <2>2, <3>1, <4>2 DEF Until, Opening, Working, Connects
        <5> QED
          BY <2>5, <5>1 DEF LoadInv, HeldRight
      <4>3. CASE h \notin Connects
        BY <1>1, <1>3, <2>2, <2>5, <3>1, <4>3, HeldBeside, ZenonT(60)
      <4> QED
        BY <4>1, <4>2, <4>3
    <3>2. \A x \in hooks'["dns"] : x.held = "fd"
      BY <1>3, <2>2 DEF LoadInv, HeldRight, Hooks
    <3>3. ASSUME NEW d \in Connects, NEW x \in hooks'[d]
          PROVE  (\A y \in hooks'[d] : x = y) /\ (x.held = "pin" => x.maps = mapPins.maps /\ x.maps # Absent)
      <4>1. CASE d = c
        BY <1>4, <2>1, <2>2, <3>3, <4>1
      <4>2. CASE d # c
        BY <2>2, <3>3, <4>2 DEF LoadInv, HeldRight, Hooks
      <4> QED
        BY <4>1, <4>2
    <3> QED
      BY <1>1, <1>3, <2>5, <3>1, <3>2, <3>3 DEF HeldRight
  <2>8. AttachRight'
    <3>1. c = "connect6" =>
            \A d \in Connects : \E x \in hooks'[d] : x.maps = loader.maps /\ x.held = held
      <4> SUFFICES ASSUME c = "connect6", NEW d \in Connects
                   PROVE  \E x \in hooks'[d] : x.maps = loader.maps /\ x.held = held
        OBVIOUS
      <4>1. CASE d = c
        BY <2>1, <2>2, <4>1
      <4>2. CASE d = "connect4"
        BY <1>1, <2>2, <4>2 DEF LoadInv, AttachRight, Hooks, Connects
      <4> QED
        BY <4>1, <4>2 DEF Connects
    <3>2. c = "connect4" => \E x \in hooks'["connect4"] : x.maps = loader.maps /\ x.held = held
      BY <2>1, <2>2
    <3>3. IsLive(level) => c = "connect6" /\ held = IF SurvivesDaemon(level) THEN "pin" ELSE "fd"
      BY <1>3 DEF IsLive, SurvivesDaemon
    <3> HIDE DEF held, level
    <3>4. held = IF loader.pinDir THEN "pin" ELSE "fd"
      BY DEF held
    <3>5. next = "connect6" => c = "connect4" /\ level = "Off"
      BY <1>3 DEF level
    <3>6. loader'.report.level = level /\ loader'.pc \in {"connect6", "maps"}
      BY <1>3, <2>5
    <3> HIDE DEF next
    <3> QED
      BY <1>1, <1>3, <1>4, <2>5, <3>1, <3>2, <3>3, <3>4, <3>5, <3>6 DEF AttachRight, Closing
  <2>9. StreamsRight'
    <3>1. \A h \in Tracepoints : hooks'[h] = hooks[h]
      BY <1>3, <2>2 DEF Tracepoints, Hooks
    <3> QED
      BY <1>1, <1>3, <2>4, <3>1, LevelStreams
  <2>10. CleanSoFar'
    <3> SUFFICES ASSUME loader'.clean PROVE CleanSoFar'
      BY DEF CleanSoFar
    <3>1. loader.clean /\ loader.pinDir /\ loader.maps \notin armed.mark
      BY <1>3, <2>4, CleanBefore
    <3>2. held = "pin"
      BY <3>1
    <3>3. \A d \in Connects : \A x \in hooks'[d] : x.held # "old"
      BY <1>3, <2>1, <2>2, <3>1, <3>2, CleanBefore DEF Hooks
    <3>4. next = "connect6" => hooks'["connect6"] = {}
      <4>1. c = "connect4" => hooks["connect6"] = {}
        BY <1>1, <3>1 DEF LoadInv, CleanSoFar
      <4> QED
        BY <1>3, <2>2, <4>1 DEF Hooks, Connects
    <3>5. next = "maps" => SurvivesDaemon(level)
      BY <3>1 DEF SurvivesDaemon
    <3>6. ASSUME next = "maps", NEW d \in Connects
          PROVE  (\E x \in hooks'[d] : hooks'[d] = {x}) /\ \A x \in hooks'[d] : x.maps \notin armed.mark
      <4>1. CASE d = c
        BY <2>1, <2>2, <3>1, <4>1
      <4>2. CASE d # c
        <5>1. c = "connect6" /\ d = "connect4"
          BY <1>3, <3>6, <4>2 DEF Connects
        <5>2. PICK x \in hooks["connect4"] : x.maps = loader.maps
          BY <1>1, <5>1 DEF LoadInv, AttachRight
        <5>3. \A y \in hooks["connect4"] : x = y
          BY <5>2 DEF LoadInv, HeldRight, Connects
        <5>4. hooks'[d] = {x}
          BY <2>2, <5>1, <5>2, <5>3 DEF Hooks, Connects
        <5> QED
          BY <3>1, <5>2, <5>4
      <4> QED
        BY <4>1, <4>2
    <3>7. \A h \in Hooks \ Connects : hooks'[h] = hooks[h]
      BY <2>2
    <3>8. next \in {"connect4", "connect6", "maps"} /\ next # "connect4"
      BY <1>3
    <3> HIDE DEF next, level
    <3> QED
      BY <1>1, <1>3, <2>4, <3>1, <3>3, <3>4, <3>5, <3>6, <3>7, <3>8, CleanAfter
  <2> QED
    BY <2>6, <2>7, <2>8, <2>9, <2>10 DEF LoadInv
<1>6. ASSUME AttachFailed(c)
      PROVE  LoadInv'
  <2>1. hooks' = IF c = "connect6" /\ loader.pinDir THEN Without(hooks, "connect4", "pin") ELSE hooks
    BY <1>6 DEF AttachFailed
  <2>2. LevelSet("maps", "Unavailable")
    BY <1>2, <1>6 DEF AttachFailed, LevelSet, LoaderFields, ReportFields
  <2>3. loader'.clean = (loader.clean /\ hooks[c] # {})
    BY <1>2, <1>6 DEF AttachFailed, LoaderFields
  <2>4. /\ DOMAIN hooks' = Hooks /\ \A h \in Hooks \ Connects : hooks'[h] = hooks[h]
        /\ \A h \in Hooks : hooks'[h] \subseteq hooks[h]
    BY <1>2, <2>1 DEF Without, Connects
  <2>5. loader'.pc = "maps" /\ loader'.pinDir = loader.pinDir /\ loader'.inherited = loader.inherited
        /\ loader'.maps = loader.maps /\ loader'.sink = loader.sink /\ loader'.report.level = "Unavailable"
    BY <2>2 DEF LevelSet
  <2>6. LoadTypes'
    <3>1. loader'.clean \in BOOLEAN
      BY <2>3
    <3> QED
      BY <1>1, <2>2, <2>4, <3>1, LevelTypes DEF Closing
  <2>7. HeldRight'
    <3>1. ASSUME NEW h \in Hooks, NEW x \in hooks'[h]
          PROVE  x.held \in {"pin", "fd", "old"} /\ (loader'.pc \in Until(h) => x.held # "fd")
      <4>1. CASE h \in Connects
        <5>1. x \in hooks[h] /\ "maps" \notin Until(h)
          BY <2>4, <3>1, <4>1 DEF Until, Opening, Working, Connects
        <5> QED
          BY <2>5, <5>1 DEF LoadInv, HeldRight
      <4>2. CASE h \notin Connects
        BY <1>1, <1>3, <2>4, <2>5, <3>1, <4>2, HeldBeside
      <4> QED
        BY <4>1, <4>2
    <3>2. /\ \A x \in hooks'["dns"] : x.held = "fd"
          /\ \A d \in Connects : \A x, y \in hooks'[d] : x = y
          /\ \A d \in Connects : \A x \in hooks'[d] : x.held = "pin" => x.maps = mapPins.maps /\ x.maps # Absent
      BY <2>4 DEF LoadInv, HeldRight, Hooks
    <3> QED
      BY <1>1, <2>5, <3>1, <3>2 DEF HeldRight
  <2>8. AttachRight'
    BY <1>1, <1>4, <2>5 DEF AttachRight, IsLive, Closing
  <2>9. StreamsRight'
    <3>1. \A h \in Tracepoints : hooks'[h] = hooks[h]
      BY <2>4 DEF Tracepoints, Hooks, Connects
    <3> QED
      BY <1>1, <2>2, <3>1, LevelStreams
  <2>10. CleanSoFar'
    <3>1. ~loader'.clean
      <4>1. loader.clean => hooks[c] = {}
        BY <1>1, <1>3 DEF LoadInv, CleanSoFar
      <4> QED
        BY <2>3, <4>1
    <3> QED
      BY <3>1 DEF CleanSoFar
  <2> QED
    BY <2>6, <2>7, <2>8, <2>9, <2>10 DEF LoadInv
<1> QED
  BY <1>5, <1>6 DEF Attach, AttachOne

\* After the attaching the hooks stay and the level stays; the report of the
\* streams shrinks.
LEMMA ClosingKeeps ==
  ASSUME LoadInv, loader.pc \in {"maps", "consumers"}, UNCHANGED <<kernel, hooks, mapPins, armed, refused, starts>>,
         DOMAIN loader' = LoaderFields, DOMAIN loader'.report = ReportFields,
         loader'.pc = IF loader.pc = "maps" THEN "consumers" ELSE "up",
         loader'.maps = loader.maps, loader'.pinDir = loader.pinDir, loader'.inherited = loader.inherited,
         loader'.execPinned = loader.execPinned, {loader'.clean, loader'.sink} \subseteq BOOLEAN,
         {loader'.report.exec, loader'.report.exit, loader'.report.dns} \subseteq BOOLEAN,
         loader'.report.level = loader.report.level, loader'.report.pinned = loader.report.pinned,
         loader'.report.execField = loader.report.execField, loader'.report.exitField = loader.report.exitField,
         loader'.sink => (loader.maps \in denies' <=> refused),
         loader'.report.exec => loader.report.exec /\ loader'.report.exit,
         loader'.report.exit => loader.report.exit,
         loader'.clean => loader.clean /\ loader'.report.exec = loader.report.exec
                          /\ loader'.report.exit = loader.report.exit /\ loader'.report.dns = loader.report.dns
  PROVE  LoadInv'
<1>1. LoadTypes'
  BY DEF LoadInv, LoadTypes, Closing
<1>2. HeldRight'
  <2>1. \A h \in Hooks : loader'.pc \in Until(h) => loader.pc \in Until(h)
    BY DEF Until, Opening, Working, Closing
  <2> QED
    BY <2>1 DEF LoadInv, HeldRight
<1>3. AttachRight'
  BY DEF LoadInv, AttachRight, AlreadyAttached, Pinned, Working, Closing
<1>4. StreamsRight'
  <2>1. ExecFilenameOffset' = ExecFilenameOffset /\ ExitGroupDeadOffset' = ExitGroupDeadOffset
    BY DEF ExecFilenameOffset, ExitGroupDeadOffset
  <2> QED
    BY <2>1 DEF LoadInv, StreamsRight, Opening
<1>5. CleanSoFar'
  <2> SUFFICES ASSUME loader'.clean PROVE CleanSoFar'
    BY DEF CleanSoFar
  <2> QED
    BY DEF LoadInv, CleanSoFar, One, Opening, Working, Closing
<1> QED
  BY <1>1, <1>2, <1>3, <1>4, <1>5 DEF LoadInv

LEMMA TakeMapsKeeps == ASSUME LoadInv, TakeMaps PROVE LoadInv'
<1>1. loader.pc = "maps" /\ UNCHANGED <<kernel, hooks, mapPins, armed, refused, starts>>
  BY DEF TakeMaps
<1>2. /\ DOMAIN loader = LoaderFields /\ DOMAIN loader.report = ReportFields
      /\ {loader.clean, loader.report.exec, loader.report.exit, loader.report.dns, refused} \subseteq BOOLEAN
  BY DEF LoadInv, LoadTypes
<1>3. PICK ok \in BOOLEAN :
       LET live == IsLive(loader.report.level)
       IN /\ ok \/ live
          /\ Faulty(Cost(ok))
          /\ denies' = IF live /\ ok THEN Steer(loader.maps, refused) ELSE denies
          /\ loader' = [loader EXCEPT !.pc = "consumers", !.sink = live /\ ok, !.clean = @ /\ ok,
                            !.report.sockNote = live /\ loader.inherited /\ ~loader.sockPinned,
                            !.report.exec = @ /\ loader.report.exit]
  BY <1>1 DEF TakeMaps
<1> DEFINE live == IsLive(loader.report.level)
           r == loader.report
           note == live /\ loader.inherited /\ ~loader.sockPinned
<1>4. /\ DOMAIN loader' = LoaderFields /\ loader'.pc = "consumers"
      /\ loader'.maps = loader.maps /\ loader'.pinDir = loader.pinDir /\ loader'.inherited = loader.inherited
      /\ loader'.execPinned = loader.execPinned
  BY <1>2, <1>3 DEF LoaderFields
<1>5. loader'.sink = (live /\ ok) /\ loader'.clean = (loader.clean /\ ok)
  BY <1>2, <1>3 DEF LoaderFields
<1>6. loader'.report = [[r EXCEPT !["sockNote"] = note] EXCEPT !["exec"] = (r.exec /\ r.exit)]
  BY <1>2, <1>3 DEF LoaderFields, ReportFields
<1>7. /\ DOMAIN r = ReportFields /\ "exec" \in ReportFields /\ "sockNote" \in ReportFields
      /\ {"exit", "dns", "level", "pinned", "execField", "exitField"} \subseteq ReportFields
  BY <1>2 DEF ReportFields
<1> DEFINE b == r.exec /\ r.exit
<1>8. loader'.report = [[r EXCEPT !["sockNote"] = note] EXCEPT !["exec"] = b]
  BY <1>6
<1> HIDE DEF r, note, b
<1>9. /\ DOMAIN loader'.report = ReportFields /\ loader'.report.exec = b /\ loader'.report.exit = r.exit
      /\ loader'.report.dns = r.dns /\ loader'.report.level = r.level /\ loader'.report.pinned = r.pinned
      /\ loader'.report.execField = r.execField /\ loader'.report.exitField = r.exitField
  BY <1>7, <1>8
<1>10. loader'.sink => (loader.maps \in denies' <=> refused)
  <2>1. loader'.sink => denies' = Steer(loader.maps, refused)
    BY <1>3, <1>5
  <2> QED
    BY <1>2, <2>1 DEF Steer
<1>11. loader'.clean => loader.clean /\ r.exec = b
  <2>1. loader.clean => r.exit /\ r.exec
    BY <1>1 DEF LoadInv, CleanSoFar, Working, Closing, Opening, r
  <2>2. r.exec \in BOOLEAN /\ (loader.clean => b) /\ b \in BOOLEAN
    BY <1>2, <2>1 DEF r, b
  <2> QED
    BY <1>5, <2>1, <2>2
<1>12. {loader'.clean, loader'.sink, b} \subseteq BOOLEAN
  BY <1>5 DEF b
<1>13. b => r.exec /\ r.exit
  BY DEF b
<1> HIDE DEF live
<1> QED
  BY <1>1, <1>2, <1>4, <1>9, <1>10, <1>11, <1>12, <1>13, ClosingKeeps DEF r

LEMMA ConsumersKeep == ASSUME LoadInv, Consumers PROVE LoadInv'
<1>1. loader.pc = "consumers" /\ UNCHANGED <<kernel, hooks, mapPins, denies, armed, refused, starts>>
  BY DEF Consumers
<1>2. /\ DOMAIN loader = LoaderFields /\ DOMAIN loader.report = ReportFields
      /\ {loader.clean, loader.sink, loader.report.exec, loader.report.exit, loader.report.dns} \subseteq BOOLEAN
  BY DEF LoadInv, LoadTypes
<1>3. PICK exec, exit, dns, deny \in BOOLEAN :
       /\ Faulty(Cost(exec) + Cost(exit) + Cost(dns) + Cost(deny))
       /\ loader' = [loader EXCEPT !.pc = "up", !.clean = @ /\ exec /\ exit /\ dns /\ deny,
                         !.report.exec = @ /\ exec /\ exit,
                         !.report.exit = @ /\ (exit \/ ~(loader.report.exec /\ exec)),
                         !.report.dns = @ /\ dns]
  BY <1>1 DEF Consumers
<1> DEFINE r == loader.report
           e == r.exec /\ exec /\ exit
           x == r.exit /\ (exit \/ ~(r.exec /\ exec))
           d == r.dns /\ dns
<1>4. /\ DOMAIN loader' = LoaderFields /\ loader'.pc = "up" /\ loader'.sink = loader.sink
      /\ loader'.maps = loader.maps /\ loader'.pinDir = loader.pinDir /\ loader'.inherited = loader.inherited
      /\ loader'.execPinned = loader.execPinned
  BY <1>2, <1>3 DEF LoaderFields
<1>5. loader'.clean = (loader.clean /\ exec /\ exit /\ dns /\ deny)
  BY <1>2, <1>3 DEF LoaderFields
<1>6. loader'.report = [[[r EXCEPT !["exec"] = (r.exec /\ exec /\ exit)]
                             EXCEPT !["exit"] = (r.exit /\ (exit \/ ~(r.exec /\ exec)))]
                             EXCEPT !["dns"] = (r.dns /\ dns)]
  BY <1>2, <1>3 DEF LoaderFields, ReportFields
<1>7. loader'.report = [[[r EXCEPT !["exec"] = e] EXCEPT !["exit"] = x] EXCEPT !["dns"] = d]
  BY <1>6
<1>8. /\ DOMAIN r = ReportFields
      /\ {"exec", "exit", "dns", "level", "pinned", "execField", "exitField"} \subseteq ReportFields
  BY <1>2 DEF ReportFields
<1>9. e \in BOOLEAN /\ x \in BOOLEAN /\ d \in BOOLEAN /\ loader'.clean \in BOOLEAN
  BY <1>5
<1>10. loader'.clean => loader.clean /\ e = r.exec /\ x = r.exit /\ d = r.dns
  <2>1. loader'.clean => loader.clean /\ exec /\ exit /\ dns
    BY <1>5
  <2> QED
    BY <1>2, <2>1
<1>11. r.exec => r.exit
  BY <1>1 DEF LoadInv, StreamsRight
<1>12. (e => r.exec /\ x) /\ (x => r.exit)
  BY <1>11
<1>13. loader.sink => (loader.maps \in denies <=> refused)
  BY DEF LoadInv, AttachRight
<1> HIDE DEF r, e, x, d
<1>14. /\ DOMAIN loader'.report = ReportFields /\ loader'.report.exec = e /\ loader'.report.exit = x
       /\ loader'.report.dns = d /\ loader'.report.level = r.level /\ loader'.report.pinned = r.pinned
       /\ loader'.report.execField = r.execField /\ loader'.report.exitField = r.exitField
  BY <1>7, <1>8
<1> QED
  BY <1>1, <1>2, <1>4, <1>9, <1>10, <1>12, <1>13, <1>14, ClosingKeeps DEF r

LEMMA MeanwhileKeeps ==
  ASSUME LoadInv, RulesChange \/ DeadlinePasses \/ (\E c \in Connects, s \in Sockets : Connect(c, s))
  PROVE  LoadInv'
<1>1. /\ UNCHANGED <<kernel, hooks, mapPins, loader, starts>>
      /\ DOMAIN armed' = DOMAIN armed /\ armed'.mark = armed.mark
  <2>1. DOMAIN armed = {"mark", "until", "grants"}
    BY DEF LoadInv, LoadTypes
  <2> QED
    BY <2>1 DEF RulesChange, DeadlinePasses, Connect
<1>2. /\ refused' \in BOOLEAN
      /\ loader.sink => (loader.maps \in denies' <=> refused')
  <2>1. refused \in BOOLEAN /\ (loader.sink => (loader.maps \in denies <=> refused))
    BY DEF LoadInv, LoadTypes, AttachRight
  <2>2. CASE RulesChange
    <3>1. refused' = ~refused /\ denies' = IF loader.sink THEN Steer(loader.maps, ~refused) ELSE denies
      BY <2>2 DEF RulesChange
    <3> QED
      BY <2>1, <3>1 DEF Steer
  <2>3. CASE DeadlinePasses \/ (\E c \in Connects, s \in Sockets : Connect(c, s))
    BY <2>1, <2>3 DEF DeadlinePasses, Connect
  <2> QED
    BY <2>2, <2>3
<1>3. LoadTypes'
  BY <1>1, <1>2 DEF LoadInv, LoadTypes
<1>4. HeldRight'
  BY <1>1 DEF LoadInv, HeldRight
<1>5. AttachRight'
  BY <1>1, <1>2 DEF LoadInv, AttachRight, AlreadyAttached, Pinned
<1>6. StreamsRight'
  <2>1. ExecFilenameOffset' = ExecFilenameOffset /\ ExitGroupDeadOffset' = ExitGroupDeadOffset
    BY <1>1 DEF ExecFilenameOffset, ExitGroupDeadOffset
  <2> QED
    BY <1>1, <2>1 DEF LoadInv, StreamsRight
<1>7. CleanSoFar'
  BY <1>1 DEF LoadInv, CleanSoFar, One
<1> QED
  BY <1>3, <1>4, <1>5, <1>6, <1>7 DEF LoadInv

LEMMA CrashKeeps == ASSUME LoadInv, Crash PROVE LoadInv'
<1>1. /\ hooks' = [h \in Hooks |-> {x \in hooks[h] : x.held # "fd"}] /\ loader' = Down
      /\ UNCHANGED <<kernel, mapPins, denies, armed, refused, starts>>
  BY DEF Crash
<1>2. /\ DOMAIN loader' = LoaderFields /\ loader'.pc = "down" /\ loader'.report = InertReport
      /\ loader'.clean = FALSE /\ loader'.sink = FALSE /\ loader'.pinDir = FALSE
      /\ loader'.inherited = FALSE /\ loader'.execPinned = FALSE
  BY <1>1 DEF Down, LoaderFields
<1>3. /\ DOMAIN loader'.report = ReportFields /\ loader'.report.exec = FALSE /\ loader'.report.exit = FALSE
      /\ loader'.report.dns = FALSE /\ loader'.report.pinned = FALSE /\ loader'.report.level = "Off"
      /\ loader'.report.execField = Absent /\ loader'.report.exitField = Absent
  BY <1>2 DEF InertReport, ReportFields
<1>4. DOMAIN hooks' = Hooks /\ \A h \in Hooks : hooks'[h] \subseteq hooks[h] /\ \A x \in hooks'[h] : x.held # "fd"
  BY <1>1
<1>5. LoadTypes'
  BY <1>1, <1>2, <1>3, <1>4 DEF LoadInv, LoadTypes, Opening
<1>6. HeldRight'
  <2>1. \A h \in Hooks : \A x \in hooks'[h] : x.held \in {"pin", "fd", "old"} /\ x.held # "fd"
    BY <1>4 DEF LoadInv, HeldRight
  <2>2. \A x \in hooks'["dns"] : x.held = "fd"
    BY <1>4 DEF LoadInv, HeldRight, Hooks
  <2>3. /\ \A c \in Connects : \A x, y \in hooks'[c] : x = y
        /\ \A c \in Connects : \A x \in hooks'[c] : x.held = "pin" => x.maps = mapPins.maps /\ x.maps # Absent
    BY <1>4 DEF LoadInv, HeldRight, Hooks
  <2> QED
    BY <1>1, <1>2, <2>1, <2>2, <2>3 DEF HeldRight
<1>7. AttachRight'
  BY <1>2, <1>3 DEF AttachRight, IsLive
<1>8. StreamsRight'
  BY <1>2, <1>3 DEF StreamsRight
<1>9. CleanSoFar'
  <2>1. ~loader'.clean
    BY <1>2
  <2> QED
    BY <2>1 DEF CleanSoFar
<1> QED
  BY <1>5, <1>6, <1>7, <1>8, <1>9 DEF LoadInv

LEMMA LoadKept == LoadInv /\ [KernelNext]_kernelVars => LoadInv'
<1> SUFFICES ASSUME LoadInv, [KernelNext]_kernelVars PROVE LoadInv'
  OBVIOUS
<1>1. CASE UNCHANGED kernelVars
  <2>1. UNCHANGED <<kernel, hooks, mapPins, denies, armed, refused, loader, starts>>
    BY <1>1 DEF kernelVars
  <2>2. LoadTypes' /\ HeldRight'
    BY <2>1 DEF LoadInv, LoadTypes, HeldRight
  <2>3. AttachRight'
    BY <2>1 DEF LoadInv, AttachRight, AlreadyAttached, Pinned
  <2>4. ExecFilenameOffset' = ExecFilenameOffset /\ ExitGroupDeadOffset' = ExitGroupDeadOffset
    BY <2>1 DEF ExecFilenameOffset, ExitGroupDeadOffset
  <2>5. StreamsRight' /\ CleanSoFar'
    BY <2>1, <2>4 DEF LoadInv, StreamsRight, CleanSoFar, One
  <2> QED
    BY <2>2, <2>3, <2>5 DEF LoadInv
<1>2. CASE Start \/ VetObject \/ Prepare \/ Load \/ Disarm
  BY <1>2, StartKeeps, VetKeeps, PrepareKeeps, LoadKeeps, DisarmKeeps
<1>3. CASE DropStaleLinkPin("dropExec", "exec", "dropExit") \/ DropStaleLinkPin("dropExit", "exit", "attachExec")
  <2>1. /\ "exec" \in Tracepoints /\ (IF "exec" = "exec" THEN "dropExec" ELSE "dropExit") = "dropExec"
        /\ (IF "exec" = "exec" THEN "dropExit" ELSE "attachExec") = "dropExit"
        /\ "exit" \in Tracepoints /\ (IF "exit" = "exec" THEN "dropExec" ELSE "dropExit") = "dropExit"
        /\ (IF "exit" = "exec" THEN "dropExit" ELSE "attachExec") = "attachExec"
    BY DEF Tracepoints
  <2> QED
    BY <1>3, <2>1, DropKeeps
<1>4. CASE \/ AttachTracepoint("attachExec", "exec", ExecFilenameOffset.told, "attachExit")
           \/ AttachTracepoint("attachExit", "exit", ExitGroupDeadOffset, "attachDns")
           \/ AttachDns \/ Enforce
  BY <1>4, AttachExecKeeps, AttachExitKeeps, AttachDnsKeeps, EnforceKeeps
<1>5. CASE Attach("connect4", "connect6") \/ Attach("connect6", "maps")
  <2>1. /\ "connect4" \in Connects /\ (IF "connect4" = "connect4" THEN "connect6" ELSE "maps") = "connect6"
        /\ "connect6" \in Connects /\ (IF "connect6" = "connect4" THEN "connect6" ELSE "maps") = "maps"
    BY DEF Connects
  <2> QED
    BY <1>5, <2>1, AttachConnectKeeps
<1>6. CASE TakeMaps \/ Consumers
  BY <1>6, TakeMapsKeeps, ConsumersKeep
<1>7. CASE RulesChange \/ DeadlinePasses \/ (\E c \in Connects, s \in Sockets : Connect(c, s))
  BY <1>7, MeanwhileKeeps
<1>8. CASE Crash
  BY <1>8, CrashKeeps
<1> QED
  BY <1>1, <1>2, <1>3, <1>4, <1>5, <1>6, <1>7, <1>8 DEF KernelNext

LEMMA LoadSays == LoadInv => ReportIsTrue
<1> SUFFICES ASSUME LoadInv, Up PROVE ReportIsTrue
  BY DEF ReportIsTrue
<1> DEFINE r == loader.report
<1>1. loader.pc = "up" /\ "up" \in Closing
  BY DEF Up, Closing
<1>2. IsLive(r.level) =>
        \A c \in Connects : \E x \in hooks[c] :
           /\ x.maps = loader.maps
           /\ x.held = IF SurvivesDaemon(r.level) THEN "pin" ELSE "fd"
           /\ loader.sink => (x.maps \in denies <=> refused)
  <2> SUFFICES ASSUME IsLive(r.level), NEW c \in Connects
               PROVE  \E x \in hooks[c] :
                         /\ x.maps = loader.maps
                         /\ x.held = IF SurvivesDaemon(r.level) THEN "pin" ELSE "fd"
                         /\ loader.sink => (x.maps \in denies <=> refused)
    OBVIOUS
  <2>1. PICK x \in hooks[c] : x.maps = loader.maps /\ x.held = IF SurvivesDaemon(r.level) THEN "pin" ELSE "fd"
    BY DEF LoadInv, AttachRight
  <2>2. loader.sink => (loader.maps \in denies <=> refused)
    BY DEF LoadInv, AttachRight
  <2> QED
    BY <2>1, <2>2
<1>3. \A h \in Tracepoints : r[h] => FedBy(h)
  BY DEF LoadInv, StreamsRight, Tracepoints, FedBy
<1>4. r.exec => r.exit
  BY <1>1 DEF LoadInv, StreamsRight
<1>5. r.pinned => \A h \in Tracepoints : \E x \in hooks[h] : x.held = "pin" /\ x.ring = starts
  BY DEF LoadInv, StreamsRight
<1>6. r.execField # Absent /\ r.exec =>
        \E x \in hooks["exec"] : x.ring = starts /\ x.field = FieldNamed(kernel.execFormat, "filename").offset
  <2>1. ExecFilenameOffset.says # Absent =>
          ExecFilenameOffset.told = FieldNamed(kernel.execFormat, "filename").offset
    BY DEF ExecFilenameOffset
  <2> QED
    BY <2>1 DEF LoadInv, StreamsRight
<1>7. r.exitField # Absent /\ r.exit =>
        \E x \in hooks["exit"] : x.ring = starts /\ x.field = FieldNamed(kernel.exitFormat, "group_dead").offset
  <2>1. ExitGroupDeadOffset # Absent => ExitGroupDeadOffset = FieldNamed(kernel.exitFormat, "group_dead").offset
    BY DEF ExitGroupDeadOffset
  <2> QED
    BY <2>1 DEF LoadInv, StreamsRight
<1>8. CleanStartHeals
  <2> SUFFICES ASSUME loader.clean, kernel.cgroup2 PROVE CleanStartHeals
    BY DEF CleanStartHeals
  <2>1. /\ kernel.bpffs /\ hooks["sendmsg"] = {}
        /\ r.exec /\ One("exec") /\ r.exit /\ One("exit") /\ (kernel.fdLink => r.pinned)
        /\ r.dns /\ One("dns") /\ SurvivesDaemon(r.level)
        /\ \A c \in Connects : One(c) /\ \A x \in hooks[c] : x.maps \notin armed.mark
    BY <1>1 DEF LoadInv, CleanSoFar, Opening, Working
  <2>2. \A h \in Hooks \ {"sendmsg"} : Cardinality(hooks[h]) = 1
    <3> SUFFICES ASSUME NEW h \in Hooks \ {"sendmsg"} PROVE Cardinality(hooks[h]) = 1
      OBVIOUS
    <3>1. One(h)
      BY <2>1 DEF Hooks, Connects, Tracepoints
    <3>2. PICK x \in hooks[h] : hooks[h] = {x}
      BY <3>1 DEF One
    <3> QED
      BY <3>2, FS_Singleton
  <2> QED
    BY <2>1, <2>2 DEF CleanStartHeals
<1> QED
  BY <1>2, <1>3, <1>4, <1>5, <1>6, <1>7, <1>8 DEF ReportIsTrue

\* What the daemon says of the layer once it is up is so, over any kernel and
\* whatever an earlier daemon left, wherever a step failed and whenever the daemon
\* died; a start in which nothing failed has all this kernel can offer (ebpf/mod.rs
\* start, loader.rs load_and_attach, enforce.rs).
THEOREM ReportIsTrueHolds == KernelInit /\ [][KernelNext]_kernelVars => []ReportIsTrue
BY LoadStarts, LoadKept, LoadSays, PTL

(* The refusals the kernel is given.                                       *)

States == {"none", "live", "dying", "zombie"}
NodeFields == {"pc", "view", "deny", "clear", "known", "orphans", "doomed"}

\* The process p as a record, as an exec record dates it and as a resync views it.
Dated(p) == [pid |-> p, born |-> proc[p].born]
Viewed(p) == [pid |-> p, exe |-> proc[p].exe, born |-> proc[p].born]
Refused(p) == proc[p].st = "live" /\ Denies(rules, proc[p].exe)

DenyTypes ==
  /\ births \in Nat
  /\ mode \in {"down", "attach", "sweep", "sync", "start", "up"}
  /\ proc \in [Pids -> [st : States, exe : Names \cup {Unknown}, born : 0..births]]
  /\ \A p \in Pids : proc[p].st # "none" => proc[p].born # Gone
  /\ verdicts \subseteq Pids /\ execRing \in Seq(Pids)
  /\ table \subseteq [pid : Pids, born : 0..births]
  /\ execTask \in [pc : {"idle", "judge", "write"}, pid : Pids \cup {0}, deny : BOOLEAN]
  /\ execTask.pc = "idle" <=> execTask.pid = 0
  /\ DOMAIN runner = Runners /\ \A r \in Runners : DOMAIN runner[r] = NodeFields

\* How far the daemon is up bounds what its threads hold.
ComingUp ==
  /\ mode \in {"sweep", "sync", "start", "up"} => attached
  /\ ~Consuming => table = {} /\ execTask.pc = "idle"
  /\ Consuming => runner["start"].pc = "idle"
  /\ runner["start"].view = {} /\ runner["start"].deny = {}

\* A resync holds what its step needs and nothing else; what it has seen of a
\* process that still lives is still so.
ResyncTypes(n) ==
  /\ n.view \subseteq [pid : Pids, exe : Names \cup {Unknown}, born : 0..births]
  /\ n.doomed \subseteq [pid : Pids, born : 0..births]
  /\ n.deny \subseteq Pids /\ n.clear \subseteq Pids /\ n.orphans \subseteq Pids
ResyncSteps(n) ==
  /\ n.view # {} => n.pc = "decide"
  /\ n.deny # {} => n.pc = "write"
  /\ n.orphans # {} => n.pc = "judge"
  /\ n.doomed # {} => n.pc = "redate"
  /\ n.clear # {} => n.pc \in {"write", "clear"}
ViewRight(n) ==
  /\ \A v, w \in n.view : v.pid = w.pid => v = w
  /\ \A v \in n.view : v.born = proc[v.pid].born => v.exe = proc[v.pid].exe
ClearRight(n) ==
  /\ n.deny \cap n.clear = {}
  /\ \A p \in n.clear : ~Refused(p)
  /\ \A d \in n.doomed :
       /\ d.born = Gone => proc[d.pid].st # "live"
       /\ d.born = proc[d.pid].born => ~Refused(d.pid)
ResyncRight ==
  /\ ResyncTypes(runner["edit"]) /\ ResyncSteps(runner["edit"])
  /\ ViewRight(runner["edit"]) /\ ClearRight(runner["edit"])

\* A judgement of the exec consumer that no longer fits is followed by another.
JudgedRight ==
  LET p == execTask.pid IN
  /\ execTask.pc = "write" /\ p \in Pids
  /\ proc[p].st = "live" /\ Dated(p) \in table /\ execTask.deny # Denies(rules, proc[p].exe)
  => p \in ToSet(execRing) \cup lost

\* What will still put a DENY on p.
Coming(p) ==
  \/ p \in ToSet(execRing) \/ execTask.pid = p
  \/ mode = "up" /\ runner["edit"].pc \in {"wait", "view"}
  \/ mode = "up" /\ runner["edit"].pc = "decide" /\ Viewed(p) \in runner["edit"].view
  \/ mode = "up" /\ runner["edit"].pc = "write" /\ p \in runner["edit"].deny
OwedComes ==
  Consuming => \A p \in Pids \ (lost \cup verdicts) : Refused(p) /\ Dated(p) \in table => Coming(p)

InstallInv == DenyTypes /\ ComingUp /\ ResyncRight /\ JudgedRight /\ OwedComes

LEMMA RingSays ==
  ASSUME NEW S, NEW s \in Seq(S)
  PROVE  /\ \A p \in S : /\ Append(s, p) \in Seq(S)
                            /\ ToSet(Append(s, p)) = ToSet(s) \cup {p}
         /\ s # <<>> => /\ Tail(s) \in Seq(S) /\ Head(s) \in S
                        /\ ToSet(s) = ToSet(Tail(s)) \cup {Head(s)}
<1>1. DOMAIN s = 1..Len(s) /\ Len(s) \in Nat
  OBVIOUS
<1>2. ASSUME NEW p \in S
      PROVE  /\ Append(s, p) \in Seq(S)
             /\ ToSet(Append(s, p)) = ToSet(s) \cup {p}
  <2>1. /\ Append(s, p) \in Seq(S) /\ DOMAIN Append(s, p) = 1..(Len(s) + 1)
        /\ \A i \in 1..Len(s) : Append(s, p)[i] = s[i]
        /\ Append(s, p)[Len(s) + 1] = p
    OBVIOUS
  <2> QED
    BY <1>1, <2>1, SMTT(30) DEF ToSet
<1>3. ASSUME s # <<>>
      PROVE  /\ Tail(s) \in Seq(S) /\ Head(s) \in S
             /\ ToSet(s) = ToSet(Tail(s)) \cup {Head(s)}
  <2>1. /\ Tail(s) \in Seq(S) /\ DOMAIN Tail(s) = 1..(Len(s) - 1) /\ Len(s) # 0
        /\ \A i \in 1..(Len(s) - 1) : Tail(s)[i] = s[i + 1]
        /\ Head(s) = s[1]
    BY <1>3, <1>1, HeadTailProperties, EmptySeq
  <2>2. ASSUME NEW x \in ToSet(s) PROVE x \in ToSet(Tail(s)) \cup {Head(s)}
    <3>1. PICK i \in 1..Len(s) : s[i] = x
      BY <2>2, <1>1 DEF ToSet
    <3>2. CASE i = 1
      BY <3>1, <3>2, <2>1
    <3>3. CASE i # 1
      <4>1. i - 1 \in 1..(Len(s) - 1) /\ Tail(s)[i - 1] = x
        BY <3>1, <3>3, <2>1, <1>1
      <4> QED
        BY <4>1, <2>1 DEF ToSet
    <3> QED
      BY <3>2, <3>3
  <2>3. ToSet(Tail(s)) \subseteq ToSet(s)
    BY <1>1, <2>1 DEF ToSet
  <2>4. Head(s) \in ToSet(s) /\ Head(s) \in S
    BY <1>1, <2>1 DEF ToSet
  <2> QED
    BY <2>1, <2>2, <2>3, <2>4
<1> QED
  BY <1>2, <1>3

LEMMA InstallStarts == DenyInit => InstallInv
<1> SUFFICES ASSUME DenyInit PROVE InstallInv
  OBVIOUS
<1>1. /\ births = 0 /\ mode = "down" /\ verdicts = {} /\ table = {} /\ execRing = <<>>
      /\ proc = [p \in Pids |-> [st |-> "none", exe |-> Unknown, born |-> Gone]]
      /\ runner = [r \in Runners |-> Idle]
      /\ execTask = [pc |-> "idle", pid |-> 0, deny |-> FALSE]
  BY DEF DenyInit, NoExec
<1>2. DenyTypes
  <2>1. \A r \in Runners : DOMAIN runner[r] = NodeFields
    BY <1>1 DEF Idle, NodeFields
  <2> QED
    BY <1>1, <2>1 DEF DenyTypes, States, Gone
<1>3. ComingUp /\ JudgedRight /\ OwedComes
  BY <1>1 DEF ComingUp, JudgedRight, OwedComes, Consuming, Runners, Idle
<1>4. runner["edit"] = Idle
  BY <1>1 DEF Runners
<1>5. ResyncRight
  BY <1>4 DEF ResyncRight, ResyncTypes, ResyncSteps, ViewRight, ClearRight, Idle
<1> QED
  BY <1>2, <1>3, <1>5 DEF InstallInv

\* Steps that only take from what the invariant speaks of: the exit consumer, the
\* recheck and the age of a record.
LEMMA TakingKeeps ==
  ASSUME InstallInv, UNCHANGED <<proc, births, mode, attached, rules, runner, execRing, execTask>>,
         table' \subseteq table, lost \subseteq lost', verdicts' \subseteq verdicts,
         \A p \in verdicts \ verdicts' : Dated(p) \notin table'
  PROVE  InstallInv'
<1> USE DEF InstallInv
<1>1. DenyTypes'
  BY DEF DenyTypes
<1>2. ComingUp'
  BY DEF ComingUp, Consuming
<1>3. ResyncRight'
  BY DEF ResyncRight, ResyncTypes, ResyncSteps, ViewRight, ClearRight, Refused
<1>4. JudgedRight'
  BY DEF JudgedRight, Dated
<1>5. OwedComes'
  BY DEF OwedComes, Consuming, Refused, Dated, Coming, Viewed
<1> QED
  BY <1>1, <1>2, <1>3, <1>4, <1>5

LEMMA ExitSideKeeps ==
  ASSUME InstallInv,
         \/ ExitTake \/ ExitEvict \/ RecheckTick \/ RecheckLook \/ RecheckEvict \/ Requeue
         \/ \E p \in Pids : ExpireRecord(p)
  PROVE  InstallInv'
<1>1. CASE ExitTake \/ RecheckTick \/ RecheckLook \/ Requeue
  BY <1>1, TakingKeeps
     DEF ExitTake, RecheckTick, RecheckLook, Requeue, machine, pins
<1>2. ASSUME NEW q, Evict(q), UNCHANGED <<proc, births, mode, attached, rules, runner, execRing, execTask, lost>>
      PROVE  InstallInv'
  BY <1>2, TakingKeeps DEF Evict, WithoutRecord, Dated
<1>3. CASE ExitEvict
  BY <1>3, <1>2 DEF ExitEvict, machine
<1>4. CASE RecheckEvict
  BY <1>4, <1>2 DEF RecheckEvict, machine
<1>5. CASE \E p \in Pids : ExpireRecord(p)
  BY <1>5, TakingKeeps DEF ExpireRecord, WithoutRecord, machine, pins, threads
<1> QED
  BY <1>1, <1>3, <1>4, <1>5

LEMMA LeavingKeeps ==
  ASSUME InstallInv, NEW p \in Pids, Exit(p) \/ Reap(p)
  PROVE  InstallInv'
<1> USE DEF InstallInv
<1>1. /\ UNCHANGED <<mode, attached, rules, runner, execRing, execTask, table, births>>
      /\ lost \subseteq lost' /\ verdicts' \subseteq verdicts
      /\ verdicts \ verdicts' \subseteq {p}
  BY DEF Exit, Reap, machine, pins, threads
<1>2. /\ proc' \in [Pids -> [st : States, exe : Names \cup {Unknown}, born : 0..births]]
      /\ \A q \in Pids \ {p} : proc'[q] = proc[q]
      /\ proc'[p].st # "live" /\ proc'[p].exe = proc[p].exe /\ proc'[p].born = proc[p].born
      /\ proc[p].st # "none"
  <2>1. CASE Exit(p)
    BY <2>1 DEF Exit, DenyTypes, States
  <2>2. CASE Reap(p)
    BY <2>2, ZenonT(60) DEF Reap, DenyTypes, States, machine
  <2> QED
    BY <2>1, <2>2
<1>3. \A q \in Pids : /\ proc'[q].exe = proc[q].exe /\ proc'[q].born = proc[q].born
                      /\ proc'[q].st = "live" => proc[q].st = "live" /\ q # p
  BY <1>2
<1>4. \A q \in Pids : Refused(q)' => Refused(q) /\ q # p
  BY <1>1, <1>3 DEF Refused
<1>5. DenyTypes'
  BY <1>1, <1>2, ZenonT(60) DEF DenyTypes
<1>6. ComingUp'
  BY <1>1 DEF ComingUp, Consuming
<1>7. ResyncRight'
  <2>1. ResyncTypes(runner["edit"])' /\ ResyncSteps(runner["edit"])'
    BY <1>1 DEF ResyncRight, ResyncTypes, ResyncSteps
  <2>2. ViewRight(runner["edit"])'
    BY <1>1, <1>3 DEF ResyncRight, ResyncTypes, ViewRight
  <2>3. ClearRight(runner["edit"])'
    BY <1>1, <1>3, <1>4 DEF ResyncRight, ResyncTypes, ClearRight
  <2> QED
    BY <2>1, <2>2, <2>3 DEF ResyncRight
<1>8. JudgedRight'
  BY <1>1, <1>3 DEF JudgedRight, Dated
<1>9. OwedComes'
  BY <1>1, <1>3, <1>4 DEF OwedComes, Consuming, Dated, Coming, Viewed
<1> QED
  BY <1>5, <1>6, <1>7, <1>8, <1>9

LEMMA SpawnKeeps ==
  ASSUME InstallInv, Windows \subseteq {"exit"}, NEW p \in Pids, NEW i \in Images, Spawn(p, i)
  PROVE  InstallInv'
<1> USE DEF InstallInv
<1>1. /\ UNCHANGED <<mode, attached, rules, runner, execRing, execTask, table, lost, verdicts>>
      /\ births \in Nat /\ births' = births + 1 /\ ~ReuseUnnoticed(p)
  BY DEF Spawn, pins, threads, DenyTypes
<1>2. /\ proc' \in [Pids -> [st : States, exe : Names \cup {Unknown}, born : 0..births']]
      /\ \A q \in Pids \ {p} : proc'[q] = proc[q]
      /\ proc'[p].born = births'
  <2>1. i \in Names
    BY ConstantsAssumption DEF Images
  <2> QED
    BY <2>1, <1>1 DEF Spawn, DenyTypes, States
<1>3. \A t \in table : t.pid = p => t # Dated(p)'
  BY <1>1, <1>2 DEF DenyTypes, Dated
<1>4. Dated(p)' \notin table
  BY <1>3 DEF Dated
<1>5. \A q \in Pids \ {p} : /\ Dated(q)' = Dated(q) /\ Viewed(q)' = Viewed(q)
                            /\ Refused(q)' = Refused(q)
  BY <1>1, <1>2 DEF Dated, Viewed, Refused
<1>6. DenyTypes'
  <2>0. 0..births \subseteq 0..births'
    BY <1>1
  <2>1. table' \subseteq [pid : Pids, born : 0..births']
    BY <1>1, <2>0 DEF DenyTypes
  <2>2. \A q \in Pids : proc'[q].st # "none" => proc'[q].born # Gone
    <3>1. proc'[p].born # Gone
      BY <1>1, <1>2 DEF Gone
    <3>2. ASSUME NEW q \in Pids \ {p}, proc[q].st # "none" PROVE proc[q].born # Gone
      BY <3>2 DEF DenyTypes
    <3> QED
      BY <3>1, <3>2, <1>2
  <2>3. births' \in Nat
    BY <1>1
  <2> QED
    BY <1>1, <1>2, <2>1, <2>2, <2>3 DEF DenyTypes
<1>7. ComingUp'
  BY <1>1 DEF ComingUp, Consuming
<1>8. ResyncRight'
  <2> DEFINE n == runner["edit"]
  <2>1. ResyncTypes(n) /\ ResyncSteps(n) /\ ViewRight(n) /\ ClearRight(n) /\ n' = n
    BY <1>1 DEF ResyncRight
  <2>2. p \notin n.clear /\ [pid |-> p, born |-> Gone] \notin n.doomed
    BY <1>1 DEF ReuseUnnoticed, Runners
  <2> HIDE DEF n
  <2>3. ResyncTypes(n)' /\ ResyncSteps(n)'
    BY <1>1, <2>1 DEF ResyncTypes, ResyncSteps
  <2>4. ViewRight(n)'
    <3>1. \A v \in n.view : v.pid \in Pids /\ (v.pid = p => v.born # births')
      BY <1>1, <2>1 DEF ResyncTypes
    <3> QED
      BY <1>2, <2>1, <3>1 DEF ViewRight
  <2>5. ClearRight(n)'
    <3>1. \A d \in n.doomed : d.pid \in Pids /\ (d.pid = p => d.born # births' /\ d.born # Gone)
      BY <1>1, <2>1, <2>2 DEF ResyncTypes
    <3>2. \A c \in n.clear : c \in Pids \ {p}
      BY <2>1, <2>2 DEF ResyncTypes
    <3>3. \A c \in n.clear : ~Refused(c)'
      BY <1>5, <2>1, <3>2 DEF ClearRight
    <3>4. \A d \in n.doomed : /\ d.born = Gone => proc'[d.pid].st # "live"
                              /\ d.born = proc'[d.pid].born => ~Refused(d.pid)'
      BY <1>2, <1>5, <2>1, <3>1 DEF ClearRight
    <3> QED
      BY <2>1, <3>3, <3>4 DEF ClearRight
  <2> QED
    BY <2>3, <2>4, <2>5 DEF ResyncRight, n
<1>9. JudgedRight'
  <2> SUFFICES ASSUME NEW q \in Pids \ {p}, execTask.pc = "write", execTask.pid = q,
                      proc'[q].st = "live", Dated(q)' \in table, execTask.deny # Denies(rules, proc'[q].exe)
               PROVE  q \in ToSet(execRing) \cup lost
    BY <1>1, <1>4 DEF JudgedRight, Dated
  <2>1. proc'[q] = proc[q] /\ Dated(q)' = Dated(q)
    BY <1>2, <1>5
  <2> QED
    BY <2>1 DEF JudgedRight
<1>10. OwedComes'
  <2> SUFFICES ASSUME Consuming, NEW q \in Pids \ (lost \cup verdicts), Refused(q)', Dated(q)' \in table
               PROVE  Coming(q)'
    BY <1>1 DEF OwedComes, Consuming
  <2>1. q # p
    BY <1>4
  <2> QED
    BY <1>1, <1>5, <2>1 DEF OwedComes, Coming
<1> QED
  BY <1>6, <1>7, <1>8, <1>9, <1>10

LEMMA ExecKeeps ==
  ASSUME InstallInv, Windows \subseteq {"exit"}, NEW p \in Pids, NEW name \in Names, Exec(p, name)
  PROVE  InstallInv'
<1> USE DEF InstallInv
<1>1. /\ UNCHANGED <<mode, attached, rules, runner, execTask, table, births>>
      /\ ~ExecUnnoticed(p) /\ proc[p].st = "live" /\ Target[name] \in Names
  BY ConstantsAssumption DEF Exec, threads
<1>2. /\ proc' \in [Pids -> [st : States, exe : Names \cup {Unknown}, born : 0..births]]
      /\ \A q \in Pids : /\ q # p => proc'[q] = proc[q]
                         /\ proc'[q].st = proc[q].st /\ proc'[q].born = proc[q].born
  BY <1>1, SMTT(30) DEF Exec, DenyTypes
<1>3. /\ execRing' \in Seq(Pids) /\ ToSet(execRing) \subseteq ToSet(execRing')
      /\ lost \subseteq lost' \cup {p} /\ verdicts' \subseteq Pids /\ verdicts \subseteq verdicts' \cup {p}
      /\ Consuming => p \in ToSet(execRing') \cup lost'
  <2>1. CASE attached
    <3>1. \/ execRing' = execRing
          \/ execRing' = Append(execRing, p)
      BY <2>1 DEF Exec, Publish
    <3>2. execRing' \in Seq(Pids) /\ ToSet(execRing) \subseteq ToSet(execRing')
      <4>1. execRing \in Seq(Pids)
        BY DEF DenyTypes
      <4>2. /\ Append(execRing, p) \in Seq(Pids)
            /\ ToSet(Append(execRing, p)) = ToSet(execRing) \cup {p}
        BY <4>1, RingSays
      <4> QED
        BY <3>1, <4>1, <4>2
    <3>3. /\ verdicts' = PrecommitVerdict(p, name)
          /\ lost' = IF Drops(execRing) THEN lost \cup {p} ELSE lost \ {p}
      BY <2>1 DEF Exec
    <3>4. verdicts' \subseteq Pids /\ verdicts \subseteq verdicts' \cup {p}
      BY <3>3 DEF PrecommitVerdict, DenyTypes
    <3>5. ASSUME Consuming PROVE p \in ToSet(execRing') \cup lost'
      <4>1. CASE Drops(execRing)
        BY <3>3, <4>1
      <4>2. CASE ~Drops(execRing)
        <5>1. execRing \in Seq(Pids) /\ RingCap \in Nat
          BY ConstantsAssumption DEF DenyTypes
        <5>2. Len(execRing) < RingCap
          BY <4>2, <3>5, <5>1 DEF Drops, Consuming
        <5>3. execRing' = Append(execRing, p)
          BY <2>1, <5>2, <3>5 DEF Exec, Publish, Consuming
        <5> QED
          BY <5>1, <5>3, RingSays
      <4> QED
        BY <4>1, <4>2
    <3> QED
      BY <3>2, <3>3, <3>4, <3>5
  <2>2. CASE ~attached
    BY <2>2 DEF Exec, DenyTypes, ComingUp, Consuming
  <2> QED
    BY <2>1, <2>2
<1>4. \A q \in Pids : /\ Dated(q)' = Dated(q)
                      /\ q # p => Viewed(q)' = Viewed(q) /\ Refused(q)' = Refused(q)
  BY <1>1, <1>2 DEF Dated, Viewed, Refused
<1>5. DenyTypes'
  BY <1>1, <1>2, <1>3 DEF DenyTypes
<1>6. ComingUp'
  BY <1>1 DEF ComingUp, Consuming
<1>7. ResyncRight'
  <2> DEFINE n == runner["edit"]
  <2>1. ResyncTypes(n) /\ ResyncSteps(n) /\ ViewRight(n) /\ ClearRight(n) /\ n' = n
    BY <1>1 DEF ResyncRight
  <2>2. /\ p \notin n.clear /\ Dated(p) \notin n.doomed /\ Viewed(p) \notin n.view
    BY <1>1 DEF ExecUnnoticed, Runners, Dated, Viewed
  <2> HIDE DEF n
  <2>3. ResyncTypes(n)' /\ ResyncSteps(n)'
    BY <1>1, <2>1 DEF ResyncTypes, ResyncSteps
  <2>4. ViewRight(n)'
    <3>1. ASSUME NEW v \in n.view, v.pid = p, v.born = proc[p].born PROVE FALSE
      <4>1. v.exe = proc[p].exe
        BY <3>1, <2>1 DEF ViewRight
      <4>2. v = Viewed(p)
        BY <3>1, <4>1, <2>1 DEF ResyncTypes, Viewed
      <4> QED
        BY <4>2, <2>2
    <3>2. \A v \in n.view : v.pid \in Pids
      BY <2>1 DEF ResyncTypes
    <3> QED
      BY <1>2, <2>1, <3>1, <3>2 DEF ViewRight
  <2>5. ClearRight(n)'
    <3>1. ASSUME NEW d \in n.doomed, d.pid = p, d.born = proc[p].born PROVE FALSE
      <4>1. d = Dated(p)
        BY <3>1, <2>1 DEF ResyncTypes, Dated
      <4> QED
        BY <4>1, <2>2
    <3>2. (\A d \in n.doomed : d.pid \in Pids) /\ \A c \in n.clear : c \in Pids \ {p}
      BY <2>1, <2>2 DEF ResyncTypes
    <3>3. \A c \in n.clear : ~Refused(c)'
      BY <1>4, <2>1, <3>2 DEF ClearRight
    <3>4. \A d \in n.doomed : /\ d.born = Gone => proc'[d.pid].st # "live"
                              /\ d.born = proc'[d.pid].born => ~Refused(d.pid)'
      BY <1>2, <1>4, <2>1, <3>1, <3>2 DEF ClearRight
    <3> QED
      BY <2>1, <3>3, <3>4 DEF ClearRight
  <2> QED
    BY <2>3, <2>4, <2>5 DEF ResyncRight, n
<1>8. JudgedRight'
  <2> SUFFICES ASSUME execTask.pc = "write", execTask.pid \in Pids,
                      proc'[execTask.pid].st = "live", Dated(execTask.pid) \in table,
                      execTask.deny # Denies(rules, proc'[execTask.pid].exe)
               PROVE  execTask.pid \in ToSet(execRing') \cup lost'
    BY <1>1, <1>4 DEF JudgedRight, Dated
  <2>1. Consuming
    BY DEF ComingUp
  <2>2. CASE execTask.pid = p
    BY <2>1, <2>2, <1>3
  <2>3. CASE execTask.pid # p
    BY <2>3, <1>2, <1>3 DEF JudgedRight
  <2> QED
    BY <2>2, <2>3
<1>9. OwedComes'
  <2> SUFFICES ASSUME Consuming, NEW q \in Pids \ (lost' \cup verdicts'), Refused(q)', Dated(q) \in table
               PROVE  Coming(q)'
    BY <1>1, <1>4 DEF OwedComes, Consuming
  <2>1. CASE q = p
    BY <2>1, <1>3 DEF Coming
  <2>2. CASE q # p
    <3>1. Coming(q)
      BY <2>2, <1>3, <1>4 DEF OwedComes
    <3> QED
      BY <3>1, <2>2, <1>1, <1>3, <1>4 DEF Coming
  <2> QED
    BY <2>1, <2>2
<1> QED
  BY <1>5, <1>6, <1>7, <1>8, <1>9

LEMMA ComingUpKeeps ==
  ASSUME InstallInv, DropStalePins \/ AttachTracepoints \/ Sweep \/ SpawnConsumers \/ SetLive
  PROVE  InstallInv'
<1> USE DEF InstallInv
<1>0. /\ UNCHANGED <<proc, births, rules, table, execRing, execTask, lost>>
      /\ verdicts' \subseteq verdicts
      /\ Consuming => verdicts' = verdicts
  BY DEF DropStalePins, AttachTracepoints, Sweep, SpawnConsumers, SetLive, Consuming, machine, pins, threads
<1>1. /\ UNCHANGED <<proc, births, rules, table, execRing, execTask, lost>>
      /\ runner'["edit"] = runner["edit"]
      /\ runner'["start"].view = runner["start"].view /\ runner'["start"].deny = runner["start"].deny
      /\ DOMAIN runner' = Runners /\ \A r \in Runners : DOMAIN runner'[r] = NodeFields
      /\ mode' \in {"attach", "sweep", "sync", "start", "up"}
  <2>1. CASE Sweep
    <3>1. runner' = [runner EXCEPT !["start"] = [@ EXCEPT !.pc = "wait"]]
      BY <2>1 DEF Sweep
    <3>2. /\ runner'["edit"] = runner["edit"]
          /\ runner'["start"].view = runner["start"].view /\ runner'["start"].deny = runner["start"].deny
          /\ DOMAIN runner' = Runners /\ \A r \in Runners : DOMAIN runner'[r] = NodeFields
      BY <3>1 DEF DenyTypes, Runners, NodeFields
    <3> QED
      BY <1>0, <2>1, <3>2 DEF Sweep
  <2>2. CASE ~Sweep
    BY <1>0, <2>2 DEF DropStalePins, AttachTracepoints, SpawnConsumers, SetLive, threads, DenyTypes
  <2> QED
    BY <2>1, <2>2
<1>2. \A q \in Pids : Dated(q)' = Dated(q) /\ Viewed(q)' = Viewed(q) /\ Refused(q)' = Refused(q)
  BY <1>1 DEF Dated, Viewed, Refused
<1>3. DenyTypes'
  <2>1. /\ proc' = proc /\ births' = births /\ table' = table /\ execRing' = execRing /\ execTask' = execTask
        /\ verdicts' \subseteq verdicts
        /\ mode' \in {"down", "attach", "sweep", "sync", "start", "up"}
        /\ DOMAIN runner' = Runners /\ \A r \in Runners : DOMAIN runner'[r] = NodeFields
    <3>1. DOMAIN runner' = Runners /\ \A r \in Runners : DOMAIN runner'[r] = NodeFields
      BY <1>1
    <3>2. mode' \in {"down", "attach", "sweep", "sync", "start", "up"}
      BY <1>1
    <3>3. verdicts' \subseteq verdicts
      BY <1>0
    <3> QED
      BY <1>1, <3>1, <3>2, <3>3
  <2> QED
    BY <2>1 DEF DenyTypes
<1>4. ComingUp'
  BY <1>1 DEF ComingUp, Consuming, DropStalePins, AttachTracepoints, Sweep, SpawnConsumers, SetLive,
              pins, threads
<1>5. ResyncRight'
  <2> DEFINE n == runner["edit"]
  <2>1. ResyncTypes(n) /\ ResyncSteps(n) /\ ViewRight(n) /\ ClearRight(n) /\ n' = n
    BY <1>1 DEF ResyncRight
  <2> HIDE DEF n
  <2>2. ResyncTypes(n)' /\ ResyncSteps(n)' /\ ViewRight(n)' /\ ClearRight(n)'
    BY <1>1, <2>1 DEF ResyncTypes, ResyncSteps, ViewRight, ClearRight, Refused
  <2> QED
    BY <2>2 DEF ResyncRight, n
<1>6. JudgedRight'
  BY <1>1 DEF JudgedRight, Dated
<1>7. OwedComes'
  <2>1. CASE Consuming
    <3>1. mode' = "up" \/ mode' = mode
      BY <2>1 DEF Consuming, DropStalePins, AttachTracepoints, Sweep, SpawnConsumers, SetLive
    <3>0. lost' = lost /\ verdicts' = verdicts /\ table' = table
      BY <2>1, <1>0
    <3>2. SUFFICES ASSUME NEW q \in Pids \ (lost \cup verdicts), Refused(q), Dated(q) \in table
                   PROVE  Coming(q)'
      BY <3>0, <1>2 DEF OwedComes
    <3>3. Coming(q)
      BY <2>1, <3>2 DEF OwedComes
    <3> QED
      BY <3>1, <3>3, <1>1, <1>2 DEF Coming
  <2>2. CASE ~Consuming
    BY <2>2, <1>1 DEF OwedComes, ComingUp
  <2> QED
    BY <2>1, <2>2
<1> QED
  BY <1>3, <1>4, <1>5, <1>6, <1>7

LEMMA DeathKeeps == ASSUME InstallInv, DaemonDies PROVE InstallInv'
<1> USE DEF InstallInv
<1>1. /\ UNCHANGED <<proc, births, verdicts, rules>>
      /\ mode' = "down" /\ table' = {} /\ execRing' = <<>>
      /\ runner' = [r \in Runners |-> Idle]
      /\ execTask' = [pc |-> "idle", pid |-> 0, deny |-> FALSE]
  BY DEF DaemonDies, NoExec, pins
<1>2. DenyTypes'
  <2>1. \A r \in Runners : DOMAIN runner'[r] = NodeFields
    BY <1>1 DEF Idle, NodeFields
  <2> QED
    BY <1>1, <2>1 DEF DenyTypes
<1>3. ComingUp' /\ JudgedRight' /\ OwedComes'
  BY <1>1 DEF ComingUp, JudgedRight, OwedComes, Consuming, Runners, Idle
<1>4. runner'["edit"] = Idle
  BY <1>1 DEF Runners
<1>5. ResyncRight'
  BY <1>4 DEF ResyncRight, ResyncTypes, ResyncSteps, ViewRight, ClearRight, Idle
<1> QED
  BY <1>2, <1>3, <1>5

LEMMA RuleChangeKeeps ==
  ASSUME InstallInv, Windows \subseteq {"exit"}, NEW rs \in RuleSets, RuleChange(rs)
  PROVE  InstallInv'
<1> USE DEF InstallInv
<1>1. /\ UNCHANGED <<proc, births, verdicts, attached, mode, table, execRing, execTask, lost>>
      /\ runner["edit"].pc = "idle" /\ mode # "start" /\ execTask.pc # "write"
      /\ runner' = IF Observing THEN [runner EXCEPT !["edit"].pc = "wait"] ELSE runner
  BY DEF RuleChange, pins
<1>2. /\ DOMAIN runner' = Runners /\ \A r \in Runners : DOMAIN runner'[r] = NodeFields
      /\ runner'["start"] = runner["start"]
      /\ runner'["edit"].view = runner["edit"].view /\ runner'["edit"].deny = runner["edit"].deny
      /\ runner'["edit"].orphans = runner["edit"].orphans
      /\ runner'["edit"].doomed = runner["edit"].doomed /\ runner'["edit"].clear = runner["edit"].clear
      /\ Observing => runner'["edit"].pc = "wait"
  BY <1>1 DEF DenyTypes, Runners, NodeFields
<1>3. /\ runner["edit"].view = {} /\ runner["edit"].deny = {} /\ runner["edit"].orphans = {}
      /\ runner["edit"].doomed = {} /\ runner["edit"].clear = {}
  BY <1>1 DEF ResyncRight, ResyncSteps
<1>4. DenyTypes'
  BY <1>1, <1>2 DEF DenyTypes
<1>5. ComingUp'
  BY <1>1, <1>2 DEF ComingUp, Consuming
<1>6. ResyncRight'
  BY <1>2, <1>3 DEF ResyncRight, ResyncTypes, ResyncSteps, ViewRight, ClearRight
<1>7. JudgedRight'
  BY <1>1 DEF JudgedRight
<1>8. OwedComes'
  <2> SUFFICES ASSUME Consuming' PROVE mode' = "up" /\ runner'["edit"].pc = "wait"
    BY DEF OwedComes, Coming
  <2> QED
    BY <1>1, <1>2 DEF Consuming, Observing
<1> QED
  BY <1>4, <1>5, <1>6, <1>7, <1>8

LEMMA ExecTakeKeeps == ASSUME InstallInv, ExecTake PROVE InstallInv'
<1> USE DEF InstallInv
<1> DEFINE p == Head(execRing)
           seen == [pid |-> p, born |-> StartTime(p)]
<1>1. /\ UNCHANGED <<proc, births, verdicts, attached, mode, rules, runner, lost>>
      /\ Consuming /\ execTask.pc = "idle" /\ execRing # <<>> /\ execRing' = Tail(execRing)
      /\ table' = WithoutRecord(p) \cup {seen}
      /\ execTask' = [pc |-> "judge", pid |-> p, deny |-> FALSE]
  BY DEF ExecTake, Consuming, machine, pins
<1>2. /\ execRing' \in Seq(Pids) /\ p \in Pids
      /\ ToSet(execRing) = ToSet(execRing') \cup {p}
  BY <1>1, RingSays DEF DenyTypes
<1>3. seen \in [pid : Pids, born : 0..births]
  BY <1>2 DEF DenyTypes, StartTime, Gone
<1>4. table' \subseteq table \cup {seen} /\ seen.pid = p
  BY <1>1 DEF WithoutRecord
<1> HIDE DEF p, seen
<1>5. DenyTypes'
  <2>1. table' \subseteq [pid : Pids, born : 0..births']
    BY <1>1, <1>3, <1>4 DEF DenyTypes
  <2>2. /\ execTask' \in [pc : {"idle", "judge", "write"}, pid : Pids \cup {0}, deny : BOOLEAN]
        /\ execTask'.pc = "idle" <=> execTask'.pid = 0
    BY <1>1, <1>2, ConstantsAssumption
  <2> QED
    BY <1>1, <1>2, <2>1, <2>2 DEF DenyTypes
<1>6. ComingUp'
  BY <1>1 DEF ComingUp, Consuming
<1>7. ResyncRight'
  BY <1>1 DEF ResyncRight, ResyncTypes, ResyncSteps, ViewRight, ClearRight, Refused
<1>8. JudgedRight'
  BY <1>1 DEF JudgedRight
<1>9. OwedComes'
  <2> SUFFICES ASSUME NEW q \in Pids \ (lost \cup verdicts), Refused(q), Dated(q) \in table', q # p
               PROVE  Coming(q)'
    BY <1>1 DEF OwedComes, Consuming, Refused, Dated, Coming
  <2>1. Dated(q) \in table
    BY <1>4 DEF Dated
  <2>2. Coming(q) /\ execTask.pid # q
    BY <1>1, <2>1, ConstantsAssumption DEF OwedComes, DenyTypes
  <2> QED
    BY <2>2, <1>1, <1>2 DEF Coming, Viewed
<1> QED
  BY <1>5, <1>6, <1>7, <1>8, <1>9

LEMMA ExecJudgeKeeps == ASSUME InstallInv, OnExecJudge PROVE InstallInv'
<1> USE DEF InstallInv
<1>1. /\ UNCHANGED <<proc, births, verdicts, attached, mode, rules, runner, lost, execRing, table>>
      /\ execTask.pc = "judge"
      /\ execTask' = [execTask EXCEPT !.pc = "write", !.deny = Denies(rules, OnExecImage(execTask.pid))]
  BY DEF OnExecJudge, machine, pins
<1>2. /\ execTask' \in [pc : {"idle", "judge", "write"}, pid : Pids \cup {0}, deny : BOOLEAN]
      /\ execTask'.pc = "write" /\ execTask'.pid = execTask.pid
  <2>1. Denies(rules, OnExecImage(execTask.pid)) \in BOOLEAN
    BY DEF Denies
  <2>2. /\ DOMAIN execTask = {"pc", "pid", "deny"} /\ execTask.pid \in Pids \cup {0}
        /\ execTask = [pc |-> execTask.pc, pid |-> execTask.pid, deny |-> execTask.deny]
    BY DEF DenyTypes
  <2> HIDE DEF InstallInv
  <2>3. execTask' = [pc |-> "write", pid |-> execTask.pid, deny |-> Denies(rules, OnExecImage(execTask.pid))]
    BY <1>1, <2>2
  <2> QED
    BY <2>1, <2>2, <2>3
<1>3. execTask'.deny = Denies(rules, OnExecImage(execTask.pid))
  BY <1>1 DEF DenyTypes
<1>4. DenyTypes'
  BY <1>1, <1>2 DEF DenyTypes
<1>5. ComingUp'
  BY <1>1 DEF ComingUp, Consuming
<1>6. ResyncRight'
  BY <1>1 DEF ResyncRight, ResyncTypes, ResyncSteps, ViewRight, ClearRight, Refused
<1>7. JudgedRight'
  <2> SUFFICES ASSUME NEW q \in Pids, q = execTask.pid, proc[q].st = "live",
                      execTask'.deny # Denies(rules, proc[q].exe)
               PROVE  FALSE
    BY <1>1, <1>2 DEF JudgedRight
  <2>1. OnExecImage(q) = proc[q].exe
    BY DEF OnExecImage, Readable
  <2> QED
    BY <1>3, <2>1
<1>8. OwedComes'
  BY <1>1, <1>2 DEF OwedComes, Consuming, Refused, Dated, Coming, Viewed
<1> QED
  BY <1>4, <1>5, <1>6, <1>7, <1>8

LEMMA ExecWriteKeeps == ASSUME InstallInv, OnExecWrite PROVE InstallInv'
<1> USE DEF InstallInv
<1> DEFINE p == execTask.pid
<1>1. /\ UNCHANGED <<proc, births, attached, mode, rules, runner, lost, execRing, table>>
      /\ execTask.pc = "write"
      /\ verdicts' = IF execTask.deny THEN verdicts \cup {p} ELSE verdicts \ {p}
      /\ execTask' = [pc |-> "idle", pid |-> 0, deny |-> FALSE]
  BY DEF OnExecWrite, machine, NoExec
<1>2. DenyTypes'
  <2>1. verdicts' \subseteq Pids
    <3>1. CASE execTask.deny
      BY <3>1, <1>1, ConstantsAssumption DEF DenyTypes, ComingUp
    <3>2. CASE ~execTask.deny
      BY <3>2, <1>1 DEF DenyTypes
    <3> QED
      BY <3>1, <3>2
  <2> HIDE DEF p
  <2> QED
    BY <2>1, <1>1 DEF DenyTypes
<1>3. ComingUp'
  BY <1>1 DEF ComingUp, Consuming
<1>4. ResyncRight'
  BY <1>1 DEF ResyncRight, ResyncTypes, ResyncSteps, ViewRight, ClearRight, Refused
<1>5. JudgedRight'
  BY <1>1 DEF JudgedRight
<1>6. OwedComes'
  <2> SUFFICES ASSUME Consuming, NEW q \in Pids \ (lost \cup verdicts'), Refused(q), Dated(q) \in table
               PROVE  Coming(q)'
    BY <1>1 DEF OwedComes, Consuming, Refused, Dated
  <2>1. CASE q = p
    <3>1. execTask.deny = FALSE
      BY <2>1, <1>1 DEF DenyTypes
    <3>2. q \in ToSet(execRing)
      BY <2>1, <3>1, <1>1 DEF JudgedRight, Refused
    <3> QED
      BY <3>2, <1>1 DEF Coming
  <2>2. CASE q # p
    <3>1. Coming(q)
      BY <2>2, <1>1 DEF OwedComes
    <3> QED
      BY <3>1, <2>2, <1>1 DEF Coming, Viewed
  <2> QED
    BY <2>1, <2>2
<1> QED
  BY <1>2, <1>3, <1>4, <1>5, <1>6

\* A step of the resync of an edit: only its own record, the entries and what is
\* lost change.
ResyncTouches ==
  /\ UNCHANGED <<proc, births, attached, mode, rules, execRing, execTask, table>>
  /\ lost \subseteq lost'
  /\ \E n : runner' = [runner EXCEPT !["edit"] = n] /\ DOMAIN n = NodeFields

LEMMA ResyncFrame ==
  ASSUME InstallInv, ResyncTouches, verdicts' \subseteq Pids
  PROVE  DenyTypes' /\ ComingUp' /\ JudgedRight'
<1> USE DEF InstallInv
<1>1. PICK n : runner' = [runner EXCEPT !["edit"] = n] /\ DOMAIN n = NodeFields
  BY DEF ResyncTouches
<1>2. /\ DOMAIN runner' = Runners /\ \A r \in Runners : DOMAIN runner'[r] = NodeFields
      /\ runner'["start"] = runner["start"]
  BY <1>1 DEF DenyTypes, Runners
<1>3. DenyTypes'
  BY <1>2 DEF DenyTypes, ResyncTouches
<1>4. ComingUp'
  BY <1>2 DEF ComingUp, Consuming, ResyncTouches
<1>5. JudgedRight'
  BY DEF JudgedRight, ResyncTouches, Dated
<1> QED
  BY <1>3, <1>4, <1>5

LEMMA NodeFrame ==
  ASSUME InstallInv, NEW n, runner' = [runner EXCEPT !["edit"] = n]
  PROVE  runner'["edit"] = n
BY DEF InstallInv, DenyTypes, Runners

\* What is owed stays owed to the consumer, or was owed to the resync.
LEMMA ResyncOwes ==
  ASSUME InstallInv, ResyncTouches,
         mode = "up" => \A q \in Pids : q \in verdicts' \cup lost' \/ ~Refused(q) \/ Dated(q) \notin table
                          \/ q \in ToSet(execRing) \/ execTask.pid = q \/ Coming(q)',
         Consuming => \A q \in Pids : q \in verdicts \ verdicts' => ~Refused(q)
  PROVE  OwedComes'
<1> USE DEF InstallInv
<1> SUFFICES ASSUME Consuming, NEW q \in Pids \ (lost' \cup verdicts'), Refused(q), Dated(q) \in table
             PROVE  Coming(q)'
  BY DEF OwedComes, ResyncTouches, Consuming, Refused, Dated
<1>1. CASE mode = "up"
  BY <1>1 DEF ResyncTouches, Coming
<1>2. CASE mode # "up"
  <2>1. q \in ToSet(execRing) \/ execTask.pid = q
    BY <1>2 DEF OwedComes, Coming, ResyncTouches
  <2> QED
    BY <2>1 DEF Coming, ResyncTouches
<1> QED
  BY <1>1, <1>2

LEMMA CompileKeeps == ASSUME InstallInv, ResyncCompile("edit") PROVE InstallInv'
<1> USE DEF InstallInv
<1> DEFINE n == runner["edit"]
           m == [n EXCEPT !.pc = "view"]
<1>1. /\ UNCHANGED <<proc, births, attached, mode, rules, execRing, execTask, table, verdicts, lost>>
      /\ n.pc = "wait" /\ runner' = [runner EXCEPT !["edit"] = m]
  BY DEF ResyncCompile, RunnerStep, machine
<1>2. /\ DOMAIN m = NodeFields /\ m.pc = "view" /\ m.view = n.view /\ m.deny = n.deny
      /\ m.orphans = n.orphans /\ m.doomed = n.doomed /\ m.clear = n.clear
  BY DEF DenyTypes, Runners, NodeFields
<1> HIDE DEF m
<1>3. runner'["edit"] = m
  BY <1>1, NodeFrame
<1>4. ResyncTouches
  BY <1>1, <1>2 DEF ResyncTouches
<1>5. DenyTypes' /\ ComingUp' /\ JudgedRight'
  BY <1>1, <1>4, ResyncFrame DEF DenyTypes
<1>6. n.view = {} /\ n.deny = {} /\ n.orphans = {} /\ n.doomed = {} /\ n.clear = {}
  BY <1>1 DEF ResyncRight, ResyncSteps
<1> HIDE DEF n
<1>7. ResyncRight'
  BY <1>2, <1>3, <1>6 DEF ResyncRight, ResyncTypes, ResyncSteps, ViewRight, ClearRight
<1>8. OwedComes'
  <2>1. ASSUME mode = "up" PROVE \A q \in Pids : Coming(q)'
    BY <2>1, <1>1, <1>2, <1>3 DEF Coming
  <2> QED
    BY <2>1, <1>1, <1>4, ResyncOwes
<1> QED
  BY <1>5, <1>7, <1>8

LEMMA ViewKeeps == ASSUME InstallInv, ResyncView("edit") PROVE InstallInv'
<1> USE DEF InstallInv
<1> DEFINE n == runner["edit"]
           live == IF mode = "up" THEN {t.pid : t \in table} ELSE {}
           views == {Viewed(p) : p \in {q \in live : Readable(q)}}
           m == [n EXCEPT !.pc = "decide", !.known = live, !.view = views]
<1>1. /\ UNCHANGED <<proc, births, attached, mode, rules, execRing, execTask, table, verdicts, lost>>
      /\ n.pc = "view" /\ runner' = [runner EXCEPT !["edit"] = m]
  BY DEF ResyncView, RunnerStep, machine, pins, Viewed
<1>2. /\ DOMAIN m = NodeFields /\ m.pc = "decide" /\ m.view = views /\ m.deny = n.deny
      /\ m.orphans = n.orphans /\ m.doomed = n.doomed /\ m.clear = n.clear
  BY DEF DenyTypes, Runners, NodeFields
<1> HIDE DEF m
<1>3. runner'["edit"] = m
  BY <1>1, NodeFrame
<1>4. ResyncTouches
  BY <1>1, <1>2 DEF ResyncTouches
<1>5. DenyTypes' /\ ComingUp' /\ JudgedRight'
  BY <1>1, <1>4, ResyncFrame DEF DenyTypes
<1>6. n.deny = {} /\ n.orphans = {} /\ n.doomed = {} /\ n.clear = {}
  BY <1>1 DEF ResyncRight, ResyncSteps
<1> HIDE DEF n
<1>7. live \subseteq Pids /\ \A q \in Pids : mode = "up" /\ Dated(q) \in table => q \in live
  BY DEF DenyTypes, Dated
<1> HIDE DEF live
<1>8. /\ \A v \in views : v.pid \in Pids /\ v = Viewed(v.pid)
      /\ \A q \in live : Readable(q) => Viewed(q) \in views
  BY <1>7 DEF Viewed
<1> HIDE DEF views
<1>9. ResyncRight'
  <2>1. \A p \in Pids : Viewed(p) \in [pid : Pids, exe : Names \cup {Unknown}, born : 0..births]
    BY DEF Viewed, DenyTypes
  <2>2. views \subseteq [pid : Pids, exe : Names \cup {Unknown}, born : 0..births]
    BY <1>8, <2>1
  <2>3. ResyncTypes(runner["edit"])' /\ ResyncSteps(runner["edit"])' /\ ClearRight(runner["edit"])'
    BY <1>1, <1>2, <1>3, <1>6, <2>2 DEF ResyncTypes, ResyncSteps, ClearRight
  <2>4. ViewRight(runner["edit"])'
    BY <1>1, <1>2, <1>3, <1>8 DEF ViewRight, Viewed
  <2> QED
    BY <1>3, <2>3, <2>4 DEF ResyncRight
<1>10. OwedComes'
  <2>1. ASSUME mode = "up", NEW q \in Pids, Refused(q), Dated(q) \in table PROVE Coming(q)'
    <3>1. Viewed(q) \in views
      BY <2>1, <1>7, <1>8 DEF Refused, Readable
    <3> QED
      BY <2>1, <3>1, <1>1, <1>2, <1>3 DEF Coming, Viewed
  <2> QED
    BY <2>1, <1>1, <1>4, ResyncOwes
<1> QED
  BY <1>5, <1>9, <1>10

LEMMA DecideKeeps == ASSUME InstallInv, ResyncDecide("edit") PROVE InstallInv'
<1> USE DEF InstallInv
<1> DEFINE n == runner["edit"]
           dated == Redated(n.view)
           refuse == {v.pid : v \in {x \in dated : Denies(rules, x.exe)}}
           spare == {v.pid : v \in {x \in dated : ~Denies(rules, x.exe)}}
           m == [n EXCEPT !.pc = "write", !.view = {}, !.deny = refuse, !.clear = spare]
<1>1. /\ UNCHANGED <<proc, births, attached, mode, rules, execRing, execTask, table, verdicts>>
      /\ lost \subseteq lost'
      /\ n.pc = "decide" /\ runner' = [runner EXCEPT !["edit"] = m]
  BY DEF ResyncDecide, RunnerStep, machine, pins
<1>2. /\ DOMAIN m = NodeFields /\ m.pc = "write" /\ m.view = {} /\ m.deny = refuse /\ m.clear = spare
      /\ m.orphans = n.orphans /\ m.doomed = n.doomed
  BY DEF DenyTypes, Runners, NodeFields
<1> HIDE DEF m
<1>3. runner'["edit"] = m
  BY <1>1, NodeFrame
<1>4. ResyncTouches
  BY <1>1, <1>2 DEF ResyncTouches
<1>5. DenyTypes' /\ ComingUp' /\ JudgedRight'
  BY <1>1, <1>4, ResyncFrame DEF DenyTypes
<1>6. n.orphans = {} /\ n.doomed = {}
  BY <1>1 DEF ResyncRight, ResyncSteps
<1>7. /\ n.view \subseteq [pid : Pids, exe : Names \cup {Unknown}, born : 0..births]
      /\ \A v, w \in n.view : v.pid = w.pid => v = w
      /\ \A v \in n.view : v.born = proc[v.pid].born => v.exe = proc[v.pid].exe
  BY DEF ResyncRight, ResyncTypes, ViewRight
<1> HIDE DEF n
<1>8. /\ dated \subseteq n.view
      /\ \A v \in dated : proc[v.pid].st = "live" => v.exe = proc[v.pid].exe
      /\ \A v \in n.view : proc[v.pid].st = "live" /\ v.born = proc[v.pid].born => v \in dated
  BY <1>7 DEF Redated, StartTime
<1> HIDE DEF dated
<1>9. refuse \subseteq Pids /\ spare \subseteq Pids /\ refuse \cap spare = {}
  BY <1>7, <1>8
<1>10. \A p \in spare : ~Refused(p)
  BY <1>8 DEF Refused
<1>11. \A q \in Pids : Refused(q) /\ Viewed(q) \in n.view => q \in refuse
  BY <1>8 DEF Refused, Viewed
<1> HIDE DEF refuse, spare
<1>12. ResyncRight'
  <2>1. ResyncTypes(runner["edit"])' /\ ResyncSteps(runner["edit"])' /\ ViewRight(runner["edit"])'
    BY <1>2, <1>3, <1>6, <1>9 DEF ResyncTypes, ResyncSteps, ViewRight
  <2>2. ClearRight(runner["edit"])'
    BY <1>1, <1>2, <1>3, <1>6, <1>9, <1>10 DEF ClearRight, Refused
  <2> QED
    BY <2>1, <2>2 DEF ResyncRight
<1>13. OwedComes'
  <2>1. ASSUME mode = "up", NEW q \in Pids \ (verdicts \cup lost), Refused(q), Dated(q) \in table,
               q \notin ToSet(execRing), execTask.pid # q
        PROVE  Coming(q)'
    <3>1. Viewed(q) \in n.view
      BY <2>1, <1>1 DEF OwedComes, Consuming, Coming, n
    <3>2. q \in refuse
      BY <2>1, <3>1, <1>11
    <3> QED
      BY <2>1, <3>2, <1>1, <1>2, <1>3 DEF Coming
  <2>2. verdicts' = verdicts
    BY <1>1
  <2> QED
    BY <2>1, <2>2, <1>1, <1>4, ResyncOwes
<1> QED
  BY <1>5, <1>12, <1>13

LEMMA WriteKeeps == ASSUME InstallInv, ResyncWrite("edit") PROVE InstallInv'
<1> USE DEF InstallInv
<1> DEFINE n == runner["edit"]
           m == [n EXCEPT !.pc = "orphans", !.deny = {}, !.clear = {}]
<1>1. /\ UNCHANGED <<proc, births, attached, mode, rules, execRing, execTask, table, lost>>
      /\ verdicts' = (verdicts \cup n.deny) \ n.clear
      /\ n.pc = "write" /\ runner' = [runner EXCEPT !["edit"] = m]
  BY DEF ResyncWrite, RunnerStep, machine, pins
<1>2. /\ DOMAIN m = NodeFields /\ m.pc = "orphans" /\ m.deny = {} /\ m.clear = {}
      /\ m.view = n.view /\ m.orphans = n.orphans /\ m.doomed = n.doomed
  BY DEF DenyTypes, Runners, NodeFields
<1> HIDE DEF m
<1>3. runner'["edit"] = m
  BY <1>1, NodeFrame
<1>4. ResyncTouches
  BY <1>1, <1>2 DEF ResyncTouches
<1>5. n.deny \subseteq Pids /\ n.deny \cap n.clear = {} /\ \A p \in n.clear : ~Refused(p)
  BY DEF ResyncRight, ResyncTypes, ClearRight
<1>6. DenyTypes' /\ ComingUp' /\ JudgedRight'
  BY <1>1, <1>4, <1>5, ResyncFrame DEF DenyTypes
<1>7. n.view = {} /\ n.orphans = {} /\ n.doomed = {}
  BY <1>1 DEF ResyncRight, ResyncSteps
<1> HIDE DEF n
<1>8. ResyncRight'
  BY <1>2, <1>3, <1>7 DEF ResyncRight, ResyncTypes, ResyncSteps, ViewRight, ClearRight
<1>9. OwedComes'
  <2>1. ASSUME mode = "up", NEW q \in Pids \ (verdicts' \cup lost), Refused(q), Dated(q) \in table,
               q \notin ToSet(execRing), execTask.pid # q
        PROVE  FALSE
    <3>1. q \notin verdicts /\ q \notin n.deny
      BY <2>1, <1>1, <1>5
    <3> QED
      BY <2>1, <3>1, <1>1 DEF OwedComes, Consuming, Coming, n
  <2>2. \A q \in verdicts \ verdicts' : ~Refused(q)
    BY <1>1, <1>5
  <2> QED
    BY <2>1, <2>2, <1>1, <1>4, ResyncOwes
<1> QED
  BY <1>6, <1>8, <1>9

LEMMA OrphansKeep == ASSUME InstallInv, ResyncOrphans("edit") PROVE InstallInv'
<1> USE DEF InstallInv
<1> DEFINE n == runner["edit"]
           m == [n EXCEPT !.pc = "judge", !.known = {}, !.orphans = verdicts \ n.known]
<1>1. /\ UNCHANGED <<proc, births, attached, mode, rules, execRing, execTask, table, lost, verdicts>>
      /\ n.pc = "orphans" /\ runner' = [runner EXCEPT !["edit"] = m]
  BY DEF ResyncOrphans, RunnerStep, machine, pins
<1>2. /\ DOMAIN m = NodeFields /\ m.pc = "judge" /\ m.orphans = verdicts \ n.known
      /\ m.deny = n.deny /\ m.clear = n.clear /\ m.view = n.view /\ m.doomed = n.doomed
  BY DEF DenyTypes, Runners, NodeFields
<1> HIDE DEF m
<1>3. runner'["edit"] = m
  BY <1>1, NodeFrame
<1>4. ResyncTouches
  BY <1>1, <1>2 DEF ResyncTouches
<1>5. DenyTypes' /\ ComingUp' /\ JudgedRight'
  BY <1>1, <1>4, ResyncFrame DEF DenyTypes
<1>6. n.view = {} /\ n.deny = {} /\ n.doomed = {} /\ n.clear = {} /\ m.orphans \subseteq Pids
  BY <1>1, <1>2 DEF ResyncRight, ResyncSteps, DenyTypes
<1> HIDE DEF n
<1>7. ResyncRight'
  BY <1>2, <1>3, <1>6 DEF ResyncRight, ResyncTypes, ResyncSteps, ViewRight, ClearRight
<1>8. OwedComes'
  <2>1. ASSUME mode = "up", NEW q \in Pids \ (verdicts \cup lost), Refused(q), Dated(q) \in table
        PROVE  q \in ToSet(execRing) \/ execTask.pid = q
    BY <2>1, <1>1 DEF OwedComes, Consuming, Coming, n
  <2>2. verdicts' = verdicts
    BY <1>1
  <2> QED
    BY <2>1, <2>2, <1>1, <1>4, ResyncOwes
<1> QED
  BY <1>5, <1>7, <1>8

\* In the second half of a run nothing owed waits for it any more.
LEMMA LateOwes ==
  ASSUME InstallInv, ResyncTouches,
         runner["edit"].pc \in {"judge", "redate", "clear"},
         Consuming => \A q \in Pids : q \in verdicts \ verdicts' => ~Refused(q)
  PROVE  OwedComes'
<1> USE DEF InstallInv
<1>1. ASSUME mode = "up", NEW q \in Pids \ (verdicts' \cup lost'), Refused(q), Dated(q) \in table
      PROVE  q \in ToSet(execRing) \/ execTask.pid = q
  <2>1. Consuming
    BY <1>1 DEF Consuming
  <2>2. q \notin verdicts /\ q \notin lost
    BY <1>1, <2>1 DEF ResyncTouches
  <2>3. Coming(q)
    BY <1>1, <2>1, <2>2 DEF OwedComes
  <2> QED
    BY <2>3 DEF Coming
<1> QED
  BY <1>1, ResyncOwes

LEMMA JudgeKeeps == ASSUME InstallInv, ResyncJudge("edit") PROVE InstallInv'
<1> USE DEF InstallInv
<1> DEFINE n == runner["edit"]
           Seen(p) == [pid |-> p, born |-> IF Readable(p) THEN proc[p].born ELSE Gone]
           free == {p \in n.orphans : ~(Readable(p) /\ Denies(rules, proc[p].exe))}
           doomed == {Seen(p) : p \in free}
           m == [n EXCEPT !.pc = "redate", !.orphans = {}, !.doomed = doomed]
<1>1. /\ UNCHANGED <<proc, births, attached, mode, rules, execRing, execTask, table, lost, verdicts>>
      /\ n.pc = "judge" /\ runner' = [runner EXCEPT !["edit"] = m]
  BY DEF ResyncJudge, RunnerStep, machine, pins
<1>2. /\ DOMAIN m = NodeFields /\ m.pc = "redate" /\ m.orphans = {} /\ m.doomed = doomed
      /\ m.deny = n.deny /\ m.clear = n.clear /\ m.view = n.view
  BY DEF DenyTypes, Runners, NodeFields
<1> HIDE DEF m
<1>3. runner'["edit"] = m
  BY <1>1, NodeFrame
<1>4. ResyncTouches
  BY <1>1, <1>2 DEF ResyncTouches
<1>5. DenyTypes' /\ ComingUp' /\ JudgedRight'
  BY <1>1, <1>4, ResyncFrame DEF DenyTypes
<1>6. n.view = {} /\ n.deny = {} /\ n.clear = {} /\ n.orphans \subseteq Pids
  BY <1>1 DEF ResyncRight, ResyncSteps, ResyncTypes
<1>7. \A p \in free : p \in Pids /\ ~Refused(p)
  BY <1>6 DEF Refused, Readable
<1> HIDE DEF n, free
<1>8. \A d \in doomed : /\ d \in [pid : Pids, born : 0..births] /\ ~Refused(d.pid)
                        /\ d.born = Gone => proc[d.pid].st # "live"
  BY <1>7 DEF Readable, DenyTypes, Gone
<1> HIDE DEF doomed
<1>9. ResyncRight'
  <2>1. ResyncTypes(runner["edit"])' /\ ResyncSteps(runner["edit"])' /\ ViewRight(runner["edit"])'
    BY <1>1, <1>2, <1>3, <1>6, <1>8 DEF ResyncTypes, ResyncSteps, ViewRight
  <2>2. ClearRight(runner["edit"])'
    BY <1>1, <1>2, <1>3, <1>6, <1>8 DEF ClearRight, Refused
  <2> QED
    BY <2>1, <2>2 DEF ResyncRight
<1>10. OwedComes'
  BY <1>1, <1>4, LateOwes DEF n
<1> QED
  BY <1>5, <1>9, <1>10

LEMMA RedateKeeps == ASSUME InstallInv, ResyncRedate("edit") PROVE InstallInv'
<1> USE DEF InstallInv
<1> DEFINE n == runner["edit"]
           away == Clearable(n.doomed)
           m == [n EXCEPT !.pc = "clear", !.doomed = {}, !.clear = away]
<1>1. /\ UNCHANGED <<proc, births, attached, mode, rules, execRing, execTask, table, verdicts>>
      /\ lost \subseteq lost'
      /\ n.pc = "redate" /\ runner' = [runner EXCEPT !["edit"] = m]
  BY DEF ResyncRedate, RunnerStep, machine, pins
<1>2. /\ DOMAIN m = NodeFields /\ m.pc = "clear" /\ m.doomed = {} /\ m.clear = away
      /\ m.deny = n.deny /\ m.view = n.view /\ m.orphans = n.orphans
  BY DEF DenyTypes, Runners, NodeFields
<1> HIDE DEF m
<1>3. runner'["edit"] = m
  BY <1>1, NodeFrame
<1>4. ResyncTouches
  BY <1>1, <1>2 DEF ResyncTouches
<1>5. DenyTypes' /\ ComingUp' /\ JudgedRight'
  BY <1>1, <1>4, ResyncFrame DEF DenyTypes
<1>6. /\ n.view = {} /\ n.deny = {} /\ n.orphans = {}
      /\ n.doomed \subseteq [pid : Pids, born : 0..births]
      /\ \A d \in n.doomed : /\ d.born = Gone => proc[d.pid].st # "live"
                             /\ d.born = proc[d.pid].born => ~Refused(d.pid)
  BY <1>1 DEF ResyncRight, ResyncSteps, ResyncTypes, ClearRight
<1> HIDE DEF n
<1>7. away \subseteq Pids /\ \A p \in away : ~Refused(p)
  <2> SUFFICES ASSUME NEW d \in n.doomed, StartTime(d.pid) \in {Gone, d.born}
               PROVE  d.pid \in Pids /\ ~Refused(d.pid)
    BY DEF Clearable
  <2>1. d.pid \in Pids
    BY <1>6
  <2>2. CASE proc[d.pid].st # "live"
    BY <2>1, <2>2 DEF Refused
  <2>3. CASE proc[d.pid].st = "live"
    BY <2>1, <2>3, <1>6 DEF StartTime, DenyTypes
  <2> QED
    BY <2>1, <2>2, <2>3
<1> HIDE DEF away
<1>8. ResyncRight'
  <2>1. ResyncTypes(runner["edit"])' /\ ResyncSteps(runner["edit"])' /\ ViewRight(runner["edit"])'
    BY <1>1, <1>2, <1>3, <1>6, <1>7 DEF ResyncTypes, ResyncSteps, ViewRight
  <2>2. ClearRight(runner["edit"])'
    BY <1>1, <1>2, <1>3, <1>6, <1>7 DEF ClearRight, Refused
  <2> QED
    BY <2>1, <2>2 DEF ResyncRight
<1>9. OwedComes'
  BY <1>1, <1>4, LateOwes DEF n
<1> QED
  BY <1>5, <1>8, <1>9

LEMMA ClearKeeps == ASSUME InstallInv, ResyncClear("edit") PROVE InstallInv'
<1> USE DEF InstallInv
<1> DEFINE n == runner["edit"]
<1>1. /\ UNCHANGED <<proc, births, attached, mode, rules, execRing, execTask, table, lost>>
      /\ verdicts' = verdicts \ n.clear
      /\ n.pc = "clear" /\ runner' = [runner EXCEPT !["edit"] = Idle]
  BY DEF ResyncClear, RunnerStep, machine, pins
<1>2. DOMAIN Idle = NodeFields
  BY DEF Idle, NodeFields
<1>3. runner'["edit"] = Idle
  BY <1>1, NodeFrame
<1>4. ResyncTouches
  BY <1>1, <1>2 DEF ResyncTouches
<1>5. DenyTypes' /\ ComingUp' /\ JudgedRight'
  BY <1>1, <1>4, ResyncFrame DEF DenyTypes
<1>6. ResyncRight'
  BY <1>3 DEF ResyncRight, ResyncTypes, ResyncSteps, ViewRight, ClearRight, Idle
<1>7. OwedComes'
  <2>1. \A q \in verdicts \ verdicts' : ~Refused(q)
    BY <1>1 DEF ResyncRight, ClearRight
  <2> QED
    BY <2>1, <1>1, <1>4, LateOwes DEF n
<1> QED
  BY <1>5, <1>6, <1>7

\* The resync of a start runs before the consumers do, so over an empty table.
LEMMA StartResyncKeeps == ASSUME InstallInv, Resync("start") PROVE InstallInv'
<1> USE DEF InstallInv
<1>1. /\ UNCHANGED <<proc, births, attached, mode, rules, execRing, execTask, table>>
      /\ runner["start"].pc # "idle"
  BY DEF Resync, ResyncCompile, ResyncView, ResyncDecide, ResyncWrite, ResyncOrphans, ResyncJudge,
         ResyncRedate, ResyncClear, machine, pins
<1>2. ~Consuming
  BY <1>1 DEF ComingUp
<1>3. \E m : /\ runner' = [runner EXCEPT !["start"] = m]
             /\ DOMAIN m = NodeFields /\ m.view = {} /\ m.deny = {} /\ verdicts' \subseteq Pids
  <2> DEFINE n == runner["start"]
             Good(m) == DOMAIN m = NodeFields /\ m.view = {} /\ m.deny = {}
  <2>1. Good(n) /\ verdicts \subseteq Pids
    BY DEF DenyTypes, ComingUp, Runners
  <2>2. SUFFICES verdicts' \subseteq Pids /\ \E m : RunnerStep("start", m) /\ Good(m)
    BY DEF RunnerStep
  <2> HIDE DEF n, InstallInv
  <2>3. CASE ResyncCompile("start")
    <3> DEFINE m == [n EXCEPT !.pc = "view"]
    <3>1. RunnerStep("start", m) /\ verdicts' = verdicts
      BY <2>1, <2>3 DEF ResyncCompile, n
    <3>2. Good(m)
      BY <2>1 DEF NodeFields
    <3> QED
      BY <2>1, <3>1, <3>2
  <2>4. CASE ResyncView("start")
    <3> DEFINE m == [n EXCEPT !.pc = "decide", !.known = {}, !.view = {}]
    <3>1. mode # "up"
      BY <1>2 DEF Consuming
    <3>2. RunnerStep("start", m) /\ verdicts' = verdicts
      BY <2>4, <3>1 DEF ResyncView, n, pins
    <3>3. Good(m)
      BY <2>1 DEF NodeFields
    <3> QED
      BY <2>1, <3>2, <3>3
  <2>5. CASE ResyncDecide("start")
    <3> DEFINE m == [n EXCEPT !.pc = "write", !.view = {}, !.deny = {}, !.clear = {}]
    <3>1. Redated(n.view) = {}
      BY <2>1 DEF Redated
    <3>2. RunnerStep("start", m) /\ verdicts' = verdicts
      BY <2>5, <3>1 DEF ResyncDecide, n, pins
    <3>3. Good(m)
      BY <2>1 DEF NodeFields
    <3> QED
      BY <2>1, <3>2, <3>3
  <2>6. CASE ResyncWrite("start")
    <3> DEFINE m == [n EXCEPT !.pc = "orphans", !.deny = {}, !.clear = {}]
    <3>1. RunnerStep("start", m) /\ verdicts' \subseteq Pids
      BY <2>1, <2>6 DEF ResyncWrite, n
    <3>2. Good(m)
      BY <2>1 DEF NodeFields
    <3> QED
      BY <2>1, <3>1, <3>2
  <2>7. CASE ResyncOrphans("start")
    <3> DEFINE m == [n EXCEPT !.pc = "judge", !.known = {}, !.orphans = verdicts \ n.known]
    <3>1. RunnerStep("start", m) /\ verdicts' = verdicts
      BY <2>1, <2>7 DEF ResyncOrphans, n, pins
    <3>2. Good(m)
      BY <2>1 DEF NodeFields
    <3> QED
      BY <2>1, <3>1, <3>2
  <2>8. CASE ResyncJudge("start")
    <3>1. PICK doomed : /\ RunnerStep("start", [n EXCEPT !.pc = "redate", !.orphans = {}, !.doomed = doomed])
                        /\ verdicts' = verdicts
      BY <2>8 DEF ResyncJudge, n, pins
    <3>2. Good([n EXCEPT !.pc = "redate", !.orphans = {}, !.doomed = doomed])
      BY <2>1 DEF NodeFields
    <3> QED
      BY <2>1, <3>1, <3>2
  <2>9. CASE ResyncRedate("start")
    <3> DEFINE m == [n EXCEPT !.pc = "clear", !.doomed = {}, !.clear = Clearable(n.doomed)]
    <3>1. RunnerStep("start", m) /\ verdicts' = verdicts
      BY <2>1, <2>9 DEF ResyncRedate, n, pins
    <3>2. Good(m)
      BY <2>1 DEF NodeFields
    <3> QED
      BY <2>1, <3>1, <3>2
  <2>10. CASE ResyncClear("start")
    <3>1. RunnerStep("start", Idle) /\ verdicts' \subseteq Pids
      BY <2>1, <2>10 DEF ResyncClear
    <3>2. Good(Idle)
      BY DEF Idle, NodeFields
    <3> QED
      BY <3>1, <3>2
  <2> QED
    BY <2>3, <2>4, <2>5, <2>6, <2>7, <2>8, <2>9, <2>10 DEF Resync
<1>4. /\ DOMAIN runner' = Runners /\ \A r \in Runners : DOMAIN runner'[r] = NodeFields
      /\ runner'["edit"] = runner["edit"] /\ verdicts' \subseteq Pids
      /\ runner'["start"].view = {} /\ runner'["start"].deny = {}
  BY <1>3 DEF DenyTypes, Runners
<1>5. DenyTypes'
  BY <1>1, <1>4 DEF DenyTypes
<1>6. ComingUp' /\ OwedComes'
  BY <1>1, <1>2, <1>4 DEF ComingUp, Consuming, OwedComes
<1>7. ResyncRight'
  BY <1>1, <1>4 DEF ResyncRight, ResyncTypes, ResyncSteps, ViewRight, ClearRight, Refused
<1>8. JudgedRight'
  BY <1>1, <1>2 DEF ComingUp, JudgedRight
<1> QED
  BY <1>5, <1>6, <1>7, <1>8

LEMMA InstallKept ==
  ASSUME InstallInv, Windows \subseteq {"exit"}, [DenyNext]_denyVars
  PROVE  InstallInv'
<1>1. CASE Machine
  BY <1>1, SpawnKeeps, ExecKeeps, LeavingKeeps DEF Machine
<1>2. CASE DropStalePins \/ AttachTracepoints \/ Sweep \/ SpawnConsumers \/ SetLive
  BY <1>2, ComingUpKeeps
<1>3. CASE DaemonDies
  BY <1>3, DeathKeeps
<1>4. CASE \E rs \in RuleSets : RuleChange(rs)
  BY <1>4, RuleChangeKeeps
<1>5. CASE \E r \in Runners : Resync(r)
  BY <1>5, StartResyncKeeps, CompileKeeps, ViewKeeps, DecideKeeps, WriteKeeps, OrphansKeep, JudgeKeeps,
     RedateKeeps, ClearKeeps DEF Runners, Resync
<1>6. CASE ExecTake \/ OnExecJudge \/ OnExecWrite
  BY <1>6, ExecTakeKeeps, ExecJudgeKeeps, ExecWriteKeeps
<1>7. CASE \/ ExitTake \/ ExitEvict \/ RecheckTick \/ RecheckLook \/ RecheckEvict \/ Requeue
           \/ \E p \in Pids : ExpireRecord(p)
  BY <1>7, ExitSideKeeps
<1>8. CASE UNCHANGED denyVars
  BY <1>8, TakingKeeps DEF denyVars, machine, pins, threads
<1> QED
  BY <1>1, <1>2, <1>3, <1>4, <1>5, <1>6, <1>7, <1>8 DEF DenyNext, Daemon

\* DenyInstalled (VerdictSink::on_exec, resync): a running process with a fresh exec
\* record whose image the rules refuse is refused in the kernel once the daemon is
\* quiet about it, also when the rule came after it started, through crashes,
\* restarts, pid reuse and full rings, as long as no exec, reuse or edit falls into
\* one of the windows the code leaves open.
THEOREM DenyInstalledHolds ==
  ASSUME Windows \subseteq {"exit"} PROVE DenySpec => []DenyInstalled
<1>1. InstallInv => DenyInstalled
  <2> SUFFICES ASSUME InstallInv, NEW p \in Pids \ lost, QuietFor(p), Refused(p), Dated(p) \in table
               PROVE  p \in verdicts
    BY DEF DenyInstalled, Refused, Dated
  <2>1. /\ Consuming /\ runner["edit"].pc = "idle" /\ p \notin ToSet(execRing) /\ p # execTask.pid
    BY DEF QuietFor, Settled, Consuming, Runners
  <2> QED
    BY <2>1 DEF InstallInv, OwedComes, Coming
<1> QED
  BY <1>1, InstallStarts, InstallKept, PTL DEF DenySpec

(* The refusals the kernel is not given any more.                          *)

Candidate == [pid : Pids, born : Nat]
Early == mode \in {"down", "attach", "sweep"}
Waiting == ToSet(exitRing) \cup {c.pid : c \in Candidates}

\* What will still take the entry of p away: the exit side of the daemon,
Leaving(p) == p \in Waiting \/ Evicting(p)
\* the exec consumer,
Judging(p) == p \in ToSet(execRing) \/ execTask.pid = p
\* or the resync r, if the rules do not refuse p.
Resynced(r, p) ==
  LET n == runner[r] IN
  \/ n.pc \in {"wait", "view"}
  \/ n.pc \in {"decide", "write", "orphans"} /\ p \notin n.known
  \/ n.pc = "decide" /\ proc[p].st = "live" /\ Viewed(p) \in n.view
  \/ n.pc \in {"write", "clear"} /\ p \in n.clear
  \/ n.pc = "judge" /\ p \in n.orphans
  \/ n.pc = "redate" /\ [pid |-> p, born |-> IF proc[p].st = "live" THEN proc[p].born ELSE Gone] \in n.doomed

LeaveTypes ==
  /\ exitRing \in Seq(Pids) /\ pending \in Seq(Candidate)
  /\ DOMAIN recheck = {"pc", "pid", "taken", "waiting"}
  /\ recheck.taken \in Seq(Candidate) /\ recheck.waiting \in Seq(Candidate)
  /\ exitTask.pc = "idle" => exitTask.pid = 0
  /\ recheck.pc # "evict" => recheck.pid = 0
  /\ recheck.pc = "idle" => recheck.taken = <<>>
  /\ rules \in RuleSets /\ runner["start"].known = {}

\* Where the kernel does not evict by itself, whoever waits for the exit side is
\* dead, and no other process has its pid.
ExitRight == ~groupDead =>
  /\ \A p \in Waiting : proc[p].st # "live"
  /\ \A c \in Candidates : c.born = proc[c.pid].born
DenyRight == \A p \in runner["edit"].deny \ lost : Refused(p)
WriteRight ==
  LET p == execTask.pid IN
  execTask.pc = "write" /\ execTask.deny =>
    proc[p].st = "live" /\ (Denies(rules, proc[p].exe) \/ p \in ToSet(execRing) \cup lost)
DeadLeave == ~Early =>
  \A p \in verdicts \ lost : proc[p].st # "live" => (~groupDead /\ Leaving(p)) \/ Resynced("start", p)
SparedLeave == ~Early =>
  \A p \in verdicts \ lost : proc[p].st = "live" /\ ~Denies(rules, proc[p].exe) =>
    Judging(p) \/ \E r \in Runners : Resynced(r, p)

LeaveInv == LeaveTypes /\ ExitRight /\ DenyRight /\ WriteRight /\ DeadLeave /\ SparedLeave

LEMMA QueueSays ==
  ASSUME NEW s \in Seq(Candidate), NEW t \in Seq(Candidate)
  PROVE  /\ s \o t \in Seq(Candidate) /\ ToSet(s \o t) = ToSet(s) \cup ToSet(t)
         /\ Newest(s) \in Seq(Candidate) /\ ToSet(Newest(s)) \subseteq ToSet(s)
<1>1. /\ DOMAIN s = 1..Len(s) /\ Len(s) \in Nat /\ DOMAIN t = 1..Len(t) /\ Len(t) \in Nat
  OBVIOUS
<1>2. /\ s \o t \in Seq(Candidate) /\ DOMAIN (s \o t) = 1..(Len(s) + Len(t))
      /\ \A i \in 1..Len(s) : (s \o t)[i] = s[i]
      /\ \A i \in 1..(Len(s) + Len(t)) : i > Len(s) => (s \o t)[i] = t[i - Len(s)]
  BY <1>1, ConcatProperties
<1>3. ToSet(s \o t) = ToSet(s) \cup ToSet(t)
  <2>1. ASSUME NEW i \in 1..Len(t) PROVE t[i] \in ToSet(s \o t)
    <3>1. Len(s) + i \in 1..(Len(s) + Len(t)) /\ (s \o t)[Len(s) + i] = t[i]
      BY <1>1, <1>2
    <3> QED
      BY <3>1, <1>2 DEF ToSet
  <2>2. ASSUME NEW i \in 1..Len(s) PROVE s[i] \in ToSet(s \o t)
    BY <1>1, <1>2 DEF ToSet
  <2>3. ASSUME NEW i \in 1..(Len(s) + Len(t)) PROVE (s \o t)[i] \in ToSet(s) \cup ToSet(t)
    <3>1. CASE i <= Len(s)
      BY <3>1, <1>1, <1>2 DEF ToSet
    <3>2. CASE i > Len(s)
      BY <3>2, <1>1, <1>2 DEF ToSet
    <3> QED
      BY <1>1, <3>1, <3>2
  <2> QED
    BY <1>1, <1>2, <2>1, <2>2, <2>3, ZenonT(60) DEF ToSet
<1>4. Newest(s) \in Seq(Candidate) /\ ToSet(Newest(s)) \subseteq ToSet(s)
  <2> DEFINE first == IF Len(s) > PendingCap THEN Len(s) - PendingCap + 1 ELSE 1
  <2>1. first \in Nat \ {0} /\ first <= Len(s) + 1
    BY <1>1, ConstantsAssumption, SMTT(30), ZenonT(30)
  <2>2. Newest(s) = SubSeq(s, first, Len(s))
    BY DEF Newest
  <2> HIDE DEF first
  <2>3. /\ Newest(s) \in Seq(Candidate) /\ DOMAIN Newest(s) = 1..(Len(s) - first + 1)
        /\ \A i \in 1..(Len(s) - first + 1) : Newest(s)[i] = s[first + i - 1]
    BY <1>1, <2>1, <2>2, SubSeqProperties
  <2>4. \A i \in 1..(Len(s) - first + 1) : first + i - 1 \in 1..Len(s)
    BY <1>1, <2>1
  <2> QED
    BY <1>1, <2>3, <2>4 DEF ToSet
<1> QED
  BY <1>2, <1>3, <1>4

\* Steps that move no process and change no rule: every entry they leave is right,
\* or was there before and what will take it away is still to come.
LEMMA LeaveFrame ==
  ASSUME InstallInv, InstallInv', LeaveInv, UNCHANGED <<groupDead, proc, rules>>, Early => Early',
         \A p \in Pids : p \in verdicts' \ lost' =>
           \/ proc[p].st = "live" /\ (Denies(rules, proc[p].exe) \/ Judging(p)')
           \/ /\ p \in verdicts \ lost
              /\ ~groupDead /\ Leaving(p) => Leaving(p)'
              /\ Judging(p) => Judging(p)'
              /\ \A r \in Runners :
                   ~Refused(p) /\ (proc[p].st = "live" \/ r = "start") /\ Resynced(r, p) => Resynced(r, p)'
  PROVE  DeadLeave' /\ SparedLeave'
<1> USE DEF LeaveInv
<1>1. verdicts' \subseteq Pids
  BY DEF InstallInv, DenyTypes
<1>2. DeadLeave'
  <2> SUFFICES ASSUME ~Early', NEW p \in Pids, p \in verdicts' \ lost', proc[p].st # "live"
               PROVE  (~groupDead /\ Leaving(p)') \/ Resynced("start", p)'
    BY <1>1 DEF DeadLeave
  <2>1. (~groupDead /\ Leaving(p)) \/ Resynced("start", p)
    BY DEF DeadLeave
  <2> QED
    BY <2>1 DEF Refused, Runners
<1>3. SparedLeave'
  <2> SUFFICES ASSUME ~Early', NEW p \in Pids, p \in verdicts' \ lost', proc[p].st = "live",
                      ~Denies(rules, proc[p].exe)
               PROVE  Judging(p)' \/ \E r \in Runners : Resynced(r, p)'
    BY <1>1 DEF SparedLeave
  <2>1. CASE Judging(p)'
    BY <2>1
  <2>2. CASE ~Judging(p)'
    <3>1. p \in verdicts \ lost /\ ~Judging(p) /\ ~Early
      BY <2>2
    <3>2. PICK r \in Runners : Resynced(r, p)
      BY <3>1 DEF SparedLeave
    <3> QED
      BY <3>1, <3>2, <2>2 DEF Refused
  <2> QED
    BY <2>1, <2>2
<1> QED
  BY <1>2, <1>3

LEMMA LeaveStarts == DenyInit => LeaveInv
<1> SUFFICES ASSUME DenyInit PROVE LeaveInv
  OBVIOUS
<1>1. /\ exitRing = <<>> /\ pending = <<>> /\ mode = "down" /\ rules \in RuleSets
      /\ recheck = [pc |-> "idle", pid |-> 0, taken |-> <<>>, waiting |-> <<>>]
      /\ runner = [r \in Runners |-> Idle] /\ execTask = [pc |-> "idle", pid |-> 0, deny |-> FALSE]
  BY DEF DenyInit, NoRecheck, NoExec
<1>0. exitTask = [pc |-> "idle", pid |-> 0]
  BY DEF DenyInit, NoExit
<1>2. LeaveTypes
  BY <1>0, <1>1 DEF LeaveTypes, Runners, Idle
<1>3. ToSet(<<>>) = {}
  BY DEF ToSet
<1>4. Waiting = {} /\ Candidates = {}
  BY <1>1, <1>3 DEF Waiting, Candidates
<1>5. ExitRight /\ DenyRight /\ WriteRight /\ DeadLeave /\ SparedLeave
  BY <1>1, <1>4 DEF ExitRight, DenyRight, WriteRight, DeadLeave, SparedLeave, Early, Runners, Idle
<1> QED
  BY <1>2, <1>5 DEF LeaveInv

\* The exit side: it moves what waits along, drops only what is lost or has no
\* entry, and evicts.
LEMMA ExitFrame ==
  ASSUME InstallInv, InstallInv', LeaveInv,
         UNCHANGED <<groupDead, proc, rules, mode, runner, execTask, execRing>>,
         exitRing' \in Seq(Pids), pending' \in Seq(Candidate),
         DOMAIN recheck' = {"pc", "pid", "taken", "waiting"},
         recheck'.taken \in Seq(Candidate), recheck'.waiting \in Seq(Candidate),
         exitTask'.pc = "idle" => exitTask'.pid = 0, recheck'.pc # "evict" => recheck'.pid = 0,
         recheck'.pc = "idle" => recheck'.taken = <<>>,
         Waiting' \subseteq Waiting, lost \subseteq lost', verdicts' \subseteq verdicts,
         ~groupDead => \A c \in Candidates' : c.born = proc[c.pid].born,
         ~groupDead => \A p \in verdicts' \ lost' : Leaving(p) => Leaving(p)'
  PROVE  LeaveInv'
<1> USE DEF LeaveInv
<1>1. LeaveTypes'
  BY DEF LeaveTypes
<1>2. ExitRight'
  BY DEF ExitRight
<1>3. DenyRight' /\ WriteRight'
  BY DEF DenyRight, WriteRight, Refused
<1>4. \A r \in Runners, p \in Pids : Resynced(r, p)' = Resynced(r, p)
  BY DEF Resynced, Viewed
<1>5. \A p \in Pids : Judging(p)' = Judging(p)
  BY DEF Judging
<1>6. (Early => Early') /\ \A p \in verdicts' \ lost' : p \in verdicts \ lost
  BY DEF Early
<1>7. DeadLeave' /\ SparedLeave'
  BY <1>4, <1>5, <1>6, LeaveFrame
<1> QED
  BY <1>1, <1>2, <1>3, <1>7

LEMMA ExitTakeLeaves ==
  ASSUME InstallInv, InstallInv', LeaveInv, ExitTake PROVE LeaveInv'
<1> USE DEF LeaveInv
<1> DEFINE p == Head(exitRing)
           c == [pid |-> p, born |-> StartTime(p)]
           queue == Append(pending, c)
<1>1. /\ UNCHANGED <<groupDead, proc, rules, mode, runner, execTask, execRing, recheck, verdicts>>
      /\ exitTask.pc = "idle" /\ exitRing # <<>> /\ exitRing' = Tail(exitRing)
      /\ \/ /\ GroupIsGone(p) /\ exitTask' = [pc |-> "evict", pid |-> p]
            /\ UNCHANGED <<pending, lost>>
         \/ /\ ~GroupIsGone(p) /\ UNCHANGED exitTask
            /\ pending' = Newest(queue) /\ lost' = lost \cup Forgotten(queue)
  BY DEF ExitTake, machine, pins
<1>2. /\ exitRing' \in Seq(Pids) /\ p \in Pids
      /\ ToSet(exitRing) = ToSet(exitRing') \cup {p}
  BY <1>1, RingSays DEF LeaveTypes
<1>3. c \in Candidate
  BY <1>2 DEF Candidate, StartTime, InstallInv, DenyTypes, Gone
<1>4. queue \in Seq(Candidate) /\ ToSet(queue) = ToSet(pending) \cup {c}
  BY <1>3, RingSays DEF LeaveTypes
<1>5. /\ Newest(queue) \in Seq(Candidate) /\ ToSet(Newest(queue)) \subseteq ToSet(queue)
  BY <1>4, QueueSays
<1>6. pending' \in Seq(Candidate) /\ Candidates' \subseteq Candidates \cup {c}
  BY <1>1, <1>4, <1>5 DEF LeaveTypes, Candidates
<1>7. c.pid = p /\ p \in Waiting /\ ToSet(exitRing') \subseteq ToSet(exitRing)
  BY <1>2 DEF Waiting
<1>8. Waiting' \subseteq Waiting
  BY <1>6, <1>7 DEF Waiting
<1>9. ASSUME ~groupDead, NEW d \in Candidates' PROVE d.born = proc[d.pid].born
  <2>1. CASE d \in Candidates
    BY <2>1, <1>9 DEF ExitRight
  <2>2. CASE d \notin Candidates
    <3>1. d = c /\ ~GroupIsGone(p)
      BY <2>2, <1>1, <1>6 DEF Candidates
    <3>2. proc[p].st # "none"
      BY <3>1 DEF GroupIsGone
    <3> QED
      BY <3>1, <3>2 DEF StartTime
  <2> QED
    BY <2>1, <2>2
<1>10. ASSUME NEW q \in verdicts' \ lost', Leaving(q) PROVE Leaving(q)'
  <2> USE DEF Leaving, Evicting, Waiting
  <2>0. q \in Pids /\ q # 0 /\ q # exitTask.pid /\ recheck' = recheck
    <3>1. exitTask.pid = 0
      BY <1>1 DEF LeaveTypes
    <3>2. q \in Pids
      BY <1>1 DEF InstallInv, DenyTypes
    <3> QED
      BY <3>1, <3>2, <1>1, ConstantsAssumption
  <2>1. CASE q = recheck.pid \/ q \in ToSet(exitRing')
    BY <2>1, <1>1
  <2>2. CASE GroupIsGone(p)
    <3>1. Candidates' = Candidates /\ exitTask'.pid = p
      BY <2>2, <1>1 DEF Candidates
    <3> QED
      BY <3>1, <1>2, <1>10, <2>0, <2>1
  <2>3. CASE ~GroupIsGone(p) /\ ~(q = recheck.pid \/ q \in ToSet(exitRing'))
    <3>1. \/ q = p
          \/ \E d \in Candidates : d.pid = q
      BY <2>0, <2>3, <1>2, <1>10
    <3>2. PICK d \in Candidates \cup {c} : d.pid = q
      BY <3>1, <1>7
    <3>3. CASE d \in ToSet(queue)
      <4>1. d \in ToSet(Newest(queue))
        BY <3>2, <3>3, <1>1, <2>3, <1>10 DEF Forgotten
      <4> QED
        BY <4>1, <3>2, <1>1, <2>3 DEF Candidates
    <3>4. CASE d \notin ToSet(queue)
      BY <3>2, <3>4, <1>4, <1>1 DEF Candidates
    <3> QED
      BY <3>3, <3>4
  <2> QED
    BY <2>1, <2>2, <2>3
<1>11. /\ DOMAIN recheck' = {"pc", "pid", "taken", "waiting"}
       /\ recheck'.taken \in Seq(Candidate) /\ recheck'.waiting \in Seq(Candidate)
       /\ recheck'.pc # "evict" => recheck'.pid = 0
       /\ recheck'.pc = "idle" => recheck'.taken = <<>>
  BY <1>1 DEF LeaveTypes
<1>12. exitTask'.pc = "idle" => exitTask'.pid = 0
  BY <1>1 DEF LeaveTypes
<1>13. lost \subseteq lost' /\ verdicts' \subseteq verdicts
  BY <1>1
<1>14. UNCHANGED <<groupDead, proc, rules, mode, runner, execTask, execRing>>
  BY <1>1
<1> HIDE DEF LeaveInv, p, c, queue
<1> QED
  BY <1>2, <1>6, <1>8, <1>9, <1>10, <1>11, <1>12, <1>13, <1>14, ExitFrame

LEMMA EvictLeaves ==
  ASSUME InstallInv, InstallInv', LeaveInv, ExitEvict \/ RecheckEvict PROVE LeaveInv'
<1> USE DEF LeaveInv
<1>1. /\ UNCHANGED <<groupDead, proc, rules, mode, runner, execTask, execRing, exitRing, pending, lost>>
      /\ \/ /\ verdicts' = verdicts \ {exitTask.pid} /\ UNCHANGED recheck
            /\ exitTask' = [pc |-> "idle", pid |-> 0]
         \/ /\ verdicts' = verdicts \ {recheck.pid} /\ UNCHANGED exitTask
            /\ recheck' = [recheck EXCEPT !.pc = "look", !.pid = 0]
  BY DEF ExitEvict, RecheckEvict, Evict, NoExit, machine
<1>2. /\ DOMAIN recheck' = {"pc", "pid", "taken", "waiting"}
      /\ recheck'.taken = recheck.taken /\ recheck'.waiting = recheck.waiting
      /\ recheck'.pc # "evict" => recheck'.pid = 0
      /\ recheck'.pc = "idle" => recheck'.taken = <<>>
  BY <1>1 DEF LeaveTypes
<1>3. Candidates' = Candidates /\ Waiting' = Waiting
  BY <1>1, <1>2 DEF Candidates, Waiting
<1>4. \A p \in verdicts' \ lost' : Leaving(p) => Leaving(p)'
  <2>1. recheck' = recheck \/ verdicts' = verdicts \ {recheck.pid}
    BY <1>1
  <2>2. exitTask' = exitTask \/ verdicts' = verdicts \ {exitTask.pid}
    BY <1>1
  <2> QED
    BY <1>3, <2>1, <2>2 DEF Leaving, Evicting
<1>5. exitTask'.pc = "idle" => exitTask'.pid = 0
  BY <1>1 DEF LeaveTypes
<1>6. /\ exitRing' \in Seq(Pids) /\ pending' \in Seq(Candidate)
      /\ recheck'.taken \in Seq(Candidate) /\ recheck'.waiting \in Seq(Candidate)
  BY <1>1, <1>2 DEF LeaveTypes
<1>7. ~groupDead => \A c \in Candidates' : c.born = proc[c.pid].born
  BY <1>3 DEF ExitRight
<1>8. Waiting' \subseteq Waiting /\ lost \subseteq lost' /\ verdicts' \subseteq verdicts
  BY <1>1, <1>3
<1>9. UNCHANGED <<groupDead, proc, rules, mode, runner, execTask, execRing>>
  BY <1>1
<1> HIDE DEF LeaveInv
<1> QED
  BY <1>2, <1>4, <1>5, <1>6, <1>7, <1>8, <1>9, ExitFrame

LEMMA RecheckTickLeaves ==
  ASSUME InstallInv, InstallInv', LeaveInv, RecheckTick PROVE LeaveInv'
<1> USE DEF LeaveInv
<1>1. /\ UNCHANGED <<groupDead, proc, rules, mode, runner, execTask, execRing, exitRing, lost, verdicts, exitTask>>
      /\ recheck.pc = "idle" /\ pending' = <<>>
      /\ recheck' = [recheck EXCEPT !.pc = "look", !.taken = pending]
  BY DEF RecheckTick, machine, pins
<1>2. /\ DOMAIN recheck' = {"pc", "pid", "taken", "waiting"} /\ recheck'.pid = recheck.pid
      /\ recheck'.taken = pending /\ recheck'.waiting = recheck.waiting /\ recheck'.pc = "look"
  BY <1>1 DEF LeaveTypes
<1>3. recheck.taken = <<>> /\ ToSet(<<>>) = {}
  BY <1>1 DEF LeaveTypes, ToSet
<1>4. Candidates' = Candidates
  BY <1>1, <1>2, <1>3 DEF Candidates
<1>5. Waiting' = Waiting /\ \A p : Leaving(p)' = Leaving(p)
  BY <1>1, <1>2, <1>4 DEF Waiting, Leaving, Evicting
<1>6. /\ exitRing' \in Seq(Pids) /\ pending' \in Seq(Candidate)
      /\ recheck'.taken \in Seq(Candidate) /\ recheck'.waiting \in Seq(Candidate)
      /\ recheck'.pid = 0
      /\ exitTask'.pc = "idle" => exitTask'.pid = 0
  BY <1>1, <1>2 DEF LeaveTypes
<1>7. ~groupDead => \A c \in Candidates' : c.born = proc[c.pid].born
  BY <1>4 DEF ExitRight
<1>10. UNCHANGED <<groupDead, proc, rules, mode, runner, execTask, execRing>>
  BY <1>1
<1>8. Waiting' \subseteq Waiting /\ lost \subseteq lost' /\ verdicts' \subseteq verdicts
  BY <1>1, <1>5
<1>9. recheck'.pc # "idle" /\ \A p \in verdicts' \ lost' : Leaving(p) => Leaving(p)'
  BY <1>2, <1>5
<1> HIDE DEF LeaveInv
<1> QED
  BY <1>2, <1>6, <1>7, <1>8, <1>9, <1>10, ExitFrame

LEMMA RecheckLookLeaves ==
  ASSUME InstallInv, InstallInv', LeaveInv, RecheckLook PROVE LeaveInv'
<1> USE DEF LeaveInv
<1> DEFINE c == Head(recheck.taken)
           over == GroupIsGone(c.pid)
           kept == ~over /\ Keeps(c)
<1>1. /\ UNCHANGED <<groupDead, proc, rules, mode, runner, execTask, execRing, exitRing, lost, verdicts,
                     exitTask, pending>>
      /\ recheck.pc = "look" /\ recheck.taken # <<>>
      /\ recheck' = [recheck EXCEPT !.taken = Tail(@), !.pc = IF over THEN "evict" ELSE "look",
                                    !.pid = IF over THEN c.pid ELSE 0,
                                    !.waiting = IF kept THEN Append(@, c) ELSE @]
  BY DEF RecheckLook, machine, pins
<1>2. /\ DOMAIN recheck' = {"pc", "pid", "taken", "waiting"} /\ recheck'.taken = Tail(recheck.taken)
      /\ recheck'.pc = (IF over THEN "evict" ELSE "look") /\ recheck'.pid = (IF over THEN c.pid ELSE 0)
      /\ recheck'.waiting = IF kept THEN Append(recheck.waiting, c) ELSE recheck.waiting
  BY <1>1 DEF LeaveTypes
<1>3. /\ Tail(recheck.taken) \in Seq(Candidate) /\ c \in Candidate
      /\ ToSet(recheck.taken) = ToSet(Tail(recheck.taken)) \cup {c}
  BY <1>1, RingSays DEF LeaveTypes
<1>4. /\ Append(recheck.waiting, c) \in Seq(Candidate)
      /\ ToSet(Append(recheck.waiting, c)) = ToSet(recheck.waiting) \cup {c}
  BY <1>3, RingSays DEF LeaveTypes
<1>5. /\ Candidates' \subseteq Candidates /\ Candidates \subseteq Candidates' \cup {c}
      /\ kept => c \in Candidates'
  BY <1>1, <1>2, <1>3, <1>4 DEF Candidates
<1>6. Waiting' \subseteq Waiting
  BY <1>1, <1>5 DEF Waiting
<1>7. ASSUME ~groupDead, NEW p \in verdicts' \ lost', Leaving(p) PROVE Leaving(p)'
  <2>1. CASE p \in ToSet(exitRing) \/ p = exitTask.pid
    BY <2>1, <1>1 DEF Leaving, Evicting, Waiting
  <2>2. CASE \E d \in Candidates' : d.pid = p
    BY <2>2 DEF Leaving, Waiting
  <2>3. CASE p = c.pid
    <3>1. CASE over
      BY <2>3, <3>1, <1>2 DEF Leaving, Evicting
    <3>2. CASE ~over
      <4>1. c \in Candidates /\ c.pid \in Pids
        BY <1>3 DEF Candidates, Candidate
      <4>2. c.born = proc[c.pid].born
        BY <1>7, <4>1 DEF ExitRight
      <4>3. kept
        BY <3>2, <4>2 DEF Keeps, StartTime
      <4> QED
        BY <4>3, <1>5, <2>3 DEF Leaving, Waiting
    <3> QED
      BY <3>1, <3>2
  <2>4. p # recheck.pid
    BY <1>1, ConstantsAssumption DEF LeaveTypes, InstallInv, DenyTypes
  <2> QED
    BY <2>1, <2>2, <2>3, <2>4, <1>5, <1>7 DEF Leaving, Evicting, Waiting
<1>8. /\ exitRing' \in Seq(Pids) /\ pending' \in Seq(Candidate)
      /\ recheck'.taken \in Seq(Candidate) /\ recheck'.waiting \in Seq(Candidate)
      /\ recheck'.pc # "evict" => recheck'.pid = 0
      /\ exitTask'.pc = "idle" => exitTask'.pid = 0
  BY <1>1, <1>2, <1>3, <1>4 DEF LeaveTypes
<1>9. ~groupDead => \A d \in Candidates' : d.born = proc[d.pid].born
  BY <1>5 DEF ExitRight
<1>10. recheck'.pc # "idle"
  BY <1>2
<1> HIDE DEF LeaveInv
<1> QED
  BY <1>1, <1>2, <1>6, <1>7, <1>8, <1>9, <1>10, ExitFrame

LEMMA RequeueLeaves ==
  ASSUME InstallInv, InstallInv', LeaveInv, Requeue PROVE LeaveInv'
<1> USE DEF LeaveInv
<1> DEFINE queue == recheck.waiting \o pending
<1>1. /\ UNCHANGED <<groupDead, proc, rules, mode, runner, execTask, execRing, exitRing, verdicts, exitTask>>
      /\ recheck.pc = "look" /\ recheck.taken = <<>>
      /\ pending' = Newest(queue) /\ lost' = lost \cup Forgotten(queue)
      /\ recheck' = [pc |-> "idle", pid |-> 0, taken |-> <<>>, waiting |-> <<>>]
  BY DEF Requeue, NoRecheck, machine, pins
<1>2. queue \in Seq(Candidate) /\ ToSet(queue) = ToSet(recheck.waiting) \cup ToSet(pending)
  BY QueueSays DEF LeaveTypes
<1>3. Newest(queue) \in Seq(Candidate) /\ ToSet(Newest(queue)) \subseteq ToSet(queue)
  BY <1>2, QueueSays
<1>4. ToSet(<<>>) = {} /\ <<>> \in Seq(Candidate)
  BY DEF ToSet
<1>5. Candidates' = ToSet(Newest(queue)) /\ Candidates = ToSet(queue)
  BY <1>1, <1>2, <1>4 DEF Candidates
<1>6. Waiting' \subseteq Waiting /\ Candidates' \subseteq Candidates
  BY <1>1, <1>3, <1>5 DEF Waiting
<1>7. ASSUME NEW p \in verdicts' \ lost', Leaving(p) PROVE Leaving(p)'
  <2>1. CASE p \in ToSet(exitRing) \/ p = exitTask.pid
    BY <2>1, <1>1 DEF Leaving, Evicting, Waiting
  <2>2. CASE \E d \in Candidates : d.pid = p
    <3>1. PICK d \in ToSet(queue) : d.pid = p
      BY <2>2, <1>5
    <3>2. d \in ToSet(Newest(queue))
      BY <3>1, <1>1, <1>7 DEF Forgotten
    <3> QED
      BY <3>1, <3>2, <1>5 DEF Leaving, Waiting
  <2>3. p # recheck.pid
    BY <1>1, ConstantsAssumption DEF LeaveTypes, InstallInv, DenyTypes
  <2> QED
    BY <2>1, <2>2, <2>3, <1>7 DEF Leaving, Evicting, Waiting
<1>8. /\ exitRing' \in Seq(Pids) /\ pending' \in Seq(Candidate)
      /\ exitTask'.pc = "idle" => exitTask'.pid = 0
  BY <1>1, <1>3 DEF LeaveTypes
<1>9. ~groupDead => \A d \in Candidates' : d.born = proc[d.pid].born
  BY <1>6 DEF ExitRight
<1> HIDE DEF LeaveInv, queue
<1> QED
  BY <1>1, <1>4, <1>6, <1>7, <1>8, <1>9, ExitFrame

\* A step of the resync r.
LEMMA ResyncLeaveFrame ==
  ASSUME InstallInv, InstallInv', LeaveInv, NEW r \in Runners, NEW m, runner' = [runner EXCEPT ![r] = m],
         UNCHANGED <<groupDead, proc, rules, mode, execTask, execRing, exitTask, exitRing, recheck, pending>>,
         lost \subseteq lost', r = "start" => m.known = {},
         r = "edit" => \A p \in m.deny \ lost' : Refused(p),
         \A p \in verdicts' \ lost' :
           \/ Refused(p)
           \/ p \in verdicts /\ (~Refused(p) /\ (proc[p].st = "live" \/ r = "start") /\ Resynced(r, p)
                                 => Resynced(r, p)')
  PROVE  LeaveInv'
<1> USE DEF LeaveInv
<1>1. DOMAIN runner = Runners
  BY DEF InstallInv, DenyTypes
<1>2. /\ \A o \in Runners \ {r} : runner'[o] = runner[o]
      /\ runner'[r] = m
  BY <1>1
<1>3. Candidates' = Candidates /\ Waiting' = Waiting /\ Early' = Early
  BY DEF Candidates, Waiting, Early
<1>4. LeaveTypes'
  <2>1. runner'["start"].known = {}
    BY <1>2 DEF LeaveTypes, Runners
  <2> QED
    BY <2>1 DEF LeaveTypes
<1>5. ExitRight' /\ WriteRight'
  BY <1>3 DEF ExitRight, WriteRight
<1>6. DenyRight'
  <2>1. \A p \in runner'["edit"].deny \ lost' : Refused(p)
    BY <1>2 DEF DenyRight, Runners
  <2> QED
    BY <2>1 DEF DenyRight, Refused
<1>7. \A o \in Runners \ {r}, p \in Pids : Resynced(o, p)' = Resynced(o, p)
  BY <1>2 DEF Resynced, Viewed
<1>8. \A p \in Pids : Leaving(p)' = Leaving(p) /\ Judging(p)' = Judging(p)
  BY <1>3 DEF Leaving, Evicting, Judging
<1>9. DeadLeave' /\ SparedLeave'
  <2> HIDE DEF LeaveInv
  <2>1. \A p \in Pids : p \in verdicts' \ lost' =>
           \/ proc[p].st = "live" /\ (Denies(rules, proc[p].exe) \/ Judging(p)')
           \/ /\ p \in verdicts \ lost
              /\ ~groupDead /\ Leaving(p) => Leaving(p)'
              /\ Judging(p) => Judging(p)'
              /\ \A o \in Runners :
                   ~Refused(p) /\ (proc[p].st = "live" \/ o = "start") /\ Resynced(o, p) => Resynced(o, p)'
    BY <1>7, <1>8 DEF Refused
  <2>2. Early => Early'
    BY <1>3
  <2> QED
    BY <2>1, <2>2, LeaveFrame
<1> QED
  BY <1>4, <1>5, <1>6, <1>9

LEMMA CompileLeaves ==
  ASSUME InstallInv, InstallInv', LeaveInv, NEW r \in Runners, ResyncCompile(r) PROVE LeaveInv'
<1> DEFINE m == [runner[r] EXCEPT !.pc = "view"]
<1>1. /\ UNCHANGED <<groupDead, proc, rules, mode, execTask, execRing, exitTask, exitRing, recheck, pending>>
      /\ verdicts' = verdicts /\ lost' = lost /\ runner' = [runner EXCEPT ![r] = m]
      /\ DOMAIN runner = Runners /\ DOMAIN runner[r] = NodeFields
  BY DEF ResyncCompile, RunnerStep, machine, InstallInv, DenyTypes
<1>2. m.pc = "view" /\ m.known = runner[r].known /\ m.deny = runner[r].deny
  BY <1>1 DEF NodeFields
<1>3. r = "start" => m.known = {}
  BY <1>2 DEF LeaveInv, LeaveTypes
<1>4. r = "edit" => \A p \in m.deny \ lost' : Refused(p)
  BY <1>1, <1>2 DEF LeaveInv, DenyRight
<1>5. runner'[r].pc = "view"
  BY <1>1, <1>2
<1>6. \A p \in Pids : Resynced(r, p)'
  BY <1>5 DEF Resynced
<1>7. verdicts \subseteq Pids
  BY DEF InstallInv, DenyTypes
<1> HIDE DEF m
<1> QED
  BY <1>1, <1>3, <1>4, <1>6, <1>7, ResyncLeaveFrame

LEMMA ViewLeaves ==
  ASSUME InstallInv, InstallInv', LeaveInv, NEW r \in Runners, ResyncView(r) PROVE LeaveInv'
<1> DEFINE live == IF mode = "up" THEN {t.pid : t \in table} ELSE {}
           view == {[pid |-> p, exe |-> proc[p].exe, born |-> proc[p].born] : p \in {q \in live : Readable(q)}}
           m == [runner[r] EXCEPT !.pc = "decide", !.known = live, !.view = view]
<1>1. /\ UNCHANGED <<groupDead, proc, rules, mode, execTask, execRing, exitTask, exitRing, recheck, pending>>
      /\ verdicts' = verdicts /\ lost' = lost /\ runner' = [runner EXCEPT ![r] = m]
      /\ DOMAIN runner = Runners /\ DOMAIN runner[r] = NodeFields /\ runner[r].pc = "view"
  BY DEF ResyncView, RunnerStep, machine, pins, InstallInv, DenyTypes
<1>2. m.pc = "decide" /\ m.known = live /\ m.deny = runner[r].deny /\ m.view = view
  BY <1>1 DEF NodeFields
<1>3. r = "start" => m.known = {}
  BY <1>1, <1>2 DEF InstallInv, ComingUp, Consuming
<1>4. r = "edit" => \A p \in m.deny \ lost' : Refused(p)
  BY <1>1, <1>2 DEF LeaveInv, DenyRight
<1>5. runner'[r].pc = "decide" /\ runner'[r].known = live /\ runner'[r].view = view
  BY <1>1, <1>2
<1>6. verdicts \subseteq Pids
  BY DEF InstallInv, DenyTypes
<1>7. ASSUME NEW p \in Pids, proc[p].st = "live" \/ r = "start" PROVE Resynced(r, p)'
  <2>1. CASE p \notin live
    BY <2>1, <1>5 DEF Resynced
  <2>2. CASE p \in live
    <3>1. proc[p].st = "live"
      BY <2>2, <1>2, <1>3, <1>7
    <3>2. Viewed(p) \in view /\ Viewed(p)' = Viewed(p)
      BY <3>1, <2>2, <1>1 DEF Viewed, Readable
    <3>3. proc'[p].st = "live"
      BY <3>1, <1>1
    <3> HIDE DEF view, live, m
    <3> QED
      BY <3>2, <3>3, <1>5 DEF Resynced
  <2> QED
    BY <2>1, <2>2
<1> HIDE DEF m
<1> QED
  BY <1>1, <1>3, <1>4, <1>6, <1>7, ResyncLeaveFrame

LEMMA DecideLeaves ==
  ASSUME InstallInv, InstallInv', LeaveInv, NEW r \in Runners, ResyncDecide(r) PROVE LeaveInv'
<1> DEFINE now == Redated(runner[r].view)
           deny == {v.pid : v \in {x \in now : Denies(rules, x.exe)}}
           clear == {v.pid : v \in {x \in now : ~Denies(rules, x.exe)}}
           m == [runner[r] EXCEPT !.pc = "write", !.view = {}, !.deny = deny, !.clear = clear]
<1>1. /\ UNCHANGED <<groupDead, proc, rules, mode, execTask, execRing, exitTask, exitRing, recheck, pending>>
      /\ verdicts' = verdicts /\ lost' = lost \cup {v.pid : v \in {x \in now : ~Readable(x.pid)}}
      /\ runner' = [runner EXCEPT ![r] = m]
      /\ DOMAIN runner = Runners /\ DOMAIN runner[r] = NodeFields /\ runner[r].pc = "decide"
  BY DEF ResyncDecide, RunnerStep, machine, pins, InstallInv, DenyTypes
<1>2. m.pc = "write" /\ m.known = runner[r].known /\ m.deny = deny /\ m.clear = clear
  BY <1>1 DEF NodeFields
<1>3. r = "start" => m.known = {}
  BY <1>2 DEF LeaveInv, LeaveTypes
<1>4. r = "edit" => \A p \in m.deny \ lost' : Refused(p)
  <2> SUFFICES ASSUME r = "edit", NEW v \in now, Denies(rules, v.exe), v.pid \notin lost' PROVE Refused(v.pid)
    BY <1>2
  <2>1. Readable(v.pid) /\ StartTime(v.pid) = v.born
    BY <1>1 DEF Redated
  <2>2. v.born = proc[v.pid].born /\ proc[v.pid].st = "live"
    BY <2>1 DEF StartTime, Readable
  <2>3. v.exe = proc[v.pid].exe
    BY <2>2 DEF InstallInv, ResyncRight, ViewRight, Redated
  <2> QED
    BY <2>2, <2>3 DEF Refused
<1>5. runner'[r].pc = "write" /\ runner'[r].known = runner[r].known /\ runner'[r].clear = clear
  BY <1>1, <1>2
<1>6. verdicts \subseteq Pids
  BY DEF InstallInv, DenyTypes
<1>7. ASSUME NEW p \in Pids, ~Refused(p), Resynced(r, p) PROVE Resynced(r, p)'
  <2>1. CASE p \notin runner[r].known
    BY <2>1, <1>5 DEF Resynced
  <2>2. CASE proc[p].st = "live" /\ Viewed(p) \in runner[r].view
    <3>1. Viewed(p) \in now /\ ~Denies(rules, Viewed(p).exe) /\ Viewed(p).pid = p
      BY <2>2, <1>7 DEF Redated, Viewed, StartTime, Refused
    <3>2. p \in clear
      BY <3>1
    <3> HIDE DEF clear
    <3> QED
      BY <3>2, <1>5 DEF Resynced
  <2> QED
    BY <1>1, <1>7, <2>1, <2>2 DEF Resynced
<1> HIDE DEF m
<1> QED
  BY <1>1, <1>3, <1>4, <1>6, <1>7, ResyncLeaveFrame

LEMMA WriteLeaves ==
  ASSUME InstallInv, InstallInv', LeaveInv, NEW r \in Runners, ResyncWrite(r) PROVE LeaveInv'
<1> DEFINE m == [runner[r] EXCEPT !.pc = "orphans", !.deny = {}, !.clear = {}]
<1>1. /\ UNCHANGED <<groupDead, proc, rules, mode, execTask, execRing, exitTask, exitRing, recheck, pending>>
      /\ verdicts' = (verdicts \cup runner[r].deny) \ runner[r].clear /\ lost' = lost
      /\ runner' = [runner EXCEPT ![r] = m]
      /\ DOMAIN runner = Runners /\ DOMAIN runner[r] = NodeFields /\ runner[r].pc = "write"
  BY DEF ResyncWrite, RunnerStep, machine, InstallInv, DenyTypes
<1>2. m.pc = "orphans" /\ m.known = runner[r].known /\ m.deny = {}
  BY <1>1 DEF NodeFields
<1>3. r = "start" => m.known = {}
  BY <1>2 DEF LeaveInv, LeaveTypes
<1>4. \A p \in m.deny \ lost' : Refused(p)
  BY <1>2
<1>5. runner'[r].pc = "orphans" /\ runner'[r].known = runner[r].known
  BY <1>1, <1>2
<1>6. ASSUME NEW p \in verdicts' \ lost'
      PROVE  Refused(p) \/ (p \in verdicts /\ (Resynced(r, p) => Resynced(r, p)'))
  <2>1. CASE p \in runner[r].deny
    BY <2>1, <1>1, <1>6 DEF InstallInv, ComingUp, LeaveInv, DenyRight, Runners
  <2>2. CASE p \notin runner[r].deny
    <3>1. p \in verdicts /\ p \notin runner[r].clear
      BY <2>2, <1>1
    <3> QED
      BY <3>1, <1>1, <1>5 DEF Resynced
  <2> QED
    BY <2>1, <2>2
<1> HIDE DEF m
<1> QED
  BY <1>1, <1>3, <1>4, <1>6, ResyncLeaveFrame

LEMMA OrphansLeave ==
  ASSUME InstallInv, InstallInv', LeaveInv, NEW r \in Runners, ResyncOrphans(r) PROVE LeaveInv'
<1> DEFINE m == [runner[r] EXCEPT !.pc = "judge", !.known = {}, !.orphans = verdicts \ runner[r].known]
<1>1. /\ UNCHANGED <<groupDead, proc, rules, mode, execTask, execRing, exitTask, exitRing, recheck, pending>>
      /\ verdicts' = verdicts /\ lost' = lost /\ runner' = [runner EXCEPT ![r] = m]
      /\ DOMAIN runner = Runners /\ DOMAIN runner[r] = NodeFields /\ runner[r].pc = "orphans"
  BY DEF ResyncOrphans, RunnerStep, machine, pins, InstallInv, DenyTypes
<1>2. m.pc = "judge" /\ m.known = {} /\ m.deny = runner[r].deny /\ m.orphans = verdicts \ runner[r].known
  BY <1>1 DEF NodeFields
<1>4. r = "edit" => \A p \in m.deny \ lost' : Refused(p)
  BY <1>1, <1>2 DEF LeaveInv, DenyRight
<1>5. runner'[r].pc = "judge" /\ runner'[r].orphans = verdicts \ runner[r].known
  BY <1>1, <1>2
<1>6. \A p \in verdicts : Resynced(r, p) => Resynced(r, p)'
  BY <1>1, <1>5 DEF Resynced
<1> HIDE DEF m
<1> QED
  BY <1>1, <1>2, <1>4, <1>6, ResyncLeaveFrame

LEMMA JudgeLeaves ==
  ASSUME InstallInv, InstallInv', LeaveInv, NEW r \in Runners, ResyncJudge(r) PROVE LeaveInv'
<1> DEFINE wrong == {q \in runner[r].orphans : ~(Readable(q) /\ Denies(rules, proc[q].exe))}
           doomed == {[pid |-> p, born |-> IF Readable(p) THEN proc[p].born ELSE Gone] : p \in wrong}
           m == [runner[r] EXCEPT !.pc = "redate", !.orphans = {}, !.doomed = doomed]
<1>1. /\ UNCHANGED <<groupDead, proc, rules, mode, execTask, execRing, exitTask, exitRing, recheck, pending>>
      /\ verdicts' = verdicts /\ lost' = lost /\ runner' = [runner EXCEPT ![r] = m]
      /\ DOMAIN runner = Runners /\ DOMAIN runner[r] = NodeFields /\ runner[r].pc = "judge"
  BY DEF ResyncJudge, RunnerStep, machine, pins, InstallInv, DenyTypes
<1>2. m.pc = "redate" /\ m.known = runner[r].known /\ m.deny = runner[r].deny /\ m.doomed = doomed
  BY <1>1 DEF NodeFields
<1>3. r = "start" => m.known = {}
  BY <1>2 DEF LeaveInv, LeaveTypes
<1>4. r = "edit" => \A p \in m.deny \ lost' : Refused(p)
  BY <1>1, <1>2 DEF LeaveInv, DenyRight
<1>5. runner'[r].pc = "redate" /\ runner'[r].doomed = doomed
  BY <1>1, <1>2
<1>6. ASSUME NEW p \in verdicts, ~Refused(p), Resynced(r, p) PROVE Resynced(r, p)'
  <2>1. p \in wrong
    BY <1>1, <1>6 DEF Resynced, Readable, Refused
  <2>2. [pid |-> p, born |-> IF proc[p].st = "live" THEN proc[p].born ELSE Gone] \in doomed
    BY <2>1 DEF Readable
  <2> HIDE DEF doomed
  <2>3. [pid |-> p, born |-> IF proc'[p].st = "live" THEN proc'[p].born ELSE Gone] \in doomed
    BY <2>2, <1>1
  <2> QED
    BY <2>3, <1>5 DEF Resynced
<1> HIDE DEF m
<1> QED
  BY <1>1, <1>3, <1>4, <1>6, ResyncLeaveFrame

LEMMA RedateLeaves ==
  ASSUME InstallInv, InstallInv', LeaveInv, NEW r \in Runners, ResyncRedate(r) PROVE LeaveInv'
<1> DEFINE m == [runner[r] EXCEPT !.pc = "clear", !.doomed = {}, !.clear = Clearable(runner[r].doomed)]
<1>1. /\ UNCHANGED <<groupDead, proc, rules, mode, execTask, execRing, exitTask, exitRing, recheck, pending>>
      /\ verdicts' = verdicts /\ lost' = lost \cup Spared(runner[r].doomed)
      /\ runner' = [runner EXCEPT ![r] = m]
      /\ DOMAIN runner = Runners /\ DOMAIN runner[r] = NodeFields /\ runner[r].pc = "redate"
  BY DEF ResyncRedate, RunnerStep, machine, pins, InstallInv, DenyTypes
<1>2. /\ m.pc = "clear" /\ m.known = runner[r].known /\ m.deny = runner[r].deny
      /\ m.clear = Clearable(runner[r].doomed)
  BY <1>1 DEF NodeFields
<1>3. r = "start" => m.known = {}
  BY <1>2 DEF LeaveInv, LeaveTypes
<1>4. r = "edit" => \A p \in m.deny \ lost' : Refused(p)
  BY <1>1, <1>2 DEF LeaveInv, DenyRight
<1>5. runner'[r].pc = "clear" /\ runner'[r].clear = Clearable(runner[r].doomed)
  BY <1>1, <1>2
<1>6. ASSUME NEW p \in verdicts, p \notin lost', Resynced(r, p) PROVE Resynced(r, p)'
  <2>1. p \in Pids /\ proc[p].st \in States
    BY DEF InstallInv, DenyTypes
  <2> DEFINE d == [pid |-> p, born |-> IF proc[p].st = "live" THEN proc[p].born ELSE Gone]
  <2>2. d \in runner[r].doomed
    BY <1>1, <1>6 DEF Resynced
  <2>3. StartTime(p) \in {Gone, d.born}
    <3>1. CASE proc[p].st = "live"
      BY <3>1 DEF StartTime
    <3>2. CASE proc[p].st = "none"
      BY <3>2 DEF StartTime
    <3>3. CASE proc[p].st \in {"dying", "zombie"}
      <4>1. d = [pid |-> p, born |-> Gone]
        BY <3>3
      <4> QED
        BY <4>1, <2>1, <2>2, <3>3, <1>1, <1>6 DEF Spared
    <3> QED
      BY <2>1, <3>1, <3>2, <3>3 DEF States
  <2>4. d.pid = p
    OBVIOUS
  <2> HIDE DEF d
  <2>5. p \in Clearable(runner[r].doomed)
    BY <2>2, <2>3, <2>4 DEF Clearable
  <2> QED
    BY <2>5, <1>5 DEF Resynced
<1> HIDE DEF m
<1> QED
  BY <1>1, <1>3, <1>4, <1>6, ResyncLeaveFrame

LEMMA ClearLeaves ==
  ASSUME InstallInv, InstallInv', LeaveInv, NEW r \in Runners, ResyncClear(r) PROVE LeaveInv'
<1>1. /\ UNCHANGED <<groupDead, proc, rules, mode, execTask, execRing, exitTask, exitRing, recheck, pending>>
      /\ verdicts' = verdicts \ runner[r].clear /\ lost' = lost /\ runner' = [runner EXCEPT ![r] = Idle]
      /\ runner[r].pc = "clear"
  BY DEF ResyncClear, RunnerStep, machine, pins
<1>2. Idle.known = {} /\ Idle.deny = {}
  BY DEF Idle
<1>3. \A p \in verdicts' : p \in verdicts /\ ~Resynced(r, p)
  BY <1>1 DEF Resynced
<1> QED
  BY <1>1, <1>2, <1>3, ResyncLeaveFrame

LEMMA ResyncLeaves ==
  ASSUME InstallInv, InstallInv', LeaveInv, NEW r \in Runners, Resync(r) PROVE LeaveInv'
<1> QED
  BY CompileLeaves, ViewLeaves, DecideLeaves, WriteLeaves, OrphansLeave, JudgeLeaves, RedateLeaves,
     ClearLeaves DEF Resync

LEMMA ExpireLeaves ==
  ASSUME InstallInv, InstallInv', LeaveInv, (\E p \in Pids : ExpireRecord(p)) \/ UNCHANGED denyVars
  PROVE  LeaveInv'
<1>1. UNCHANGED <<groupDead, proc, rules, mode, verdicts, lost, runner, execTask, execRing, exitTask,
                  exitRing, recheck, pending>>
  BY DEF ExpireRecord, denyVars, machine, pins, threads
<1>2. /\ LeaveTypes' = LeaveTypes /\ Waiting' = Waiting /\ Candidates' = Candidates
      /\ DenyRight' = DenyRight /\ WriteRight' = WriteRight /\ Early' = Early
  BY <1>1 DEF LeaveTypes, Waiting, Candidates, DenyRight, WriteRight, Refused, Early
<1>3. ExitRight' = ExitRight
  BY <1>1, <1>2 DEF ExitRight
<1>4. \A p \in Pids : /\ Leaving(p)' = Leaving(p) /\ Judging(p)' = Judging(p)
                      /\ \A r \in Runners : Resynced(r, p)' = Resynced(r, p)
  BY <1>1, <1>2 DEF Leaving, Evicting, Judging, Resynced, Viewed
<1>5. \A p \in verdicts' \ lost' : p \in Pids /\ p \in verdicts \ lost
  BY <1>1 DEF InstallInv, DenyTypes
<1>6. UNCHANGED <<groupDead, proc, rules>> /\ (Early => Early')
  BY <1>1, <1>2
<1>7. DeadLeave' /\ SparedLeave'
  BY <1>4, <1>5, <1>6, LeaveFrame
<1> QED
  BY <1>2, <1>3, <1>7 DEF LeaveInv

\* Until the sweep nothing has to leave; after it the resync of the start looks at all.
LEMMA ComingUpLeaves ==
  ASSUME InstallInv, InstallInv', LeaveInv,
         DropStalePins \/ AttachTracepoints \/ Sweep \/ SpawnConsumers \/ SetLive
  PROVE  LeaveInv'
<1> USE DEF LeaveInv
<1>1. /\ UNCHANGED <<groupDead, proc, rules, lost, execTask, execRing, exitTask, exitRing, recheck, pending>>
      /\ verdicts' \subseteq verdicts
      /\ \/ mode' \in {"attach", "sweep"} /\ UNCHANGED runner
         \/ ~Early /\ UNCHANGED runner
         \/ runner' = [runner EXCEPT !["start"].pc = "wait"]
  BY DEF DropStalePins, AttachTracepoints, Sweep, SpawnConsumers, SetLive, machine, pins, threads, Early
<1>2. /\ DOMAIN runner = Runners /\ DOMAIN runner["start"] = NodeFields
  BY DEF InstallInv, DenyTypes, Runners
<1>3. /\ runner' = [runner EXCEPT !["start"].pc = "wait"] => runner'["start"].pc = "wait"
      /\ runner'["start"].known = runner["start"].known /\ runner'["edit"] = runner["edit"]
  BY <1>1, <1>2 DEF NodeFields, Runners
<1>4. Waiting' = Waiting /\ Candidates' = Candidates
  BY <1>1 DEF Waiting, Candidates
<1>5. LeaveTypes'
  BY <1>1, <1>3 DEF LeaveTypes
<1>6. ExitRight' /\ DenyRight' /\ WriteRight'
  BY <1>1, <1>3, <1>4 DEF ExitRight, DenyRight, WriteRight, Refused
<1>7. CASE Early'
  BY <1>5, <1>6, <1>7 DEF DeadLeave, SparedLeave
<1>8. CASE runner'["start"].pc = "wait"
  <2>1. \A p : Resynced("start", p)'
    BY <1>8 DEF Resynced
  <2> QED
    BY <1>5, <1>6, <2>1 DEF DeadLeave, SparedLeave, Runners
<1>9. CASE ~Early' /\ ~Early /\ UNCHANGED runner
  <2>1. \A p \in Pids : /\ Leaving(p)' = Leaving(p) /\ Judging(p)' = Judging(p)
                        /\ \A r \in Runners : Resynced(r, p)' = Resynced(r, p)
    BY <1>1, <1>4, <1>9 DEF Leaving, Evicting, Judging, Resynced, Viewed
  <2>2. \A p \in verdicts' \ lost' : p \in Pids /\ p \in verdicts \ lost
    BY <1>1 DEF InstallInv, DenyTypes
  <2>3. UNCHANGED <<groupDead, proc, rules>> /\ (Early => Early')
    BY <1>1, <1>9
  <2>4. DeadLeave' /\ SparedLeave'
    BY <2>1, <2>2, <2>3, LeaveFrame
  <2> QED
    BY <1>5, <1>6, <2>4
<1>10. Early' \/ runner'["start"].pc = "wait" \/ (~Early' /\ ~Early /\ UNCHANGED runner)
  BY <1>1, <1>3 DEF Early
<1> QED
  BY <1>7, <1>8, <1>9, <1>10

LEMMA DeathLeaves ==
  ASSUME InstallInv, InstallInv', LeaveInv, DaemonDies PROVE LeaveInv'
<1>1. /\ mode' = "down" /\ runner' = [r \in Runners |-> Idle] /\ UNCHANGED <<rules, groupDead, proc>>
      /\ exitRing' = <<>> /\ pending' = <<>>
      /\ execTask' = [pc |-> "idle", pid |-> 0, deny |-> FALSE] /\ exitTask' = [pc |-> "idle", pid |-> 0]
      /\ recheck' = [pc |-> "idle", pid |-> 0, taken |-> <<>>, waiting |-> <<>>]
  BY DEF DaemonDies, NoExec, NoExit, NoRecheck
<1>2. ToSet(<<>>) = {}
  BY DEF ToSet
<1>3. Waiting' = {} /\ Candidates' = {}
  BY <1>1, <1>2 DEF Waiting, Candidates
<1>4. runner'["start"].known = {} /\ runner'["edit"].deny = {}
  BY <1>1 DEF Runners, Idle
<1>5. LeaveTypes'
  BY <1>1, <1>4 DEF LeaveTypes, LeaveInv
<1>6. Early'
  BY <1>1 DEF Early
<1>7. ExitRight' /\ DenyRight' /\ WriteRight' /\ DeadLeave' /\ SparedLeave'
  BY <1>1, <1>3, <1>4, <1>6 DEF ExitRight, DenyRight, WriteRight, DeadLeave, SparedLeave
<1> QED
  BY <1>5, <1>7 DEF LeaveInv

\* A rule change past the sweep is followed by a resync, which looks at every entry.
LEMMA RuleChangeLeaves ==
  ASSUME InstallInv, InstallInv', LeaveInv, Windows = {}, NEW rs \in RuleSets, RuleChange(rs)
  PROVE  LeaveInv'
<1> USE DEF LeaveInv
<1>1. /\ UNCHANGED <<groupDead, proc, verdicts, mode, lost, execTask, execRing, exitTask, exitRing, recheck, pending>>
      /\ rules' = rs /\ runner["edit"].pc = "idle" /\ execTask.pc # "write"
      /\ runner' = IF Observing THEN [runner EXCEPT !["edit"].pc = "wait"] ELSE runner
  BY DEF RuleChange, pins
<1>2. /\ DOMAIN runner = Runners /\ DOMAIN runner["edit"] = NodeFields
  BY DEF InstallInv, DenyTypes, Runners
<1>3. /\ runner'["start"] = runner["start"] /\ runner'["edit"].deny = runner["edit"].deny
      /\ Observing => runner'["edit"].pc = "wait"
  BY <1>1, <1>2 DEF NodeFields, Runners
<1>4. runner["edit"].deny = {}
  BY <1>1 DEF InstallInv, ResyncRight, ResyncSteps
<1>5. Waiting' = Waiting /\ Candidates' = Candidates
  BY <1>1 DEF Waiting, Candidates
<1>6. LeaveTypes'
  BY <1>1, <1>3 DEF LeaveTypes
<1>7. ExitRight' /\ DenyRight' /\ WriteRight'
  BY <1>1, <1>3, <1>4, <1>5 DEF ExitRight, DenyRight, WriteRight
<1>8. \A p : Leaving(p)' = Leaving(p) /\ Resynced("start", p)' = Resynced("start", p)
  BY <1>1, <1>3, <1>5 DEF Leaving, Evicting, Resynced, Viewed
<1>9. DeadLeave'
  BY <1>1, <1>8 DEF DeadLeave, Early
<1>10. SparedLeave'
  <2> SUFFICES ASSUME ~Early', NEW p PROVE Resynced("edit", p)'
    BY DEF SparedLeave, Runners
  <2>1. Observing
    BY <1>1 DEF Early, Observing, InstallInv, DenyTypes
  <2> QED
    BY <2>1, <1>3 DEF Resynced
<1> QED
  BY <1>6, <1>7, <1>9, <1>10

\* A step of the exec consumer.
LEMMA ExecFrame ==
  ASSUME InstallInv, InstallInv', LeaveInv, WriteRight',
         UNCHANGED <<groupDead, proc, rules, mode, lost, runner, exitTask, exitRing, recheck, pending>>,
         \A p \in verdicts' \ lost' :
           \/ proc[p].st = "live" /\ (Denies(rules, proc[p].exe) \/ Judging(p)')
           \/ p \in verdicts /\ (Judging(p) => Judging(p)')
  PROVE  LeaveInv'
<1> USE DEF LeaveInv
<1>1. Waiting' = Waiting /\ Candidates' = Candidates
  BY DEF Waiting, Candidates
<1>2. LeaveTypes' /\ DenyRight'
  BY DEF LeaveTypes, DenyRight, Refused
<1>3. ExitRight'
  BY <1>1 DEF ExitRight
<1>4. \A p \in Pids : Leaving(p)' = Leaving(p) /\ \A r \in Runners : Resynced(r, p)' = Resynced(r, p)
  BY <1>1 DEF Leaving, Evicting, Resynced, Viewed
<1>5. Early => Early'
  BY DEF Early
<1>6. DeadLeave' /\ SparedLeave'
  <2> HIDE DEF LeaveInv
  <2> QED
    BY <1>4, <1>5, LeaveFrame
<1> QED
  BY <1>2, <1>3, <1>6

LEMMA ExecTakeLeaves ==
  ASSUME InstallInv, InstallInv', LeaveInv, ExecTake PROVE LeaveInv'
<1>1. /\ UNCHANGED <<groupDead, proc, rules, mode, lost, runner, exitTask, exitRing, recheck, pending>>
      /\ verdicts' = verdicts /\ execTask.pc = "idle" /\ execRing # <<>> /\ execRing' = Tail(execRing)
      /\ execTask' = [pc |-> "judge", pid |-> Head(execRing), deny |-> FALSE]
  BY DEF ExecTake, machine, pins
<1>2. ToSet(execRing) = ToSet(execRing') \cup {Head(execRing)}
  BY <1>1, RingSays DEF InstallInv, DenyTypes
<1>3. \A p \in Pids : Judging(p) => Judging(p)'
  BY <1>1, <1>2, ConstantsAssumption, SMTT(30), ZenonT(30) DEF Judging, InstallInv, DenyTypes
<1>4. WriteRight'
  BY <1>1 DEF WriteRight
<1>5. \A p \in verdicts' \ lost' : p \in verdicts /\ (Judging(p) => Judging(p)')
  BY <1>1, <1>3 DEF InstallInv, DenyTypes
<1> QED
  BY <1>1, <1>4, <1>5, ExecFrame

\* What cannot be read stays unknown, which no rule set refuses.
LEMMA ExecJudgeLeaves ==
  ASSUME InstallInv, InstallInv', LeaveInv, \A rs \in RuleSets : Unknown \notin rs.denies, OnExecJudge
  PROVE  LeaveInv'
<1> DEFINE p == execTask.pid
           deny == Denies(rules, OnExecImage(p))
<1>1. /\ UNCHANGED <<groupDead, proc, rules, mode, lost, runner, exitTask, exitRing, recheck, pending>>
      /\ verdicts' = verdicts /\ execRing' = execRing
      /\ execTask' = [execTask EXCEPT !.pc = "write", !.deny = deny]
  BY DEF OnExecJudge, machine, pins
<1>2. DOMAIN execTask = {"pc", "pid", "deny"}
  BY DEF InstallInv, DenyTypes
<1>3. execTask'.pid = p /\ execTask'.deny = deny
  BY <1>1, <1>2
<1>4. deny => proc[p].st = "live" /\ Denies(rules, proc[p].exe)
  BY DEF OnExecImage, Readable, Denies, LeaveInv, LeaveTypes
<1> HIDE DEF deny
<1>5. WriteRight'
  BY <1>1, <1>3, <1>4 DEF WriteRight
<1>6. \A q \in verdicts' \ lost' : q \in verdicts /\ (Judging(q) => Judging(q)')
  BY <1>1, <1>3 DEF Judging
<1> QED
  BY <1>1, <1>5, <1>6, ExecFrame

LEMMA ExecWriteLeaves ==
  ASSUME InstallInv, InstallInv', LeaveInv, OnExecWrite PROVE LeaveInv'
<1> DEFINE p == execTask.pid
<1>1. /\ UNCHANGED <<groupDead, proc, rules, mode, lost, runner, exitTask, exitRing, recheck, pending>>
      /\ execRing' = execRing /\ execTask.pc = "write"
      /\ verdicts' = IF execTask.deny THEN verdicts \cup {p} ELSE verdicts \ {p}
      /\ execTask' = [pc |-> "idle", pid |-> 0, deny |-> FALSE]
  BY DEF OnExecWrite, NoExec, machine
<1>2. WriteRight'
  BY <1>1 DEF WriteRight
<1>3. ASSUME NEW q \in verdicts' \ lost'
      PROVE  \/ proc[q].st = "live" /\ (Denies(rules, proc[q].exe) \/ Judging(q)')
             \/ q \in verdicts /\ (Judging(q) => Judging(q)')
  <2>1. CASE q = p
    BY <2>1, <1>1, <1>3 DEF LeaveInv, WriteRight, Judging
  <2>2. CASE q # p
    BY <2>2, <1>1, <1>3 DEF Judging
  <2> QED
    BY <2>1, <2>2
<1> HIDE DEF p
<1> QED
  BY <1>1, <1>2, <1>3, ExecFrame

\* A step of the process p leaves every other process as it was.
LEMMA MachineFrame ==
  ASSUME InstallInv, InstallInv', LeaveInv, NEW p \in Pids,
         UNCHANGED <<groupDead, rules, mode, runner, execTask, exitTask, recheck, pending>>,
         \A q \in Pids \ {p} : /\ proc'[q] = proc[q]
                               /\ q \in verdicts' => q \in verdicts
                               /\ q \in lost => q \in lost',
         ToSet(execRing) \subseteq ToSet(execRing'), exitRing' \in Seq(Pids),
         ToSet(exitRing) \subseteq ToSet(exitRing'), ToSet(exitRing') \subseteq ToSet(exitRing) \cup {p},
         ~groupDead => /\ p \in Waiting' => proc'[p].st # "live"
                       /\ \A c \in Candidates : c.pid = p => c.born = proc'[p].born,
         p \in runner["edit"].deny \ lost' => Refused(p)',
         execTask.pc = "write" /\ execTask.deny /\ execTask.pid = p =>
            proc'[p].st = "live" /\ (Denies(rules, proc'[p].exe) \/ p \in ToSet(execRing') \cup lost'),
         ~Early /\ p \in verdicts' \ lost' =>
           /\ proc'[p].st # "live" => (~groupDead /\ Leaving(p)') \/ Resynced("start", p)'
           /\ proc'[p].st = "live" => \/ Denies(rules, proc'[p].exe) \/ Judging(p)'
                                      \/ \E r \in Runners : Resynced(r, p)'
  PROVE  LeaveInv'
<1> USE DEF LeaveInv
<1>1. Candidates' = Candidates /\ Early' = Early
  BY DEF Candidates, Early
<1>2. Waiting \subseteq Waiting' /\ Waiting' \subseteq Waiting \cup {p}
  BY <1>1 DEF Waiting
<1>3. LeaveTypes'
  BY DEF LeaveTypes
<1>4. ExitRight'
  <2> SUFFICES ASSUME ~groupDead
               PROVE  /\ \A q \in Waiting' : proc'[q].st # "live"
                      /\ \A c \in Candidates : c.born = proc'[c.pid].born
    BY <1>1 DEF ExitRight
  <2>1. Waiting \subseteq Pids /\ \A c \in Candidates : c.pid \in Pids
    <3>1. \A c \in Candidates : c \in Candidate
      BY DEF Candidates, LeaveTypes, ToSet
    <3>2. ToSet(exitRing) \subseteq Pids
      BY DEF ToSet, LeaveTypes
    <3> QED
      BY <3>1, <3>2 DEF Waiting, Candidate
  <2>2. ASSUME NEW q \in Waiting' PROVE proc'[q].st # "live"
    BY <2>1, <1>2, <2>2 DEF ExitRight
  <2>3. ASSUME NEW c \in Candidates PROVE c.born = proc'[c.pid].born
    BY <2>1, <2>3 DEF ExitRight
  <2> QED
    BY <2>2, <2>3
<1>5. DenyRight'
  <2> SUFFICES ASSUME NEW q \in runner["edit"].deny, q \notin lost' PROVE Refused(q)'
    BY DEF DenyRight
  <2>1. q \in Pids
    BY DEF InstallInv, ResyncRight, ResyncTypes
  <2> QED
    BY <2>1 DEF DenyRight, Refused
<1>6. WriteRight'
  <2>1. execTask.pc = "write" => execTask.pid \in Pids
    BY DEF InstallInv, DenyTypes
  <2> QED
    BY <2>1 DEF WriteRight
<1>7. verdicts' \subseteq Pids
  BY DEF InstallInv, DenyTypes
<1>8. ASSUME NEW q \in Pids \ {p}
      PROVE  /\ Leaving(q) => Leaving(q)'
             /\ Judging(q) => Judging(q)'
             /\ \A r \in Runners : Resynced(r, q)' = Resynced(r, q)
  BY <1>2 DEF Leaving, Evicting, Judging, Resynced, Viewed
<1>9. DeadLeave'
  <2> SUFFICES ASSUME ~Early, NEW q \in verdicts' \ lost', proc'[q].st # "live"
               PROVE  (~groupDead /\ Leaving(q)') \/ Resynced("start", q)'
    BY <1>1 DEF DeadLeave
  <2>1. CASE q # p
    BY <2>1, <1>7, <1>8 DEF DeadLeave, Runners
  <2> QED
    BY <2>1
<1>10. SparedLeave'
  <2> SUFFICES ASSUME ~Early, NEW q \in verdicts' \ lost', proc'[q].st = "live",
                      ~Denies(rules, proc'[q].exe)
               PROVE  Judging(q)' \/ \E r \in Runners : Resynced(r, q)'
    BY <1>1 DEF SparedLeave
  <2>1. CASE q # p
    <3>1. Judging(q) \/ \E r \in Runners : Resynced(r, q)
      BY <2>1, <1>7 DEF SparedLeave
    <3> QED
      BY <2>1, <3>1, <1>7, <1>8
  <2> QED
    BY <2>1
<1> QED
  BY <1>3, <1>4, <1>5, <1>6, <1>9, <1>10

LEMMA RingKeeps ==
  ASSUME NEW ring \in Seq(Pids), NEW p \in Pids
  PROVE  /\ Publish(ring, p) \in Seq(Pids)
         /\ ToSet(ring) \subseteq ToSet(Publish(ring, p))
         /\ ToSet(Publish(ring, p)) \subseteq ToSet(ring) \cup {p}
         /\ mode # "down" /\ ~Drops(ring) => p \in ToSet(Publish(ring, p))
<1>1. Append(ring, p) \in Seq(Pids) /\ ToSet(Append(ring, p)) = ToSet(ring) \cup {p}
  BY RingSays
<1>2. Len(ring) \in Nat /\ RingCap \in Nat
  BY ConstantsAssumption
<1> QED
  BY <1>1, <1>2 DEF Publish, Drops

\* A pid is not reused while something that cannot tell still names it.
LEMMA SpawnLeaves ==
  ASSUME InstallInv, InstallInv', LeaveInv, Windows = {}, NEW p \in Pids, NEW i \in Images, Spawn(p, i)
  PROVE  LeaveInv'
<1>1. /\ UNCHANGED <<groupDead, rules, mode, runner, execTask, exitTask, recheck, pending, verdicts, lost,
                     execRing, exitRing>>
      /\ proc[p].st = "none" /\ ~ReuseUnnoticed(p)
      /\ proc' = [proc EXCEPT ![p] = [st |-> "live", exe |-> i, born |-> births + 1]]
  BY DEF Spawn, threads, pins
<1>2. /\ \A q \in Pids \ {p} : proc'[q] = proc[q]
      /\ proc'[p].st = "live"
  BY <1>1 DEF InstallInv, DenyTypes
<1>3. Waiting' = Waiting /\ Candidates' = Candidates
  BY <1>1 DEF Waiting, Candidates
<1>4. ~groupDead => p \notin Waiting /\ \A c \in Candidates : c.pid # p
  BY <1>1 DEF ReuseUnnoticed, Waiting
<1>5. ~Evicting(p) /\ \A r \in Runners : [pid |-> p, born |-> Gone] \notin runner[r].doomed /\ p \notin runner[r].clear
  BY <1>1 DEF ReuseUnnoticed
<1>6. p \notin runner["edit"].deny \ lost
  BY <1>1 DEF LeaveInv, DenyRight, Refused
<1>7. ~(execTask.pc = "write" /\ execTask.deny /\ execTask.pid = p)
  BY <1>1 DEF LeaveInv, WriteRight
<1>8. ASSUME ~Early, p \in verdicts \ lost PROVE Resynced("start", p)'
  <2>1. Resynced("start", p)
    BY <1>1, <1>4, <1>5, <1>8 DEF LeaveInv, DeadLeave, Leaving
  <2> QED
    BY <2>1, <1>1, <1>5 DEF Resynced, Runners
<1>9. exitRing' \in Seq(Pids)
  BY <1>1 DEF LeaveInv, LeaveTypes
<1> QED
  BY <1>1, <1>2, <1>3, <1>4, <1>6, <1>7, <1>8, <1>9, MachineFrame DEF Runners

LEMMA ExecLeaves ==
  ASSUME InstallInv, InstallInv', LeaveInv, Windows = {}, NEW p \in Pids, NEW name \in Names, Exec(p, name)
  PROVE  LeaveInv'
<1>1. /\ UNCHANGED <<groupDead, rules, mode, runner, execTask, exitTask, recheck, pending, exitRing>>
      /\ proc[p].st = "live" /\ ~ExecUnnoticed(p)
      /\ proc' = [proc EXCEPT ![p].exe = Target[name]]
      /\ \/ /\ attached /\ verdicts' = PrecommitVerdict(p, name) /\ execRing' = Publish(execRing, p)
            /\ lost' = IF Drops(execRing) THEN lost \cup {p} ELSE lost \ {p}
         \/ ~attached /\ UNCHANGED <<verdicts, execRing, lost>>
  BY DEF Exec, threads
<1>2. /\ \A q \in Pids \ {p} : proc'[q] = proc[q]
      /\ proc'[p].st = "live" /\ proc'[p].born = proc[p].born
  BY <1>1 DEF InstallInv, DenyTypes
<1>3. \A q \in Pids \ {p} : (q \in verdicts' => q \in verdicts) /\ (q \in lost => q \in lost')
  BY <1>1 DEF PrecommitVerdict
<1>4. execRing \in Seq(Pids) /\ exitRing \in Seq(Pids)
  BY DEF InstallInv, DenyTypes, LeaveInv, LeaveTypes
<1>5. /\ ToSet(execRing) \subseteq ToSet(execRing')
      /\ attached /\ mode # "down" => p \in ToSet(execRing') \cup lost'
  BY <1>1, <1>4, RingKeeps
<1>6. Waiting' = Waiting /\ Candidates' = Candidates
  BY <1>1 DEF Waiting, Candidates
<1>7. ~groupDead => /\ p \notin Waiting'
                    /\ \A c \in Candidates : c.pid = p => c.born = proc'[p].born
  BY <1>1, <1>2, <1>6 DEF LeaveInv, ExitRight
<1>8. p \notin runner["edit"].deny
  BY <1>1 DEF ExecUnnoticed, Runners
<1>9. /\ ~Early => attached /\ mode # "down"
      /\ execTask.pc = "write" => attached /\ mode # "down"
  BY DEF InstallInv, ComingUp, DenyTypes, Early, Consuming
<1>10. exitRing' \in Seq(Pids) /\ ToSet(exitRing') = ToSet(exitRing)
  BY <1>1, <1>4
<1>11. ~Early /\ p \in verdicts' \ lost' => Judging(p)'
  BY <1>5, <1>9 DEF Judging
<1> QED
  BY <1>1, <1>2, <1>3, <1>5, <1>7, <1>8, <1>9, <1>10, <1>11, MachineFrame

LEMMA ExitLeaves ==
  ASSUME InstallInv, InstallInv', LeaveInv, Windows = {}, NEW p \in Pids, Exit(p) PROVE LeaveInv'
<1>1. /\ UNCHANGED <<groupDead, rules, mode, runner, execTask, exitTask, recheck, pending, execRing>>
      /\ proc[p].st = "live" /\ ~ExitUnnoticed(p)
      /\ proc' = [proc EXCEPT ![p].st = "dying"]
      /\ \/ /\ attached /\ verdicts' = (IF groupDead THEN verdicts \ {p} ELSE verdicts)
            /\ exitRing' = Publish(exitRing, p)
            /\ lost' = IF Drops(exitRing) THEN lost \cup ({p} \cap verdicts') ELSE lost
         \/ ~attached /\ UNCHANGED <<verdicts, exitRing, lost>>
  BY DEF Exit, threads
<1>2. /\ \A q \in Pids \ {p} : proc'[q] = proc[q]
      /\ proc'[p].st # "live" /\ proc'[p].born = proc[p].born
  BY <1>1 DEF InstallInv, DenyTypes
<1>3. \A q \in Pids \ {p} : (q \in verdicts' => q \in verdicts) /\ (q \in lost => q \in lost')
  BY <1>1
<1>4. exitRing \in Seq(Pids)
  BY DEF LeaveInv, LeaveTypes
<1>5. /\ exitRing' \in Seq(Pids) /\ ToSet(exitRing) \subseteq ToSet(exitRing')
      /\ ToSet(exitRing') \subseteq ToSet(exitRing) \cup {p}
  BY <1>1, <1>4, RingKeeps
<1>6. ~groupDead => \A c \in Candidates : c.pid = p => c.born = proc'[p].born
  BY <1>2 DEF LeaveInv, ExitRight
<1>7. p \notin runner["edit"].deny /\ ~(execTask.pc = "write" /\ execTask.pid = p)
  BY <1>1 DEF ExitUnnoticed, Runners
<1>8. ~Early => attached /\ mode # "down"
  BY DEF InstallInv, ComingUp, DenyTypes, Early
<1>9. ~Early /\ p \in verdicts' \ lost' => ~groupDead /\ Leaving(p)'
  <2> SUFFICES ASSUME ~Early, p \in verdicts' \ lost' PROVE ~groupDead /\ p \in ToSet(exitRing')
    BY DEF Leaving, Waiting
  <2> QED
    BY <1>1, <1>4, <1>8, RingKeeps
<1>10. ToSet(execRing) \subseteq ToSet(execRing')
  BY <1>1
<1> QED
  BY <1>1, <1>2, <1>3, <1>5, <1>6, <1>7, <1>9, <1>10, MachineFrame

LEMMA ReapLeaves ==
  ASSUME InstallInv, InstallInv', LeaveInv, NEW p \in Pids, Reap(p) PROVE LeaveInv'
<1>1. /\ UNCHANGED <<groupDead, rules, mode, runner, execTask, exitTask, recheck, pending, execRing,
                     exitRing, verdicts, lost>>
      /\ proc[p].st \in {"dying", "zombie"}
      /\ proc' = [proc EXCEPT ![p].st = IF @ = "dying" THEN "zombie" ELSE "none"]
  BY DEF Reap, threads, pins
<1>2. /\ \A q \in Pids \ {p} : proc'[q] = proc[q]
      /\ proc'[p].st # "live" /\ proc[p].st # "live" /\ proc'[p].born = proc[p].born
  BY <1>1 DEF InstallInv, DenyTypes
<1>3. ~groupDead => \A c \in Candidates : c.pid = p => c.born = proc'[p].born
  BY <1>2 DEF LeaveInv, ExitRight
<1>4. p \notin runner["edit"].deny \ lost
  BY <1>2 DEF LeaveInv, DenyRight, Refused
<1>5. ~(execTask.pc = "write" /\ execTask.deny /\ execTask.pid = p)
  BY <1>2 DEF LeaveInv, WriteRight
<1>6. Candidates' = Candidates /\ Waiting' = Waiting
  BY <1>1 DEF Candidates, Waiting
<1>7. ASSUME ~Early, p \in verdicts' \ lost' PROVE (~groupDead /\ Leaving(p)') \/ Resynced("start", p)'
  <2>1. (~groupDead /\ Leaving(p)) \/ Resynced("start", p)
    BY <1>1, <1>2, <1>7 DEF LeaveInv, DeadLeave
  <2>2. Leaving(p) => Leaving(p)'
    BY <1>1, <1>6 DEF Leaving, Evicting
  <2>3. Resynced("start", p) => Resynced("start", p)'
    BY <1>1, <1>2 DEF Resynced
  <2> QED
    BY <2>1, <2>2, <2>3
<1>8. exitRing' \in Seq(Pids) /\ ToSet(exitRing') = ToSet(exitRing) /\ ToSet(execRing') = ToSet(execRing)
  BY <1>1 DEF LeaveInv, LeaveTypes
<1> QED
  BY <1>1, <1>2, <1>3, <1>4, <1>5, <1>7, <1>8, MachineFrame

LEMMA LeaveKept ==
  ASSUME InstallInv, InstallInv', LeaveInv, Windows = {}, \A rs \in RuleSets : Unknown \notin rs.denies,
         [DenyNext]_denyVars
  PROVE  LeaveInv'
<1>1. CASE Machine
  BY <1>1, SpawnLeaves, ExecLeaves, ExitLeaves, ReapLeaves DEF Machine
<1>2. CASE DropStalePins \/ AttachTracepoints \/ Sweep \/ SpawnConsumers \/ SetLive
  BY <1>2, ComingUpLeaves
<1>3. CASE DaemonDies
  BY <1>3, DeathLeaves
<1>4. CASE \E rs \in RuleSets : RuleChange(rs)
  BY <1>4, RuleChangeLeaves
<1>5. CASE \E r \in Runners : Resync(r)
  BY <1>5, ResyncLeaves
<1>6. CASE ExecTake \/ OnExecJudge \/ OnExecWrite
  BY <1>6, ExecTakeLeaves, ExecJudgeLeaves, ExecWriteLeaves
<1>7. CASE ExitTake \/ ExitEvict \/ RecheckTick \/ RecheckLook \/ RecheckEvict \/ Requeue
  BY <1>7, ExitTakeLeaves, EvictLeaves, RecheckTickLeaves, RecheckLookLeaves, RequeueLeaves
<1>8. CASE (\E p \in Pids : ExpireRecord(p)) \/ UNCHANGED denyVars
  BY <1>8, ExpireLeaves
<1> QED
  BY <1>1, <1>2, <1>3, <1>4, <1>5, <1>6, <1>7, <1>8 DEF DenyNext, Daemon

\* DenyDeserved (VerdictSink::on_exec, on_exit, resync and the two kernel programs):
\* an entry of VERDICTS that nothing is under way for belongs to the image its pid
\* runs now under the rules of now, through pid reuse, aliases, rule changes, crashes
\* and restarts, as long as none of the windows the code leaves open is hit and the
\* rules do not refuse a process for an executable that cannot be read.
THEOREM DenyDeservedHolds ==
  ASSUME Windows = {}, \A rs \in RuleSets : Unknown \notin rs.denies
  PROVE  DenySpec => []DenyDeserved
<1> DEFINE Inv == InstallInv /\ LeaveInv
<1>1. DenyInit => Inv
  BY InstallStarts, LeaveStarts
<1>2. Inv /\ [DenyNext]_denyVars => Inv'
  BY InstallKept, LeaveKept
<1>3. Inv => DenyDeserved
  <2> SUFFICES ASSUME Inv, NEW p \in verdicts \ lost, QuietFor(p)
               PROVE  proc[p].st \in {"live", "dying"} /\ Denies(rules, proc[p].exe)
    BY DEF DenyDeserved
  <2>1. /\ mode = "up" /\ \A r \in Runners : runner[r].pc = "idle"
        /\ ~Leaving(p) /\ ~Judging(p)
    BY DEF QuietFor, Settled, Leaving, Evicting, Waiting, Judging
  <2>2. \A r \in Runners : ~Resynced(r, p)
    BY <2>1 DEF Resynced
  <2>3. ~Early
    BY <2>1 DEF Early
  <2> QED
    BY <2>1, <2>2, <2>3 DEF LeaveInv, DeadLeave, SparedLeave, Runners
<1> HIDE DEF Inv
<1> QED
  BY <1>1, <1>2, <1>3, PTL DEF DenySpec

-----------------------------------------------------------------------------
(* The offsets of the parent fields.                                       *)

LEMMA HeadAndTail ==
  ASSUME NEW a \in Nat, NEW b \in Nat, NEW c \in Nat, NEW s \in Seq(Nat)
  PROVE  LET w == <<a, b, c>> \o s
         IN /\ w \in Seq(Nat) /\ Len(w) = 3 + Len(s) /\ w[1] = a /\ w[2] = b
            /\ \A i \in 1..Len(s) : w[3 + i] = s[i]
<1>1. <<a, b, c>> \in Seq(Nat) /\ Len(<<a, b, c>>) = 3
  OBVIOUS
<1> DEFINE h == <<a, b, c>>
<1>2. h[1] = a /\ h[2] = b
  OBVIOUS
<1> HIDE DEF h
<1>3. /\ h \o s \in Seq(Nat) /\ Len(h \o s) = 3 + Len(s) /\ (h \o s)[1] = h[1] /\ (h \o s)[2] = h[2]
      /\ \A i \in 1..Len(s) : (h \o s)[3 + i] = s[i]
  BY <1>1 DEF h
<1> QED
  BY <1>2, <1>3 DEF h

\* A type and what the assumption says of it.
BtfType(t) ==
  /\ t \in BtfTypes
  /\ t.kind \in {Kinds.STRUCT, Kinds.KIND_UNION} =>
       /\ Len(t.members) = t.vlen
       /\ t.flag = 1 => \A j \in DOMAIN t.members : 8 * t.members[j].offset < BitfieldBase

LEMMA KindsDiffer ==
  /\ Kinds.STRUCT = 4 /\ Kinds.KIND_UNION = 5
  /\ \A k \in {Kinds.INT, Kinds.VAR, Kinds.DECL_TAG, Kinds.ARRAY, Kinds.ENUM, Kinds.FUNC_PROTO, Kinds.DATASEC, Kinds.ENUM64} :
       k # Kinds.STRUCT /\ k # Kinds.KIND_UNION
  BY DEF Kinds

LEMMA InfoIs ==
  ASSUME NEW k \in Nat, NEW v \in 0..(VlenBase - 1), NEW flag \in {0, 1}
  PROVE  /\ Info(k, v, flag) \in Nat
         /\ Info(k, v, flag) \div 2 = k * VlenBase + v /\ Info(k, v, flag) % 2 = flag
         /\ (k * VlenBase + v) \div VlenBase = k /\ (k * VlenBase + v) % VlenBase = v
<1> DEFINE x == k * VlenBase + v
<1>1. k * VlenBase \in Nat /\ v \in Nat /\ VlenBase \in Nat \ {0}
  BY ProductIsNat, BtfAssumption
<1>2. x \in Nat
  BY <1>1
<1>3. x \div VlenBase = k /\ x % VlenBase = v
  BY <1>1, DivMod
<1> HIDE DEF x
<1>4. x * 2 + flag \in Nat /\ (x * 2 + flag) \div 2 = x /\ (x * 2 + flag) % 2 = flag
  BY <1>2
<1>5. Info(k, v, flag) = x * 2 + flag
  BY DEF Info, x
<1> QED
  BY <1>3, <1>4, <1>5 DEF x

LEMMA RawOffsetIs ==
  ASSUME NEW t, BtfType(t), t.kind \in {Kinds.STRUCT, Kinds.KIND_UNION}, NEW j \in 1..t.vlen
  PROVE  LET raw == RawOffset(t, t.members[j])
         IN /\ raw \in Nat
            /\ (IF t.flag = 1 THEN raw % BitfieldBase ELSE raw) \div 8 = t.members[j].offset
<1> DEFINE m == t.members[j]
           o == m.offset
<1>1. m \in BtfMembers /\ t.flag \in {0, 1} /\ (t.flag = 1 => 8 * o < BitfieldBase)
  BY DEF BtfType, BtfTypes
<1>2. o \in Nat /\ m.width \in Nat /\ BitfieldBase \in Nat \ {0}
  BY <1>1, BtfAssumption DEF BtfMembers
<1> HIDE DEF m
<1>3. m.width * BitfieldBase \in Nat
  BY <1>2, ProductIsNat
<1>4. (8 * o) \div 8 = o
  BY <1>2
<1>5. CASE t.flag = 1
  <2>1. RawOffset(t, m) = m.width * BitfieldBase + 8 * o
    BY <1>2, <1>3, <1>5 DEF RawOffset
  <2>2. 8 * o \in 0..(BitfieldBase - 1)
    BY <1>1, <1>2, <1>5
  <2>3. (m.width * BitfieldBase + 8 * o) % BitfieldBase = 8 * o
    BY <1>2, <2>2, DivMod
  <2> QED
    BY <1>2, <1>3, <1>4, <1>5, <2>1, <2>3 DEF m
<1>6. CASE t.flag # 1
  BY <1>2, <1>4, <1>6 DEF RawOffset, m
<1> QED
  BY <1>5, <1>6

\* The words of a type: a header, and a tail as long as the header says.
LEMMA TypeWordsAre ==
  ASSUME NEW t, BtfType(t)
  PROVE  /\ TypeTail(t) \in Seq(Nat) /\ TypeWords(t) \in Seq(Nat)
         /\ Len(TypeWords(t)) = 3 + Len(TypeTail(t))
         /\ TypeWords(t)[1] = t.name /\ TypeWords(t)[2] = Info(t.kind, t.vlen, t.flag)
         /\ \A i \in 1..Len(TypeTail(t)) : TypeWords(t)[3 + i] = TypeTail(t)[i]
         /\ \A h : h.kind = t.kind /\ h.vlen = t.vlen => TailLen(h) = Len(TypeTail(t))
         /\ t.kind \in {Kinds.STRUCT, Kinds.KIND_UNION} => TypeTail(t) = [i \in 1..(3 * t.vlen) |-> MemberWord(t, i)]
<1>0. t.kind \in Nat /\ t.name \in Nat /\ t.flag \in {0, 1} /\ t.vlen \in 0..(VlenBase - 1) /\ t.vlen \in Nat
  BY BtfAssumption DEF BtfType, BtfTypes
<1>1. CASE t.kind \in {Kinds.STRUCT, Kinds.KIND_UNION}
  <2>1. TypeTail(t) = [i \in 1..(3 * t.vlen) |-> MemberWord(t, i)]
    BY <1>1 DEF TypeTail
  <2>2. ASSUME NEW i \in 1..(3 * t.vlen) PROVE MemberWord(t, i) \in Nat
    <3> DEFINE j == (i + 2) \div 3
    <3>1. j \in 1..t.vlen
      BY <1>0
    <3>2. t.members[j] \in BtfMembers
      BY <1>1, <3>1 DEF BtfType, BtfTypes
    <3>3. RawOffset(t, t.members[j]) \in Nat
      BY <1>1, <3>1, RawOffsetIs
    <3> HIDE DEF j
    <3>4. t.members[j].name \in Nat
      BY <3>2 DEF BtfMembers
    <3>5. MemberWord(t, i) = CASE i % 3 = 1 -> t.members[j].name [] i % 3 = 2 -> 1
                                [] OTHER -> RawOffset(t, t.members[j])
      BY DEF MemberWord, j
    <3> QED
      BY <3>3, <3>4, <3>5
  <2>3. TypeTail(t) \in Seq(Nat) /\ Len(TypeTail(t)) = 3 * t.vlen
    <3> DEFINE n == 3 * t.vlen
               g == TypeTail(t)
    <3>1. n \in Nat
      BY <1>0
    <3>2. g = [i \in 1..n |-> MemberWord(t, i)]
      BY <2>1
    <3>3. \A i \in 1..n : MemberWord(t, i) \in Nat
      BY <2>2
    <3> HIDE DEF n, g
    <3>4. g \in Seq(Nat) /\ Len(g) = n
      BY <3>1, <3>2, <3>3
    <3> QED
      BY <3>4 DEF n, g
  <2>4. ASSUME NEW h, h.kind = t.kind, h.vlen = t.vlen PROVE TailLen(h) = 3 * t.vlen
    <3>1. /\ h.kind \notin {Kinds.INT, Kinds.VAR, Kinds.DECL_TAG} /\ h.kind # Kinds.ARRAY
          /\ h.kind \in {Kinds.STRUCT, Kinds.KIND_UNION}
          /\ h.kind \notin {Kinds.ENUM, Kinds.FUNC_PROTO} /\ h.kind \notin {Kinds.DATASEC, Kinds.ENUM64}
      BY <1>1, <2>4, KindsDiffer
    <3> DEFINE k == h.kind
    <3> HIDE DEF k
    <3> QED
      BY <2>4, <3>1 DEF TailLen
  <2>5. TypeWords(t) = <<t.name, Info(t.kind, t.vlen, t.flag), 1>> \o TypeTail(t)
    BY DEF TypeWords
  <2>6. Info(t.kind, t.vlen, t.flag) \in Nat
    BY <1>0, InfoIs
  <2> HIDE DEF TypeTail
  <2> QED
    BY <1>0, <2>1, <2>3, <2>4, <2>5, <2>6, HeadAndTail
<1>2. CASE t.kind \notin {Kinds.STRUCT, Kinds.KIND_UNION}
  <2>1. TypeTail(t) = [i \in 1..TailWords(t) |-> IF i % 2 = 1 THEN Task ELSE Info(Kinds.STRUCT, 0, 0)]
    BY <1>2 DEF TypeTail
  <2>2. TailWords(t) \in Nat
    BY <1>0 DEF TailWords
  <2>3. Task \in Nat /\ Info(Kinds.STRUCT, 0, 0) \in Nat
    <3>1. 0 \in 0..(VlenBase - 1)
      BY BtfAssumption
    <3>2. Kinds.STRUCT \in Nat /\ 0 \in {0, 1}
      BY DEF Kinds
    <3> QED
      BY <3>1, <3>2, InfoIs, BtfAssumption
  <2>4. TypeTail(t) \in Seq(Nat) /\ Len(TypeTail(t)) = TailWords(t)
    BY <2>1, <2>2, <2>3
  <2>5. ASSUME NEW h, h.kind = t.kind, h.vlen = t.vlen PROVE TailLen(h) = TailWords(t)
    <3>1. h.kind \notin {Kinds.STRUCT, Kinds.KIND_UNION}
      BY <1>2, <2>5
    <3> QED
      BY <2>5, <3>1 DEF TailLen, TailWords, Kinds
  <2>6. TypeWords(t) = <<t.name, Info(t.kind, t.vlen, t.flag), 1>> \o TypeTail(t)
    BY DEF TypeWords
  <2>7. Info(t.kind, t.vlen, t.flag) \in Nat
    BY <1>0, InfoIs
  <2> QED
    BY <1>0, <1>2, <2>4, <2>5, <2>6, <2>7, HeadAndTail
<1> QED
  BY <1>1, <1>2

\* The words of a list of types: those of each, one after the other; Start(f, n) is
\* where type n + 1 begins.
Built(f, types) ==
  /\ f \in [0..Len(types) -> Seq(Nat)] /\ f[0] = <<>>
  /\ \A n \in 1..Len(types) : f[n] = f[n - 1] \o TypeWords(types[n])

BtfList(types) == types \in Seq(BtfTypes) /\ \A i \in DOMAIN types : BtfType(types[i])

LEMMA WordsBuilt ==
  ASSUME NEW types, BtfList(types)
  PROVE  \E f : Built(f, types) /\ Words(types) = f[Len(types)]
<1> DEFINE N == Len(types)
           Row(n) == [s \in Seq(Nat) |-> s \o TypeWords(types[n])]
           F == [n \in 1..N |-> Row(n)]
           Body(f, n) == IF n = 0 THEN <<>> ELSE f[n - 1] \o TypeWords(types[n])
           Rec(f) == f = [n \in 0..N |-> Body(f, n)]
<1>1. N \in Nat /\ DOMAIN types = 1..N
  BY DEF BtfList
<1>2. \A n \in 1..N : TypeWords(types[n]) \in Seq(Nat)
  BY <1>1, TypeWordsAre DEF BtfList
<1> HIDE DEF N
<1>3. \A n \in 1..N : Row(n) \in [Seq(Nat) -> Seq(Nat)]
  BY <1>2
<1>4. F \in [1..N -> [Seq(Nat) -> Seq(Nat)]]
  <2> HIDE DEF Row
  <2> QED
    BY <1>3
<1>5. <<>> \in Seq(Nat)
  OBVIOUS
<1> DEFINE S == Seq(Nat)
           none == <<>>
<1>A. PICK f : Unfolds(f, N, S, none, F)
  <2>1. F \in [1..N -> [S -> S]] /\ none \in S
    BY <1>4, <1>5
  <2> HIDE DEF F, S, none
  <2> QED
    BY <1>1, <2>1, Recursion
<1>6. f \in [0..N -> S] /\ f[0] = none /\ \A n \in 1..N : f[n] = F[n][f[n - 1]]
  <2> HIDE DEF F, S, none
  <2> QED
    BY <1>A DEF Unfolds
<1>7. \A n \in 1..N : f[n] = f[n - 1] \o TypeWords(types[n])
  <2> SUFFICES ASSUME NEW n \in 1..N PROVE f[n] = f[n - 1] \o TypeWords(types[n])
    OBVIOUS
  <2>1. f[n - 1] \in Seq(Nat)
    BY <1>1, <1>6
  <2>2. f[n] = F[n][f[n - 1]]
    BY <1>6
  <2> QED
    BY <2>1, <2>2
<1>8. Rec(f)
  <2>1. ASSUME NEW n \in 0..N PROVE f[n] = Body(f, n)
    <3>1. CASE n = 0
      BY <1>6, <3>1
    <3>2. CASE n # 0
      <4>1. n \in 1..N
        BY <1>1, <3>2
      <4> QED
        BY <1>7, <3>2, <4>1
    <3> QED
      BY <3>1, <3>2
  <2> HIDE DEF Body
  <2> QED
    BY <1>6, <2>1
<1> DEFINE upTo == CHOOSE x : Rec(x)
<1>9. Rec(upTo)
  <2> HIDE DEF Rec
  <2> QED
    BY <1>8
<1>10. Words(types) = upTo[N]
  BY DEF Words, N
<1> HIDE DEF upTo
<1>11. \A n \in 0..N : upTo[n] = Body(upTo, n)
  <2> HIDE DEF Body
  <2> QED
    BY <1>9
<1>12. upTo[0] = <<>> /\ \A n \in 1..N : upTo[n] = upTo[n - 1] \o TypeWords(types[n])
  <2>1. 0 \in 0..N /\ \A n \in 1..N : n \in 0..N /\ n # 0
    BY <1>1
  <2>2. upTo[0] = <<>>
    BY <1>11, <2>1
  <2>3. ASSUME NEW n \in 1..N PROVE upTo[n] = upTo[n - 1] \o TypeWords(types[n])
    <3>1. n \in 0..N /\ n # 0
      BY <2>1
    <3>2. upTo[n] = Body(upTo, n)
      BY <1>11, <3>1
    <3> QED
      BY <3>1, <3>2
  <2> QED
    BY <2>2, <2>3
<1>13. \A n \in 0..N : upTo[n] \in Seq(Nat)
  <2> DEFINE T == {n \in 0..N : upTo[n] \notin Seq(Nat)}
  <2>0. ASSUME T # {} PROVE FALSE
    <3>1. T \in SUBSET Nat
      BY <1>1
    <3> HIDE DEF T
    <3>2. PICK n \in T : \A m \in T : n <= m
      BY <2>0, <3>1, NatLeast
    <3> USE DEF T
    <3>3. n \in 0..N /\ upTo[n] \notin Seq(Nat)
      BY <3>2
    <3>4. n # 0
      BY <1>5, <1>12, <3>3
    <3>5. n - 1 \in 0..N /\ n - 1 \notin T
      BY <1>1, <3>2, <3>3, <3>4
    <3>6. n \in 1..N /\ upTo[n - 1] \in Seq(Nat)
      BY <1>1, <3>3, <3>4, <3>5
    <3>7. upTo[n - 1] \o TypeWords(types[n]) \in Seq(Nat)
      BY <1>2, <3>6
    <3> QED
      BY <1>12, <3>3, <3>6, <3>7
  <2> QED
    BY <2>0
<1>14. upTo = [n \in 0..N |-> upTo[n]]
  BY <1>9
<1>15. Built(upTo, types)
  <2> HIDE DEF Rec
  <2> QED
    BY <1>12, <1>13, <1>14 DEF Built, N
<1> QED
  BY <1>10, <1>15 DEF N

\* What the first types say is not disturbed by those that follow.
LEMMA WordsOnlyGrow ==
  ASSUME NEW types, BtfList(types), NEW f, Built(f, types), NEW n \in 0..Len(types), NEW m \in n..Len(types)
  PROVE  Len(f[n]) <= Len(f[m]) /\ \A i \in 1..Len(f[n]) : f[m][i] = f[n][i]
<1> DEFINE Same(k) == Len(f[n]) <= Len(f[k]) /\ \A i \in 1..Len(f[n]) : f[k][i] = f[n][i]
           T == {k \in n..Len(types) : ~Same(k)}
<1>1. ASSUME T # {} PROVE FALSE
  <2>1. T \in SUBSET Nat
    BY DEF BtfList
  <2> HIDE DEF T
  <2>2. PICK k \in T : \A l \in T : k <= l
    BY <1>1, <2>1, NatLeast
  <2> USE DEF T
  <2> HIDE DEF Same
  <2>3. k \in n..Len(types) /\ ~Same(k)
    BY <2>2
  <2>4. f[n] \in Seq(Nat)
    BY DEF Built
  <2>5. k # n
    BY <2>3, <2>4 DEF Same
  <2>6. k - 1 \in n..Len(types) /\ k - 1 \notin T
    BY <2>2, <2>3, <2>5 DEF BtfList
  <2>7. Same(k - 1)
    BY <2>6
  <2>8. k \in 1..Len(types) /\ k - 1 \in 0..Len(types)
    BY <2>3, <2>6 DEF BtfList
  <2>9. f[k - 1] \in Seq(Nat) /\ f[k] = f[k - 1] \o TypeWords(types[k])
    BY <2>8 DEF Built
  <2>10. TypeWords(types[k]) \in Seq(Nat)
    BY <2>8, TypeWordsAre DEF BtfList
  <2> DEFINE s == f[k - 1]
             x == TypeWords(types[k])
  <2> HIDE DEF s, x
  <2>11. s \in Seq(Nat) /\ x \in Seq(Nat) /\ f[k] = s \o x
    BY <2>9, <2>10 DEF s, x
  <2>12. Len(f[n]) <= Len(s) /\ \A i \in 1..Len(f[n]) : s[i] = f[n][i]
    BY <2>7 DEF Same, s
  <2>13. Len(s) <= Len(f[k]) /\ \A i \in 1..Len(s) : f[k][i] = s[i]
    BY <2>11
  <2>14. Same(k)
    BY <2>4, <2>11, <2>12, <2>13 DEF Same
  <2> QED
    BY <2>3, <2>14
<1> HIDE DEF Same
<1>2. Same(m)
  BY <1>1
<1> QED
  BY <1>2 DEF Same

\* The words x are in w from p up to e.
LaidOut(w, p, x, e) ==
  w \in Seq(Nat) /\ p \in Nat /\ p + Len(x) = e /\ e <= Len(w) /\ \A j \in 1..Len(x) : w[p + j] = x[j]

\* Where type n begins, and what is there.
LEMMA TypeFound ==
  ASSUME NEW types, BtfList(types), NEW f, Built(f, types), NEW n \in 1..Len(types)
  PROVE  LaidOut(f[Len(types)], Len(f[n - 1]), TypeWords(types[n]), Len(f[n]))
<1> DEFINE N == Len(types)
           w == f[N]
           s == f[n - 1]
           x == TypeWords(types[n])
<1>1. N \in Nat /\ n \in 0..N /\ n - 1 \in 0..N /\ N \in 0..N /\ N \in n..N
  BY DEF BtfList
<1>2. w \in Seq(Nat) /\ s \in Seq(Nat) /\ f[n] = s \o x
  BY <1>1 DEF Built
<1>3. x \in Seq(Nat)
  BY TypeWordsAre DEF BtfList
<1>4. Len(f[n]) <= Len(w) /\ \A i \in 1..Len(f[n]) : w[i] = f[n][i]
  BY <1>1, WordsOnlyGrow
<1> HIDE DEF w, s, x, N
<1>5. Len(f[n]) = Len(s) + Len(x) /\ Len(s) \in Nat /\ \A j \in 1..Len(x) : f[n][Len(s) + j] = x[j]
  BY <1>2, <1>3
<1>6. ASSUME NEW j \in 1..Len(x) PROVE w[Len(s) + j] = x[j]
  <2>1. Len(s) + j \in 1..Len(f[n])
    BY <1>3, <1>5
  <2> QED
    BY <1>4, <1>5, <2>1
<1>7. LaidOut(w, Len(s), x, Len(f[n]))
  BY <1>2, <1>4, <1>5, <1>6 DEF LaidOut
<1> QED
  BY <1>7 DEF w, s, x, N

\* The walk reads a type's own header where it begins, and steps to the type after it.
LEMMA HeaderRead ==
  ASSUME NEW types, BtfList(types), NEW f, Built(f, types), NEW n \in 1..Len(types)
  PROVE  LET w == f[Len(types)]
             p == Len(f[n - 1])
             t == types[n]
             h == HeaderAt(w, p)
         IN /\ h.name = t.name /\ h.kind = t.kind /\ h.vlen = t.vlen /\ h.flag = t.flag
            /\ p \in 0..Len(w) /\ p + 2 <= Len(w) /\ p + 3 + TailLen(h) = Len(f[n]) /\ p < Len(f[n])
            /\ \A i \in 1..Len(TypeTail(t)) : w[p + 3 + i] = TypeTail(t)[i]
<1> DEFINE w == f[Len(types)]
           p == Len(f[n - 1])
           t == types[n]
           x == TypeWords(t)
           s == TypeTail(t)
           h == HeaderAt(w, p)
<1>1. BtfType(t) /\ t.kind \in Nat /\ t.name \in Nat /\ t.flag \in {0, 1} /\ t.vlen \in 0..(VlenBase - 1)
  <2>1. BtfType(t) /\ t \in BtfTypes
    BY DEF BtfList
  <2> HIDE DEF t
  <2> QED
    BY <2>1 DEF BtfTypes
<1>2. /\ w \in Seq(Nat) /\ p \in Nat /\ p + Len(x) = Len(f[n]) /\ Len(f[n]) <= Len(w)
      /\ \A j \in 1..Len(x) : w[p + j] = x[j]
  <2>1. LaidOut(w, p, x, Len(f[n]))
    BY TypeFound
  <2> HIDE DEF w, p, x, h
  <2> QED
    BY <2>1 DEF LaidOut
<1>3. /\ s \in Seq(Nat) /\ Len(x) = 3 + Len(s) /\ x[1] = t.name /\ x[2] = Info(t.kind, t.vlen, t.flag)
      /\ \A i \in 1..Len(s) : x[3 + i] = s[i]
      /\ \A r : r.kind = t.kind /\ r.vlen = t.vlen => TailLen(r) = Len(s)
  BY <1>1, TypeWordsAre
<1> HIDE DEF w, p, s, x
<1>4. Len(s) \in Nat /\ Len(w) \in Nat /\ 1 \in 1..Len(x) /\ 2 \in 1..Len(x)
  BY <1>2, <1>3
<1>5. w[p + 1] = t.name /\ w[p + 2] = Info(t.kind, t.vlen, t.flag)
  BY <1>2, <1>3, <1>4
<1>6. /\ Info(t.kind, t.vlen, t.flag) \div 2 = t.kind * VlenBase + t.vlen
      /\ Info(t.kind, t.vlen, t.flag) % 2 = t.flag
      /\ (t.kind * VlenBase + t.vlen) \div VlenBase = t.kind
      /\ (t.kind * VlenBase + t.vlen) % VlenBase = t.vlen
  <2> DEFINE k == t.kind
             v == t.vlen
             g == t.flag
  <2>1. k \in Nat /\ v \in 0..(VlenBase - 1) /\ g \in {0, 1}
    BY <1>1
  <2> HIDE DEF k, v, g
  <2>2. /\ Info(k, v, g) \div 2 = k * VlenBase + v /\ Info(k, v, g) % 2 = g
        /\ (k * VlenBase + v) \div VlenBase = k /\ (k * VlenBase + v) % VlenBase = v
    BY <2>1, InfoIs
  <2> QED
    BY <2>2 DEF k, v, g
<1>7. h.name = t.name /\ h.kind = t.kind /\ h.vlen = t.vlen /\ h.flag = t.flag
  BY <1>5, <1>6 DEF HeaderAt
<1> HIDE DEF h
<1>8. TailLen(h) = Len(s)
  BY <1>3, <1>7
<1>9. ASSUME NEW i \in 1..Len(s) PROVE w[p + 3 + i] = s[i]
  <2>1. 3 + i \in 1..Len(x) /\ p + (3 + i) = p + 3 + i
    BY <1>2, <1>3, <1>4
  <2>2. w[p + (3 + i)] = x[3 + i]
    BY <1>2, <2>1
  <2> QED
    BY <1>3, <2>1, <2>2
<1>10. p \in 0..Len(w) /\ p + 2 <= Len(w) /\ p + 3 + TailLen(h) = Len(f[n]) /\ p < Len(f[n])
  <2>1. p \in Nat /\ p + Len(x) = Len(f[n]) /\ Len(f[n]) <= Len(w) /\ Len(x) = 3 + Len(s)
    BY <1>2, <1>3
  <2>2. Len(f[n]) = p + 3 + Len(s) /\ Len(f[n]) \in Nat
    BY <1>4, <2>1
  <2> QED
    BY <1>4, <1>8, <2>1, <2>2
<1> QED
  BY <1>7, <1>9, <1>10 DEF w, p, h, s

LEMMA MinIs ==
  ASSUME NEW S \in SUBSET Nat, NEW m \in S, \A n \in S : m <= n
  PROVE  Min(S) = m
<1>1. \E x \in S : \A y \in S : x <= y
  OBVIOUS
<1>2. Min(S) \in S /\ \A y \in S : Min(S) <= y
  BY <1>1 DEF Min
<1>3. Min(S) \in Nat /\ m \in Nat /\ Min(S) <= m /\ m <= Min(S)
  BY <1>2
<1> QED
  BY <1>3

\* The tail of t is in w after b.
TailIn(w, b, t) == \A k \in 1..Len(TypeTail(t)) : w[b + k] = TypeTail(t)[k]

\* The words of a member are its own.
LEMMA MemberRead ==
  ASSUME NEW t, BtfType(t), t.kind \in {Kinds.STRUCT, Kinds.KIND_UNION}, NEW w, NEW b \in Nat, TailIn(w, b, t),
         NEW i \in 0..(t.vlen - 1)
  PROVE  w[b + 3 * i + 1] = t.members[i + 1].name /\ w[b + 3 * i + 3] = RawOffset(t, t.members[i + 1])
<1>1. t.vlen \in Nat /\ i \in Nat
  BY BtfAssumption DEF BtfType, BtfTypes
<1> DEFINE x == TypeTail(t)
<1>2. x = [k \in 1..(3 * t.vlen) |-> MemberWord(t, k)]
  BY TypeWordsAre
<1> HIDE DEF x
<1>3. Len(x) = 3 * t.vlen
  BY <1>1, <1>2
<1>4. ASSUME NEW k \in 1..(3 * t.vlen) PROVE w[b + k] = MemberWord(t, k)
  BY <1>2, <1>3, <1>4 DEF x, TailIn
<1>5. 3 * i + 1 \in 1..(3 * t.vlen) /\ b + 3 * i + 1 = b + (3 * i + 1)
  BY <1>1
<1>6. 3 * i + 3 \in 1..(3 * t.vlen) /\ b + 3 * i + 3 = b + (3 * i + 3)
  BY <1>1
<1>7. ((3 * i + 1) + 2) \div 3 = i + 1 /\ (3 * i + 1) % 3 = 1
  BY <1>1
<1>8. ((3 * i + 3) + 2) \div 3 = i + 1 /\ (3 * i + 3) % 3 = 0
  BY <1>1
<1>9. MemberWord(t, 3 * i + 1) = t.members[i + 1].name
  BY <1>7 DEF MemberWord
<1>10. MemberWord(t, 3 * i + 3) = RawOffset(t, t.members[i + 1])
  BY <1>8 DEF MemberWord
<1>11. w[b + (3 * i + 1)] = MemberWord(t, 3 * i + 1)
  BY <1>4, <1>5
<1>12. w[b + (3 * i + 3)] = MemberWord(t, 3 * i + 3)
  BY <1>4, <1>6
<1> QED
  BY <1>5, <1>6, <1>9, <1>10, <1>11, <1>12

\* The first member of a name, 0 if there is none.
DeclaredOffset(members, name) ==
  LET hits == {j \in DOMAIN members : members[j].name = name}
  IN IF hits = {} THEN 0 ELSE members[Min(hits)].offset

LEMMA MemberOffsetIs ==
  ASSUME NEW t, BtfType(t), t.kind \in {Kinds.STRUCT, Kinds.KIND_UNION}, NEW w, NEW b \in Nat, TailIn(w, b, t),
         NEW h, h.vlen = t.vlen, h.flag = t.flag, NEW name
  PROVE  MemberOffset(w, b, h, name) = DeclaredOffset(t.members, name)
<1> DEFINE hits == {i \in 0..(h.vlen - 1) : w[b + 3 * i + 1] = name}
           decl == {j \in DOMAIN t.members : t.members[j].name = name}
           raw(i) == w[b + 3 * i + 3]
           V == t.vlen
<1>1. V \in Nat /\ DOMAIN t.members = 1..V
  BY BtfAssumption DEF BtfType, BtfTypes
<1> HIDE DEF V
<1>2. ASSUME NEW i \in 0..(V - 1) PROVE w[b + 3 * i + 1] = t.members[i + 1].name /\ raw(i) = RawOffset(t, t.members[i + 1])
  <2>1. i \in 0..(t.vlen - 1)
    BY DEF V
  <2>2. w[b + 3 * i + 1] = t.members[i + 1].name /\ w[b + 3 * i + 3] = RawOffset(t, t.members[i + 1])
    BY <2>1, MemberRead
  <2> QED
    BY <2>2
<1>3. hits = {i \in 0..(V - 1) : t.members[i + 1].name = name}
  BY <1>2 DEF V
<1>4. decl = {j \in 1..V : t.members[j].name = name}
  BY <1>1
<1> HIDE DEF hits, decl, raw
<1>5. ASSUME hits = {} PROVE decl = {}
  <2> SUFFICES ASSUME NEW j \in decl PROVE FALSE
    OBVIOUS
  <2>1. j \in 1..V /\ t.members[j].name = name
    BY <1>4
  <2>2. j - 1 \in 0..(V - 1) /\ (j - 1) + 1 = j
    BY <1>1, <2>1
  <2>3. j - 1 \in hits
    BY <1>3, <2>1, <2>2
  <2> QED
    BY <1>5, <2>3
<1>6. ASSUME hits # {}
      PROVE  Min(hits) \in 0..(V - 1) /\ decl # {} /\ Min(decl) = Min(hits) + 1
  <2>1. hits \in SUBSET Nat /\ decl \in SUBSET Nat
    BY <1>1, <1>3, <1>4
  <2>2. PICK m \in hits : \A n \in hits : m <= n
    BY <1>6, <2>1, NatLeast
  <2>3. m \in Nat /\ Min(hits) = m
    BY <2>1, <2>2, MinIs
  <2>4. m \in 0..(V - 1) /\ t.members[m + 1].name = name
    BY <1>3, <2>2
  <2>5. m + 1 \in decl
    BY <1>1, <1>4, <2>4
  <2>6. ASSUME NEW j \in decl PROVE m + 1 <= j
    <3>1. j \in 1..V /\ t.members[j].name = name
      BY <1>4
    <3>2. j - 1 \in 0..(V - 1) /\ (j - 1) + 1 = j
      BY <1>1, <3>1
    <3>3. j - 1 \in hits
      BY <1>3, <3>1, <3>2
    <3> QED
      BY <2>2, <2>3, <3>1, <3>3
  <2> DEFINE k == m + 1
  <2>7. k \in decl /\ \A j \in decl : k <= j
    BY <2>5, <2>6
  <2> HIDE DEF k
  <2>8. Min(decl) = k
    BY <2>1, <2>7, MinIs
  <2> QED
    BY <2>3, <2>4, <2>5, <2>8 DEF k
<1> DEFINE first == Min(hits)
           offset == (IF h.flag = 1 THEN raw(first) % BitfieldBase ELSE raw(first)) \div 8
<1>7. MemberOffset(w, b, h, name) = IF hits = {} THEN 0 ELSE offset
  BY DEF MemberOffset, hits, raw
<1>8. DeclaredOffset(t.members, name) = IF decl = {} THEN 0 ELSE t.members[Min(decl)].offset
  BY DEF DeclaredOffset, decl
<1>9. ASSUME hits # {} PROVE offset = t.members[Min(decl)].offset
  <2>1. first \in 0..(V - 1) /\ Min(decl) = first + 1
    BY <1>6, <1>9
  <2> HIDE DEF first
  <2>2. raw(first) = RawOffset(t, t.members[first + 1])
    BY <1>2, <2>1
  <2> DEFINE j == first + 1
  <2>3. j \in 1..t.vlen
    BY <1>1, <2>1 DEF V
  <2> HIDE DEF j
  <2>4. (IF t.flag = 1 THEN RawOffset(t, t.members[j]) % BitfieldBase ELSE RawOffset(t, t.members[j])) \div 8 = t.members[j].offset
    BY <2>3, RawOffsetIs
  <2> QED
    BY <2>1, <2>2, <2>4 DEF j
<1> HIDE DEF offset
<1> QED
  BY <1>5, <1>6, <1>7, <1>8, <1>9

\* What the walk finds from c on, if g is what it finds from every place after c.
WalkFrom(w, g, c) ==
  IF c + 2 > Len(w) THEN Unresolved
  ELSE LET h == HeaderAt(w, c)
           next == c + 3 + TailLen(h)
       IN IF next > Len(w) THEN Unresolved
          ELSE IF h.kind = Kinds.STRUCT /\ h.name = Task
            THEN [real_parent |-> MemberOffset(w, c + 3, h, Wanted[1]),
                  tgid |-> MemberOffset(w, c + 3, h, Wanted[2])]
          ELSE g[next]

\* The walk always ends: every header is read in bounds and the next lies further on.
LEMMA WalkIs ==
  ASSUME NEW w \in Seq(Nat)
  PROVE  \E g : MemberOffsets(w) = g[0] /\ \A c \in 0..Len(w) : g[c] = WalkFrom(w, g, c)
<1> DEFINE L == Len(w)
           H(c) == HeaderAt(w, c)
           step(c) == c + 3 + TailLen(H(c))
           task(c) == H(c).kind = Kinds.STRUCT /\ H(c).name = Task
           offsets(c) == [real_parent |-> MemberOffset(w, c + 3, H(c), Wanted[1]),
                          tgid |-> MemberOffset(w, c + 3, H(c), Wanted[2])]
           stop == {c \in 0..L : c + 2 > L \/ step(c) > L \/ task(c)}
           value == [c \in 0..L |-> IF c + 2 > L \/ step(c) > L THEN Unresolved ELSE offsets(c)]
           next == [c \in 0..L |-> IF c \in stop THEN 0 ELSE step(c)]
           Rec(x) == x = [c \in 0..L |-> WalkFrom(w, x, c)]
<1>1. L \in Nat /\ 0 \in 0..L
  OBVIOUS
<1>2. ASSUME NEW c \in 0..L, c + 2 <= L PROVE TailLen(H(c)) \in Nat
  <2>1. w[c + 2] \in Nat
    BY <1>1, <1>2
  <2>2. w[c + 2] \div 2 \in Nat
    BY <2>1
  <2>3. H(c).vlen = (w[c + 2] \div 2) % VlenBase
    BY DEF HeaderAt
  <2>4. H(c).vlen \in Nat
    BY <2>2, <2>3, BtfAssumption
  <2> DEFINE h == H(c)
  <2> HIDE DEF h
  <2>5. TailLen(h) \in Nat
    BY <2>4 DEF TailLen, h
  <2> QED
    BY <2>5 DEF h
<1> HIDE DEF L, H
<1>3. ASSUME NEW c \in 0..L, c \notin stop PROVE step(c) \in 0..L /\ c < step(c)
  <2>1. ~(c + 2 > L) /\ ~(step(c) > L)
    BY <1>3
  <2>2. TailLen(H(c)) \in Nat
    BY <1>1, <1>2, <2>1
  <2> QED
    BY <1>1, <2>1, <2>2
<1>4. \A c \in 0..L : next[c] = IF c \in stop THEN 0 ELSE step(c)
  OBVIOUS
<1>5. next \in [0..L -> Nat]
  <2> SUFFICES ASSUME NEW c \in 0..L PROVE (IF c \in stop THEN 0 ELSE step(c)) \in Nat
    OBVIOUS
  <2> HIDE DEF step, stop
  <2> QED
    BY <1>1, <1>3
<1>6. \A c \in 0..L : c \notin stop => next[c] \in 0..L /\ c < next[c]
  <2> HIDE DEF next, stop, step
  <2> QED
    BY <1>3, <1>4
<1>A. PICK g : Walks(g, L, stop, value, next)
  <2> HIDE DEF next, stop, value
  <2> QED
    BY <1>1, <1>5, <1>6, Walk
<1>7. g = [c \in 0..L |-> IF c \in stop THEN value[c] ELSE g[next[c]]]
  <2> HIDE DEF next, stop, value
  <2> QED
    BY <1>A DEF Walks
<1>8. ASSUME NEW c \in 0..L PROVE g[c] = WalkFrom(w, g, c)
  <2>1. g[c] = IF c \in stop THEN value[c] ELSE g[next[c]]
    <3> HIDE DEF next, stop, value
    <3> QED
      BY <1>7
  <2>2. WalkFrom(w, g, c) = IF c + 2 > L THEN Unresolved ELSE IF step(c) > L THEN Unresolved
                            ELSE IF task(c) THEN offsets(c) ELSE g[step(c)]
    BY DEF WalkFrom, L, H
  <2>3. value[c] = IF c + 2 > L \/ step(c) > L THEN Unresolved ELSE offsets(c)
    OBVIOUS
  <2>4. c \in stop <=> c + 2 > L \/ step(c) > L \/ task(c)
    OBVIOUS
  <2>5. next[c] = IF c \in stop THEN 0 ELSE step(c)
    BY <1>4
  <2> HIDE DEF next, stop, value, step, task, offsets
  <2> QED
    BY <2>1, <2>2, <2>3, <2>4, <2>5
<1>9. Rec(g)
  <2>1. g = [c \in 0..L |-> g[c]]
    <3> HIDE DEF next, stop, value
    <3> QED
      BY <1>7
  <2> QED
    BY <1>8, <2>1
<1> DEFINE walk == CHOOSE x : Rec(x)
<1>10. Rec(walk)
  <2> HIDE DEF Rec
  <2> QED
    BY <1>9
<1>11. MemberOffsets(w) = walk[0]
  BY DEF MemberOffsets, WalkFrom, L
<1> HIDE DEF walk
<1>12. \A c \in 0..L : walk[c] = WalkFrom(w, walk, c)
  BY <1>10
<1> QED
  BY <1>11, <1>12 DEF L

\* g is what the walk finds from every place.
Walked(w, g) == \A c \in 0..Len(w) : g[c] = WalkFrom(w, g, c)

StepsOver(types, f, g, n) ==
  g[Len(f[n - 1])] =
    IF types[n].kind = Kinds.STRUCT /\ types[n].name = Task
      THEN [real_parent |-> DeclaredOffset(types[n].members, Wanted[1]),
            tgid |-> DeclaredOffset(types[n].members, Wanted[2])]
      ELSE g[Len(f[n])]

\* At the beginning of a type the walk ends if it is task_struct, and goes on to the next otherwise.
LEMMA WalkOverType ==
  ASSUME NEW types, BtfList(types), NEW f, Built(f, types), NEW n \in 1..Len(types), NEW g,
         Walked(f[Len(types)], g)
  PROVE  StepsOver(types, f, g, n)
<1> DEFINE w == f[Len(types)]
           p == Len(f[n - 1])
           e == Len(f[n])
           t == types[n]
           s == TypeTail(t)
           h == HeaderAt(w, p)
<1>1. /\ h.name = t.name /\ h.kind = t.kind /\ h.vlen = t.vlen /\ h.flag = t.flag
      /\ p \in 0..Len(w) /\ p + 2 <= Len(w) /\ p + 3 + TailLen(h) = e /\ p < e
      /\ \A i \in 1..Len(s) : w[p + 3 + i] = s[i]
  BY HeaderRead
<1>2. BtfType(t)
  BY DEF BtfList
<1>3. LaidOut(w, p, TypeWords(t), e)
  BY TypeFound
<1>4. e <= Len(w) /\ w \in Seq(Nat) /\ p \in Nat
  BY <1>3 DEF LaidOut
<1>5. g[p] = WalkFrom(w, g, p)
  BY <1>1 DEF Walked
<1> HIDE DEF w, p, e, t, s
<1>6. WalkFrom(w, g, p) = IF p + 2 > Len(w) THEN Unresolved
        ELSE IF p + 3 + TailLen(h) > Len(w) THEN Unresolved
        ELSE IF h.kind = Kinds.STRUCT /\ h.name = Task
          THEN [real_parent |-> MemberOffset(w, p + 3, h, Wanted[1]), tgid |-> MemberOffset(w, p + 3, h, Wanted[2])]
        ELSE g[p + 3 + TailLen(h)]
  BY DEF WalkFrom
<1> HIDE DEF h
<1>7. ~(p + 2 > Len(w)) /\ ~(e > Len(w))
  BY <1>1, <1>3, <1>4 DEF LaidOut
<1>8. WalkFrom(w, g, p) = IF t.kind = Kinds.STRUCT /\ t.name = Task
          THEN [real_parent |-> MemberOffset(w, p + 3, h, Wanted[1]), tgid |-> MemberOffset(w, p + 3, h, Wanted[2])]
        ELSE g[e]
  BY <1>1, <1>6, <1>7
<1>9. ASSUME t.kind = Kinds.STRUCT, NEW name
      PROVE  MemberOffset(w, p + 3, h, name) = DeclaredOffset(t.members, name)
  <2> DEFINE b == p + 3
  <2>1. b \in Nat /\ \A i \in 1..Len(s) : w[b + i] = s[i]
    BY <1>1, <1>4
  <2> HIDE DEF b
  <2>2. TailIn(w, b, t)
    BY <2>1 DEF TailIn, s
  <2>3. h.vlen = t.vlen /\ h.flag = t.flag /\ t.kind \in {Kinds.STRUCT, Kinds.KIND_UNION}
    BY <1>1, <1>9
  <2>4. MemberOffset(w, b, h, name) = DeclaredOffset(t.members, name)
    BY <1>2, <2>1, <2>2, <2>3, MemberOffsetIs
  <2> QED
    BY <2>4 DEF b
<1>10. g[p] = IF t.kind = Kinds.STRUCT /\ t.name = Task
          THEN [real_parent |-> DeclaredOffset(t.members, Wanted[1]), tgid |-> DeclaredOffset(t.members, Wanted[2])]
        ELSE g[e]
  BY <1>5, <1>8, <1>9
<1> QED
  BY <1>10 DEF p, e, t, StepsOver

LEMMA OffsetsAreDeclared ==
  ASSUME NEW types, BtfList(types)
  PROVE  MemberOffsets(Words(types)) = [real_parent |-> Declared(types, Wanted[1]), tgid |-> Declared(types, Wanted[2])]
<1> DEFINE N == Len(types)
           task(n) == types[n].kind = Kinds.STRUCT /\ types[n].name = Task
           structs == {n \in DOMAIN types : task(n)}
           offsets(n) == [real_parent |-> DeclaredOffset(types[n].members, Wanted[1]),
                          tgid |-> DeclaredOffset(types[n].members, Wanted[2])]
<1>1. N \in Nat /\ DOMAIN types = 1..N
  BY DEF BtfList
<1>2. PICK f : Built(f, types) /\ Words(types) = f[Len(types)]
  BY WordsBuilt
<1> DEFINE w == f[N]
<1>3. w \in Seq(Nat) /\ f[0] = <<>>
  BY <1>1, <1>2 DEF Built
<1>4. PICK g : MemberOffsets(w) = g[0] /\ \A c \in 0..Len(w) : g[c] = WalkFrom(w, g, c)
  <2> HIDE DEF w
  <2> QED
    BY <1>3, WalkIs
<1> DEFINE at(n) == g[Len(f[n])]
<1>5. ASSUME NEW n \in 1..N PROVE at(n - 1) = IF task(n) THEN offsets(n) ELSE at(n)
  <2>1. Walked(f[Len(types)], g)
    BY <1>4 DEF Walked
  <2>2. StepsOver(types, f, g, n)
    BY <1>2, <2>1, WalkOverType
  <2> QED
    BY <2>2 DEF StepsOver
<1>6. g[0] = at(0)
  BY <1>3
<1>7. at(N) = Unresolved
  <2>1. Len(w) \in Nat /\ Len(w) \in 0..Len(w) /\ Len(w) + 2 > Len(w)
    BY <1>3
  <2>2. g[Len(w)] = WalkFrom(w, g, Len(w))
    BY <1>4, <2>1
  <2> HIDE DEF w
  <2>3. WalkFrom(w, g, Len(w)) = Unresolved
    BY <2>1 DEF WalkFrom
  <2> QED
    BY <2>2, <2>3 DEF w
<1> HIDE DEF N, at, offsets, task
<1>8. ASSUME NEW m \in 0..N, \A n \in 1..m : ~task(n)
      PROVE  at(m) = at(0)
  <2> DEFINE T == {n \in 0..m : at(n) # at(0)}
  <2>1. ASSUME T # {} PROVE FALSE
    <3>1. T \in SUBSET Nat
      BY <1>1, <1>8
    <3> HIDE DEF T
    <3>2. PICK n \in T : \A k \in T : n <= k
      BY <2>1, <3>1, NatLeast
    <3> USE DEF T
    <3>3. n \in 0..m /\ at(n) # at(0)
      BY <3>2
    <3>4. n # 0
      BY <3>3
    <3>5. n \in 1..m /\ n \in 1..N /\ n - 1 \in 0..m
      BY <1>1, <1>8, <3>3, <3>4
    <3>6. n - 1 \notin T
      BY <1>1, <1>8, <3>2, <3>3
    <3>7. at(n - 1) = at(0)
      BY <3>5, <3>6
    <3> QED
      BY <1>5, <1>8, <3>3, <3>5, <3>7
  <2>2. m \in 0..m
    BY <1>1, <1>8
  <2> QED
    BY <2>1, <2>2
<1>9. ASSUME structs = {}, NEW name PROVE Declared(types, name) = 0
  BY <1>9 DEF Declared, task
<1>10. ASSUME NEW m \in structs, \A n \in structs : m <= n, NEW name
       PROVE  Declared(types, name) = DeclaredOffset(types[m].members, name)
  <2>1. structs \in SUBSET Nat
    BY <1>1
  <2> HIDE DEF structs
  <2>2. Min(structs) = m
    BY <1>10, <2>1, MinIs
  <2>3. structs # {}
    BY <1>10
  <2> DEFINE members == types[m].members
             hits == {j \in DOMAIN members : members[j].name = name}
  <2>4. Declared(types, name) = IF structs = {} \/ hits = {} THEN 0 ELSE members[Min(hits)].offset
    BY <2>2 DEF Declared, structs, task
  <2> QED
    BY <2>3, <2>4 DEF DeclaredOffset
<1>11. CASE structs = {}
  <2>1. \A n \in 1..N : ~task(n)
    BY <1>1, <1>11
  <2>2. N \in 0..N
    BY <1>1
  <2>3. at(N) = at(0)
    BY <1>8, <2>1, <2>2
  <2>4. MemberOffsets(w) = Unresolved
    BY <1>4, <1>6, <1>7, <2>3
  <2>5. Words(types) = w
    BY <1>2 DEF N
  <2> HIDE DEF w, structs
  <2> QED
    BY <1>9, <1>11, <2>4, <2>5 DEF Unresolved
<1>12. CASE structs # {}
  <2>1. structs \in SUBSET Nat
    BY <1>1
  <2>2. PICK m \in structs : \A n \in structs : m <= n
    <3> HIDE DEF structs
    <3> QED
      BY <1>12, <2>1, NatLeast
  <2>3. m \in 1..N /\ task(m)
    BY <1>1, <2>2
  <2>4. m - 1 \in 0..N
    BY <1>1, <2>3
  <2>5. ASSUME NEW n \in 1..(m - 1) PROVE ~task(n)
    <3>1. n \in DOMAIN types /\ ~(m <= n)
      BY <1>1, <2>3
    <3> QED
      BY <2>2, <3>1
  <2> DEFINE k == m - 1
  <2>6. k \in 0..N /\ \A n \in 1..k : ~task(n)
    BY <2>4, <2>5
  <2> HIDE DEF k
  <2>7. at(k) = at(0)
    BY <1>8, <2>6
  <2>8. at(k) = offsets(m)
    BY <1>5, <2>3 DEF k
  <2>9. MemberOffsets(w) = offsets(m)
    BY <1>4, <1>6, <2>7, <2>8
  <2>10. Words(types) = w
    BY <1>2 DEF N
  <2>11. \A name : Declared(types, name) = DeclaredOffset(types[m].members, name)
    <3> HIDE DEF structs
    <3> QED
      BY <1>10, <2>2
  <2> HIDE DEF w
  <2> QED
    BY <2>9, <2>10, <2>11 DEF offsets
<1> QED
  BY <1>11, <1>12

\* The offsets patched into the exec program are those the kernel declares, whatever
\* types come before task_struct and however many, and none are taken from a file cut short.
THEOREM ParentFieldsRightHolds == BtfInit /\ [][BtfNext]_btfVars => []ParentFieldsRight
<1>1. ASSUME NEW types \in TypeLists PROVE BtfList(types)
  BY <1>1, BtfAssumption DEF BtfList, BtfType
<1>2. BtfInit => ParentFieldsRight
  BY DEF BtfInit, NoBlob, ParentFieldsRight
<1>3. ParentFieldsRight /\ [BtfNext]_btfVars => ParentFieldsRight'
  <2> SUFFICES ASSUME ParentFieldsRight, [BtfNext]_btfVars PROVE ParentFieldsRight'
    OBVIOUS
  <2>1. CASE BtfNext
    <3>1. PICK types \in TypeLists, whole \in BOOLEAN : ResolveOffsets(types, whole)
      BY <2>1 DEF BtfNext
    <3>2. blob'.types = types /\ blob'.whole = whole
      BY <3>1 DEF ResolveOffsets
    <3>3. found' = IF whole THEN MemberOffsets(Words(types)) ELSE Unresolved
      BY <3>1 DEF ResolveOffsets, TaskStructOffsetsFrom
    <3>4. MemberOffsets(Words(types)) = [real_parent |-> Declared(types, Wanted[1]), tgid |-> Declared(types, Wanted[2])]
      BY <1>1, OffsetsAreDeclared
    <3> QED
      BY <3>2, <3>3, <3>4 DEF ParentFieldsRight
  <2>2. CASE UNCHANGED btfVars
    BY <2>2 DEF btfVars, ParentFieldsRight
  <2> QED
    BY <2>1, <2>2
<1> HIDE DEF ParentFieldsRight
<1> QED
  BY <1>2, <1>3, PTL
=============================================================================
