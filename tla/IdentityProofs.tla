--------------------------- MODULE IdentityProofs ---------------------------
(***************************************************************************)
(* Proofs about who is who: the program behind a control connection        *)
(* (OfficialClient), what a connection may change (PromptAccess), the      *)
(* package of an executable (PackageIndex), the name of an address         *)
(* (HostCache), the socket behind a packet (SockAttribution) and the       *)
(* identity published for it (ProcResolve), each for every value of its    *)
(* constants.                                                              *)
(***************************************************************************)
EXTENDS OfficialClient, PromptAccess, PackageIndex, HostCache, SockAttribution, ProcResolve,
        ListProofs, FiniteSetTheorems, SequenceTheorems, TLAPS

-----------------------------------------------------------------------------
(* The program behind a connection *)

ProcessRecords ==
  [start : Nat, image : Nat, plain : BOOLEAN, traced : BOOLEAN, sealed : BOOLEAN,
   libs : BOOLEAN, holds : BOOLEAN]
Stages == {"idle", "namespaces", "status", "seal", "image", "connection", "maps", "after",
           "passed", "refused"}

OfficialTypes ==
  /\ procs \in [Pids -> ProcessRecords]
  /\ starts \in Nat \ {0} /\ installed \in Nat \ {0} /\ fileSealed \in BOOLEAN
  /\ conn \in [pid : Pids \cup {0}, start : Nat, as : [image : Nat, sealed : BOOLEAN]]
  /\ verify \in [stage : Stages, readOf : SUBSET Nat]

\* A start time is given once, and only the app and the tray seal themselves.
ProcessesSound ==
  \A p \in Pids :
    /\ procs[p].start < starts
    /\ procs[p] = NoProcess \/ procs[p].start > 0
    /\ procs[p].sealed => procs[p].image # OtherProgram

\* Whoever comes after the connection starts later.
StartsOnce ==
  /\ conn = NoConn => verify.stage = "idle"
  /\ conn # NoConn => conn.pid \in Pids /\ conn.start > 0 /\ conn.start < starts

\* The process that made the connection is still under its pid.
StillThere == procs[conn.pid].start = conn.start

\* As long as it is, nothing was read from another.
ReadFromPeer ==
  /\ verify.stage \notin {"idle", "passed", "refused"} /\ StillThere => verify.readOf \subseteq {conn.start}
  /\ verify.stage \in {"seal", "image", "connection", "maps", "after"} => verify.readOf # {}

\* The app and the tray are sealed when they connect; another program that turned
\* into one of them gave the connection up before it could be sealed, and so
\* does not pass the step that looks for it.
OthersLoseTheConnection ==
  /\ conn # NoConn /\ conn.as.image # OtherProgram => conn.as.sealed
  /\ conn # NoConn /\ conn.as.image = OtherProgram /\ StillThere =>
       /\ procs[conn.pid].sealed => ~procs[conn.pid].holds
       /\ verify.stage \in {"image", "connection"} => ~procs[conn.pid].holds
       /\ verify.stage \notin {"maps", "after"}

OfficialInv ==
  /\ OfficialTypes /\ ProcessesSound /\ StartsOnce /\ ReadFromPeer /\ OthersLoseTheConnection /\ OneProcessChecked
LEMMA OfficialStarts == OfficialInit => OfficialInv
<1> SUFFICES ASSUME OfficialInit PROVE OfficialInv
  OBVIOUS
<1>1. OfficialTypes
  BY DEF OfficialInit, OfficialTypes, ProcessRecords, NoProcess, Process, NoConn, NoCheck, OtherProgram, Stages
<1>2. conn = NoConn /\ verify.stage = "idle"
  BY DEF OfficialInit, NoCheck
<1>3. ProcessesSound
  <2>1. NoProcess.start = 0 /\ NoProcess.sealed = FALSE
    BY DEF NoProcess, Process
  <2>2. starts = 1 /\ \A p \in Pids : procs[p] = NoProcess
    BY DEF OfficialInit
  <2> SUFFICES ASSUME NEW p \in Pids
               PROVE  procs[p].start < starts /\ procs[p] = NoProcess /\ procs[p].sealed = FALSE
    BY DEF ProcessesSound
  <2>3. procs[p].start = 0 /\ procs[p].sealed = FALSE
    BY <2>1, <2>2
  <2> QED
    BY <2>2, <2>3
<1> QED
  BY <1>1, <1>2, <1>3 DEF OfficialInv, StartsOnce, ReadFromPeer, OthersLoseTheConnection, OneProcessChecked

\* What happens to processes: none comes back, gets the connection, or is sealed
\* while it holds an inherited one.
LEMMA ProcessesChange ==
  ASSUME OfficialInv, OfficialTypes', ProcessesSound', UNCHANGED <<conn, verify>>, starts' >= starts,
         conn # NoConn /\ StillThere' =>
           /\ StillThere
           /\ procs'[conn.pid].holds => procs[conn.pid].holds
           /\ procs'[conn.pid].sealed => procs[conn.pid].sealed \/ ~procs'[conn.pid].holds
  PROVE  OfficialInv'
<1> USE DEF OfficialInv
<1>1. StartsOnce'
  BY DEF StartsOnce, OfficialTypes
<1>2. ReadFromPeer'
  BY DEF ReadFromPeer, StartsOnce
<1>3. OthersLoseTheConnection'
  BY DEF OthersLoseTheConnection, OfficialTypes
<1>4. OneProcessChecked'
  BY DEF OneProcessChecked
<1> QED
  BY <1>1, <1>2, <1>3, <1>4

LEMMA ProcessStepsKeep ==
  ASSUME OfficialInv, NEW p \in Pids,
         \/ \E image \in {OtherProgram, installed}, plain, libs, inherits \in BOOLEAN :
              Starts(p, image, plain, libs, inherits)
         \/ \E image \in {OtherProgram, installed} : Execs(p, image)
         \/ PeerExits(p) \/ TracerChanges(p) \/ CloseInheritedFds(p) \/ SealProcess(p)
  PROVE  OfficialInv'
<1> USE DEF OfficialInv
<1>0. /\ conn # NoConn => conn.pid \in Pids /\ conn.start > 0 /\ conn.start < starts
      /\ starts \in Nat /\ conn.start \in Nat
  BY DEF StartsOnce, OfficialTypes
<1>1. ASSUME NEW image \in {OtherProgram, installed}, NEW plain \in BOOLEAN, NEW libs \in BOOLEAN,
             NEW inherits \in BOOLEAN, Starts(p, image, plain, libs, inherits)
      PROVE  OfficialInv'
  <2> DEFINE new == Process(starts, image, plain, libs, inherits)
  <2>1. new \in ProcessRecords /\ new.start = starts /\ new.sealed = FALSE
    BY DEF Process, ProcessRecords, OfficialTypes, OtherProgram
  <2> HIDE DEF new
  <2>2. /\ procs' = [procs EXCEPT ![p] = new] /\ starts' = starts + 1
        /\ UNCHANGED <<installed, fileSealed, conn, verify>>
    BY <1>1 DEF Starts, new
  <2>3. OfficialTypes'
    BY <2>1, <2>2 DEF OfficialTypes
  <2>4. conn # NoConn /\ StillThere' => StillThere /\ procs'[conn.pid] = procs[conn.pid]
    BY <1>0, <2>1, <2>2 DEF StillThere, OfficialTypes
  <2>5. ProcessesSound'
    <3> SUFFICES ASSUME NEW q \in Pids
                 PROVE  /\ procs'[q].start < starts'
                        /\ procs'[q] = NoProcess \/ procs'[q].start > 0
                        /\ procs'[q].sealed => procs'[q].image # OtherProgram
      BY DEF ProcessesSound
    <3>1. CASE q = p
      BY <3>1, <1>0, <2>1, <2>2 DEF OfficialTypes
    <3>2. CASE q # p
      BY <3>2, <1>0, <2>2 DEF ProcessesSound, OfficialTypes, ProcessRecords
    <3> QED
      BY <3>1, <3>2
  <2> QED
    BY <1>0, <2>2, <2>3, <2>4, <2>5, ProcessesChange
<1>2. ASSUME NEW image \in {OtherProgram, installed}, Execs(p, image)
      PROVE  OfficialInv'
  <2> DEFINE now == [start |-> procs[p].start, image |-> image, plain |-> procs[p].plain,
                     traced |-> procs[p].traced, sealed |-> FALSE, libs |-> TRUE, holds |-> procs[p].holds]
  <2>1. /\ now \in ProcessRecords /\ now.start = procs[p].start /\ now.holds = procs[p].holds
        /\ now.sealed = FALSE
    BY DEF OfficialTypes, ProcessRecords, OtherProgram
  <2>2. /\ procs' = [procs EXCEPT ![p] = now] /\ procs[p] # NoProcess
        /\ UNCHANGED <<starts, installed, fileSealed, conn, verify>>
    BY <1>2 DEF Execs, OfficialTypes, Lives
  <2> HIDE DEF now
  <2>3. OfficialTypes'
    BY <2>1, <2>2 DEF OfficialTypes
  <2>4. ProcessesSound'
    BY <2>1, <2>2 DEF ProcessesSound, OfficialTypes
  <2>5. conn # NoConn => /\ procs'[conn.pid].start = procs[conn.pid].start
                         /\ procs'[conn.pid].holds = procs[conn.pid].holds
                         /\ procs'[conn.pid].sealed => procs[conn.pid].sealed
    BY <1>0, <2>1, <2>2 DEF OfficialTypes
  <2> QED
    BY <1>0, <2>2, <2>3, <2>4, <2>5, ProcessesChange DEF StillThere
<1>3. CASE PeerExits(p)
  <2>1. NoProcess \in ProcessRecords /\ NoProcess.start = 0 /\ NoProcess.sealed = FALSE
    BY DEF NoProcess, Process, ProcessRecords, OtherProgram
  <2>2. procs' = [procs EXCEPT ![p] = NoProcess] /\ UNCHANGED <<starts, installed, fileSealed, conn, verify>>
    BY <1>3 DEF PeerExits
  <2>3. OfficialTypes'
    BY <2>1, <2>2 DEF OfficialTypes
  <2>4. conn # NoConn /\ StillThere' => StillThere /\ procs'[conn.pid] = procs[conn.pid]
    BY <1>0, <2>1, <2>2 DEF StillThere, OfficialTypes
  <2>5. ProcessesSound'
    BY <1>0, <2>1, <2>2 DEF ProcessesSound, OfficialTypes
  <2> QED
    BY <1>0, <2>2, <2>3, <2>4, <2>5, ProcessesChange
<1>4. CASE TracerChanges(p)
  <2>1. procs' = [procs EXCEPT ![p].traced = ~@] /\ UNCHANGED <<starts, installed, fileSealed, conn, verify>>
    BY <1>4 DEF TracerChanges
  <2>2. OfficialTypes'
    BY <2>1, ZenonT(60) DEF OfficialTypes, ProcessRecords
  <2>3. conn # NoConn => /\ procs'[conn.pid].start = procs[conn.pid].start
                         /\ procs'[conn.pid].holds = procs[conn.pid].holds
                         /\ procs'[conn.pid].sealed = procs[conn.pid].sealed
    BY <1>0, <2>1 DEF OfficialTypes, ProcessRecords
  <2>5. ProcessesSound'
    BY <1>0, <1>4, <2>1, <2>2 DEF ProcessesSound, OfficialTypes, ProcessRecords, TracerChanges, Lives
  <2> QED
    BY <1>0, <2>1, <2>2, <2>3, <2>5, ProcessesChange DEF StillThere
<1>5. CASE CloseInheritedFds(p)
  <2>1. procs' = [procs EXCEPT ![p].holds = FALSE] /\ UNCHANGED <<starts, installed, fileSealed, conn, verify>>
    BY <1>5 DEF CloseInheritedFds
  <2>2. OfficialTypes'
    BY <2>1, ZenonT(60) DEF OfficialTypes, ProcessRecords
  <2>3. conn # NoConn => /\ procs'[conn.pid].start = procs[conn.pid].start
                         /\ procs'[conn.pid].holds => procs[conn.pid].holds
                         /\ procs'[conn.pid].sealed = procs[conn.pid].sealed
    BY <1>0, <2>1 DEF OfficialTypes, ProcessRecords
  <2>5. ProcessesSound'
    BY <1>0, <1>5, <2>1, <2>2 DEF ProcessesSound, OfficialTypes, ProcessRecords, CloseInheritedFds, Lives
  <2> QED
    BY <1>0, <2>1, <2>2, <2>3, <2>5, ProcessesChange DEF StillThere
<1>6. CASE SealProcess(p)
  <2>1. /\ procs' = [procs EXCEPT ![p].sealed = TRUE] /\ ~procs[p].holds
        /\ UNCHANGED <<starts, installed, fileSealed, conn, verify>>
    BY <1>6 DEF SealProcess
  <2>2. OfficialTypes'
    BY <2>1, ZenonT(60) DEF OfficialTypes, ProcessRecords
  <2>3. conn # NoConn => /\ procs'[conn.pid].start = procs[conn.pid].start
                         /\ procs'[conn.pid].holds = procs[conn.pid].holds
                         /\ procs'[conn.pid].sealed => procs[conn.pid].sealed \/ ~procs[conn.pid].holds
    BY <1>0, <2>1 DEF OfficialTypes, ProcessRecords
  <2>5. ProcessesSound'
    BY <1>0, <1>6, <2>1, <2>2 DEF ProcessesSound, OfficialTypes, ProcessRecords, SealProcess, Lives
  <2> QED
    BY <1>0, <2>1, <2>2, <2>3, <2>5, ProcessesChange DEF StillThere
<1> QED
  BY <1>1, <1>2, <1>3, <1>4, <1>5, <1>6

LEMMA ConnectsKeeps ==
  ASSUME OfficialInv, NEW p \in Pids, Connects(p)
  PROVE  OfficialInv'
<1> USE DEF OfficialInv
<1>1. /\ conn = NoConn /\ verify.stage = "idle" /\ procs[p] # NoProcess
      /\ procs[p].image # OtherProgram => procs[p].sealed
      /\ procs' = [procs EXCEPT ![p].holds = TRUE]
      /\ UNCHANGED <<starts, installed, fileSealed, verify>>
  BY DEF Connects, StartsOnce, Lives
<1>2. /\ conn'.pid = p /\ conn'.start = procs[p].start
      /\ conn'.as.image = procs[p].image /\ conn'.as.sealed = procs[p].sealed
      /\ conn' \in [pid : Pids \cup {0}, start : Nat, as : [image : Nat, sealed : BOOLEAN]]
  BY DEF Connects, OfficialTypes, ProcessRecords
<1>3. procs[p].start > 0 /\ procs[p].start < starts
  BY <1>1 DEF ProcessesSound
<1>4. /\ procs'[p].start = procs[p].start /\ procs'[p].sealed = procs[p].sealed
      /\ procs'[p].image = procs[p].image
      /\ \A q \in Pids \ {p} : procs'[q] = procs[q]
  BY <1>1 DEF OfficialTypes, ProcessRecords
<1>5. OfficialTypes'
  <2>1. procs' \in [Pids -> ProcessRecords]
    BY <1>1, ZenonT(60) DEF OfficialTypes, ProcessRecords
  <2> QED
    BY <1>1, <1>2, <2>1 DEF OfficialTypes
<1>6. ProcessesSound'
  BY <1>1, <1>3, <1>4 DEF ProcessesSound
<1>7. StartsOnce'
  BY <1>1, <1>2, <1>3 DEF StartsOnce
<1>8. ReadFromPeer' /\ OneProcessChecked'
  BY <1>1 DEF ReadFromPeer, OneProcessChecked
<1>9. OthersLoseTheConnection'
  BY <1>1, <1>2, <1>4 DEF OthersLoseTheConnection, ProcessesSound
<1> QED
  BY <1>5, <1>6, <1>7, <1>8, <1>9

\* A step of the check reads one fact of the process now under the pid.
LEMMA InspectKeeps ==
  ASSUME OfficialInv, UNCHANGED <<procs, starts, installed, fileSealed, conn>>,
         NEW next \in Stages, NEW to \in {next, "refused"},
         verify' = [stage |-> to, readOf |-> verify.readOf \cup {procs[conn.pid].start}],
         \/ verify.stage = "namespaces" /\ next = "status"
         \/ verify.stage = "status" /\ next = "seal"
         \/ verify.stage = "seal" /\ next = "image" /\ (to = next => procs[conn.pid].sealed)
         \/ verify.stage = "image" /\ next = "connection"
         \/ verify.stage = "connection" /\ next = "maps" /\ (to = next => procs[conn.pid].holds)
         \/ verify.stage = "maps" /\ next = "after"
  PROVE  OfficialInv'
<1> USE DEF OfficialInv
<1>1. UNCHANGED <<procs, starts, installed, fileSealed, conn>>
  OBVIOUS
<1>2. verify'.stage = to /\ verify'.readOf = verify.readOf \cup {procs[conn.pid].start}
  OBVIOUS
<1>3. conn # NoConn /\ conn.pid \in Pids
  BY <1>1 DEF StartsOnce
<1>4. procs[conn.pid].start \in Nat /\ verify.readOf \in SUBSET Nat
  BY <1>3 DEF OfficialTypes, ProcessRecords
<1>5. OfficialTypes'
  <2>1. verify' \in [stage : Stages, readOf : SUBSET Nat]
    BY <1>4 DEF Stages
  <2> QED
    BY <1>1, <2>1 DEF OfficialTypes
<1>6. ProcessesSound' /\ StartsOnce'
  BY <1>1, <1>3 DEF ProcessesSound, StartsOnce
<1>7. StillThere' <=> StillThere
  BY <1>1 DEF StillThere
<1>8. ReadFromPeer'
  BY <1>1, <1>2, <1>7 DEF ReadFromPeer, StillThere
<1>9. OthersLoseTheConnection'
  BY <1>1, <1>2, <1>3, <1>7 DEF OthersLoseTheConnection
<1>10. OneProcessChecked'
  BY <1>2 DEF OneProcessChecked
<1> QED
  BY <1>5, <1>6, <1>8, <1>9, <1>10

LEMMA CheckKeeps ==
  ASSUME OfficialInv, CheckBegins \/ CheckEnds
  PROVE  OfficialInv'
<1> USE DEF OfficialInv
<1>1. conn # NoConn /\ UNCHANGED <<procs, starts, installed, fileSealed, conn>>
  BY DEF CheckBegins, CheckEnds, StartsOnce
<1>2. ProcessesSound' /\ StartsOnce'
  BY <1>1 DEF ProcessesSound, StartsOnce
<1>3. CASE CheckBegins
  <2>1. verify'.stage \in {"namespaces", "refused"} /\ verify'.readOf = {}
        /\ verify' \in [stage : Stages, readOf : SUBSET Nat]
    BY <1>3 DEF CheckBegins, NoCheck, Stages
  <2>2. OfficialTypes' /\ ReadFromPeer' /\ OneProcessChecked'
    BY <1>1, <2>1 DEF OfficialTypes, ReadFromPeer, OneProcessChecked
  <2>3. OthersLoseTheConnection'
    BY <1>1, <2>1 DEF OthersLoseTheConnection, StillThere
  <2> QED
    BY <1>2, <2>2, <2>3
<1>4. CASE CheckEnds
  <2>1. /\ verify.stage = "after" /\ verify'.readOf = verify.readOf
        /\ verify'.stage = (IF procs[conn.pid].start = conn.start THEN "passed" ELSE "refused")
        /\ verify' \in [stage : Stages, readOf : SUBSET Nat]
    BY <1>4 DEF CheckEnds, ReadStart, OfficialTypes, Stages
  <2>2. OfficialTypes' /\ ReadFromPeer'
    BY <1>1, <2>1 DEF OfficialTypes, ReadFromPeer
  <2>3. OthersLoseTheConnection'
    BY <1>1, <2>1 DEF OthersLoseTheConnection, StillThere
  <2>4. OneProcessChecked'
    <3> SUFFICES ASSUME StillThere PROVE OneProcessChecked'
      BY <2>1 DEF OneProcessChecked, StillThere
    <3>1. verify.readOf = {conn.start}
      BY <2>1 DEF ReadFromPeer
    <3>2. conn.as.image # OtherProgram /\ conn.as.sealed
      BY <1>1, <2>1 DEF OthersLoseTheConnection
    <3> QED
      BY <1>1, <2>1, <3>1, <3>2 DEF OneProcessChecked
  <2> QED
    BY <1>2, <2>2, <2>3, <2>4
<1> QED
  BY <1>3, <1>4

LEMMA OfficialKept == OfficialInv /\ [OfficialNext]_officialVars => OfficialInv'
<1> SUFFICES ASSUME OfficialInv, [OfficialNext]_officialVars PROVE OfficialInv'
  OBVIOUS
<1> USE DEF OfficialInv
<1>1. CASE UNCHANGED officialVars \/ Upgrade \/ FileModeChanges
  <2>0. /\ UNCHANGED <<procs, starts, conn, verify>>
        /\ installed' = installed \/ installed' = installed + 1
        /\ fileSealed' = fileSealed \/ fileSealed' = ~fileSealed
    BY <1>1 DEF officialVars, Upgrade, FileModeChanges
  <2>1. UNCHANGED <<procs, starts, conn, verify>> /\ OfficialTypes'
    <3>1. installed' \in Nat \ {0}
      BY <2>0 DEF OfficialTypes
    <3>2. fileSealed' \in BOOLEAN
      BY <2>0 DEF OfficialTypes
    <3> QED
      BY <2>0, <3>1, <3>2 DEF OfficialTypes
  <2> QED
    BY <2>1 DEF ProcessesSound, StartsOnce, ReadFromPeer, OthersLoseTheConnection, OneProcessChecked, StillThere
<1>2. ASSUME NEW p \in Pids,
         \/ \E image \in {OtherProgram, installed}, plain, libs, inherits \in BOOLEAN :
              Starts(p, image, plain, libs, inherits)
         \/ \E image \in {OtherProgram, installed} : Execs(p, image)
         \/ PeerExits(p) \/ TracerChanges(p) \/ CloseInheritedFds(p) \/ SealProcess(p) \/ Connects(p)
      PROVE  OfficialInv'
  BY <1>2, ProcessStepsKeep, ConnectsKeeps
<1>3. CASE CheckBegins \/ CheckEnds
  BY <1>3, CheckKeeps
<1>4. CASE InspectStatus \/ InspectSeal \/ ImageMatches \/ HoldsConnection \/ MapsAreSealed
  <2>1. CASE Inspect("namespaces", "status", Lives(conn.pid) /\ Peer.plain)
    <3>1. PICK to \in {"status", "refused"} :
            /\ UNCHANGED <<procs, starts, installed, fileSealed, conn>>
            /\ verify' = [stage |-> to, readOf |-> verify.readOf \cup {procs[conn.pid].start}]
      BY <2>1 DEF Inspect, Peer, ReadStart
    <3>2. verify.stage = "namespaces"
      BY <2>1 DEF Inspect
    <3> QED
      BY <3>1, <3>2, InspectKeeps DEF Stages
  <2>2. CASE Inspect("status", "seal", Lives(conn.pid) /\ Peer.plain /\ ~Peer.traced)
    <3>1. PICK to \in {"seal", "refused"} :
            /\ UNCHANGED <<procs, starts, installed, fileSealed, conn>>
            /\ verify' = [stage |-> to, readOf |-> verify.readOf \cup {procs[conn.pid].start}]
      BY <2>2 DEF Inspect, Peer, ReadStart
    <3>2. verify.stage = "status"
      BY <2>2 DEF Inspect
    <3> QED
      BY <3>1, <3>2, InspectKeeps DEF Stages
  <2>3. CASE InspectSeal
    <3>1. PICK to \in {"image", "refused"} :
            /\ UNCHANGED <<procs, starts, installed, fileSealed, conn>>
            /\ verify' = [stage |-> to, readOf |-> verify.readOf \cup {procs[conn.pid].start}]
            /\ to = "image" => procs[conn.pid].sealed
      BY <2>3 DEF InspectSeal, Inspect, Peer, ReadStart
    <3>2. verify.stage = "seal"
      BY <2>3 DEF InspectSeal, Inspect
    <3> QED
      BY <3>1, <3>2, InspectKeeps DEF Stages
  <2>4. CASE ImageMatches
    <3>1. PICK to \in {"connection", "refused"} :
            /\ UNCHANGED <<procs, starts, installed, fileSealed, conn>>
            /\ verify' = [stage |-> to, readOf |-> verify.readOf \cup {procs[conn.pid].start}]
      BY <2>4 DEF ImageMatches, Inspect, Peer, ReadStart
    <3>2. verify.stage = "image"
      BY <2>4 DEF ImageMatches, Inspect
    <3> QED
      BY <3>1, <3>2, InspectKeeps DEF Stages
  <2>5. CASE HoldsConnection
    <3>1. PICK to \in {"maps", "refused"} :
            /\ UNCHANGED <<procs, starts, installed, fileSealed, conn>>
            /\ verify' = [stage |-> to, readOf |-> verify.readOf \cup {procs[conn.pid].start}]
            /\ to = "maps" => procs[conn.pid].holds
      BY <2>5 DEF HoldsConnection, Inspect, Peer, ReadStart
    <3>2. verify.stage = "connection"
      BY <2>5 DEF HoldsConnection, Inspect
    <3> QED
      BY <3>1, <3>2, InspectKeeps DEF Stages
  <2>6. CASE MapsAreSealed
    <3>1. PICK to \in {"after", "refused"} :
            /\ UNCHANGED <<procs, starts, installed, fileSealed, conn>>
            /\ verify' = [stage |-> to, readOf |-> verify.readOf \cup {procs[conn.pid].start}]
      BY <2>6 DEF MapsAreSealed, Inspect, Peer, ReadStart
    <3>2. verify.stage = "maps"
      BY <2>6 DEF MapsAreSealed, Inspect
    <3> QED
      BY <3>1, <3>2, InspectKeeps DEF Stages
  <2> QED
    BY <1>4, <2>1, <2>2, <2>3, <2>4, <2>5, <2>6 DEF InspectStatus
<1> QED
  BY <1>1, <1>2, <1>3, <1>4 DEF OfficialNext

\* Everything a passed check read was about the process that made the connection,
\* and that process was the app or the tray, sealed, when it connected: no pid
\* reused and no program exec'd meanwhile is let in (official::check).
THEOREM OneProcessCheckedHolds == OfficialInit /\ [][OfficialNext]_officialVars => []OneProcessChecked
<1>1. OfficialInv => OneProcessChecked
  BY DEF OfficialInv
<1> QED
  BY <1>1, OfficialStarts, OfficialKept, PTL

-----------------------------------------------------------------------------
(* The package of an executable *)

PkgTypes ==
  /\ db \in [stamp : Nat \ {0}, owner : Nat]
  /\ index \in [built : BOOLEAN, stamp : Nat, owner : Nat]
  /\ builder \in [pc : {"idle", "check", "building", "store"}, stamp : Nat, read : Nat]
  /\ query.pc \in {"idle", "read", "digest"}

\* A stamp is never ahead of the database; what was read under one that is still
\* the database's is what the database holds.
StampsBehind ==
  /\ index.stamp <= db.stamp /\ builder.stamp <= db.stamp
  /\ IndexFresh
  /\ builder.pc = "store" /\ builder.stamp = db.stamp => builder.read = db.owner

\* What a lookup can still find was so at some moment since it began.
LookupSees ==
  /\ query.pc # "idle" => db.owner \in seenOwners
  /\ query.pc = "read" =>
       /\ query.stamp \in 1..db.stamp
       /\ index.built /\ index.stamp = query.stamp => index.owner \in seenOwners
       /\ builder.pc = "store" /\ builder.stamp = query.stamp => builder.read \in seenOwners
  /\ query.pc = "digest" => query.owner \in seenOwners

RecordTrue(r) ==
  /\ r.pkg \in r.was
  /\ r.digest = {} \/ (r.digest = {r.pkg} /\ backend # "dpkg")

\* Every record remembered was true, and nothing is known before a database is found.
MemoTrue ==
  /\ \A k \in DOMAIN lookupCache : RecordTrue(lookupCache[k])
  /\ backend = "undetected" =>
       query.pc = "idle" /\ DOMAIN lookupCache = {} /\ shown.provenance = "unknown"

ShownTrue ==
  /\ shown.provenance # "unknown" => shown.pkg \in shown.was
  /\ ModifiedMeansDifferent

PkgInv == PkgTypes /\ StampsBehind /\ LookupSees /\ MemoTrue /\ ShownTrue

LEMMA PkgStarts == PkgInit => PkgInv
BY DEF PkgInit, PkgInv, PkgTypes, StampsBehind, IndexFresh, LookupSees, MemoTrue, ShownTrue,
       ModifiedMeansDifferent, NoStamp, NoPkg, IdleQuery, UnknownAnswer

\* The database, the switch and the first look for a database.
LEMMA SurroundingsKeep ==
  ASSUME PkgInv,
         \/ \E v \in 0..2 : DbCommits(v) \/ FileReplaced(v)
         \/ SetEnabled \/ \E b \in Backends \cup {"none"} : Detect(b)
  PROVE  PkgInv'
<1> USE DEF PkgInv
<1>1. ASSUME NEW v \in 0..2, DbCommits(v)
      PROVE  PkgInv'
  <2>1. /\ db'.stamp = db.stamp + 1 /\ db'.owner = v /\ db' \in [stamp : Nat \ {0}, owner : Nat]
        /\ seenOwners' = seenOwners \cup {v}
        /\ UNCHANGED <<backend, index, builder, query, lookupCache, shown>>
    BY <1>1 DEF DbCommits, PkgTypes
  <2>2. PkgTypes'
    BY <2>1 DEF PkgTypes
  <2>3. /\ db.stamp \in Nat /\ index.stamp \in Nat /\ builder.stamp \in Nat
        /\ index.stamp # db.stamp + 1 /\ builder.stamp # db.stamp + 1
    BY DEF PkgTypes, StampsBehind
  <2>4. StampsBehind'
    BY <2>1, <2>3 DEF StampsBehind, IndexFresh
  <2>5. LookupSees'
    <3>1. query.pc = "read" => query.stamp \in 1..(db.stamp + 1)
      BY <2>3 DEF LookupSees
    <3> QED
      BY <2>1, <3>1 DEF LookupSees
  <2>6. MemoTrue' /\ ShownTrue'
    BY <2>1 DEF MemoTrue, ShownTrue, RecordTrue, ModifiedMeansDifferent
  <2> QED
    BY <2>2, <2>4, <2>5, <2>6
<1>2. CASE (\E v \in 0..2 : FileReplaced(v)) \/ SetEnabled
  <2>1. UNCHANGED <<backend, db, index, builder, query, lookupCache, shown, seenOwners>>
    BY <1>2 DEF FileReplaced, SetEnabled
  <2> QED
    BY <2>1 DEF PkgTypes, StampsBehind, IndexFresh, LookupSees, MemoTrue, ShownTrue, RecordTrue,
                ModifiedMeansDifferent
<1>3. CASE \E b \in Backends \cup {"none"} : Detect(b)
  <2>1. /\ backend = "undetected"
        /\ UNCHANGED <<db, index, builder, query, lookupCache, shown, seenOwners>>
    BY <1>3 DEF Detect
  <2>2. query.pc = "idle" /\ DOMAIN lookupCache = {} /\ shown.provenance = "unknown"
    BY <2>1 DEF MemoTrue
  <2> QED
    BY <2>1, <2>2 DEF PkgTypes, StampsBehind, IndexFresh, LookupSees, MemoTrue, ShownTrue, RecordTrue,
                      ModifiedMeansDifferent
<1> QED
  BY <1>1, <1>2, <1>3

\* The warming thread.
LEMMA WarmKeeps ==
  ASSUME PkgInv, WarmBegins \/ WarmChecks \/ WarmReads \/ WarmStores \/ WarmFails
  PROVE  PkgInv'
<1> USE DEF PkgInv
<1>1. UNCHANGED <<backend, db, query, lookupCache, shown, seenOwners>>
  BY DEF WarmBegins, WarmChecks, WarmReads, WarmStores, WarmFails
<1>2. MemoTrue' /\ ShownTrue'
  BY <1>1 DEF MemoTrue, ShownTrue, RecordTrue, ModifiedMeansDifferent
<1>3. /\ builder.stamp \in Nat /\ builder.read \in Nat /\ db.stamp \in Nat \ {0} /\ db.owner \in Nat
      /\ index.stamp \in Nat
  BY DEF PkgTypes
<1>4. CASE WarmBegins \/ WarmChecks \/ WarmReads
  <2>1. /\ UNCHANGED index
        /\ builder'.stamp \in {builder.stamp, db.stamp}
        /\ builder'.pc = "store" => builder'.read = db.owner
        /\ builder' \in [pc : {"idle", "check", "building", "store"}, stamp : Nat, read : Nat]
    <3>1. CASE WarmBegins
      BY <3>1, <1>3 DEF WarmBegins, NoPkg
    <3>2. CASE WarmChecks
      BY <3>2, <1>3 DEF WarmChecks, PkgTypes
    <3>3. CASE WarmReads
      BY <3>3, <1>3 DEF WarmReads
    <3> QED
      BY <1>4, <3>1, <3>2, <3>3
  <2>2. PkgTypes'
    BY <1>1, <2>1 DEF PkgTypes
  <2>3. StampsBehind'
    BY <1>1, <1>3, <2>1 DEF StampsBehind, IndexFresh
  <2>4. LookupSees'
    BY <1>1, <2>1 DEF LookupSees
  <2> QED
    BY <1>2, <2>2, <2>3, <2>4
<1>5. CASE WarmStores
  <2>1. /\ builder.pc = "store"
        /\ index' = [built |-> TRUE, stamp |-> builder.stamp, owner |-> builder.read]
        /\ builder' = [builder EXCEPT !.pc = "idle"]
    BY <1>5 DEF WarmStores, BuiltIndex
  <2>2. /\ index'.stamp = builder.stamp /\ index'.owner = builder.read
        /\ index' \in [built : BOOLEAN, stamp : Nat, owner : Nat]
        /\ builder'.pc = "idle" /\ builder'.stamp = builder.stamp
        /\ builder' \in [pc : {"idle", "check", "building", "store"}, stamp : Nat, read : Nat]
    BY <1>3, <2>1 DEF PkgTypes
  <2>3. PkgTypes'
    BY <1>1, <2>2 DEF PkgTypes
  <2>4. StampsBehind' /\ LookupSees'
    BY <1>1, <2>1, <2>2 DEF StampsBehind, IndexFresh, LookupSees
  <2> QED
    BY <1>2, <2>3, <2>4
<1>6. CASE WarmFails
  <2>1. /\ index' = [built |-> TRUE, stamp |-> 0, owner |-> 0]
        /\ builder' = [builder EXCEPT !.pc = "idle"]
    BY <1>6 DEF WarmFails, FailedIndex, NoStamp, NoPkg
  <2>2. /\ index'.stamp = 0 /\ index' \in [built : BOOLEAN, stamp : Nat, owner : Nat]
        /\ builder'.pc = "idle" /\ builder'.stamp = builder.stamp
        /\ builder' \in [pc : {"idle", "check", "building", "store"}, stamp : Nat, read : Nat]
    BY <2>1 DEF PkgTypes
  <2>3. PkgTypes'
    BY <1>1, <2>2 DEF PkgTypes
  <2>4. StampsBehind' /\ LookupSees'
    BY <1>1, <1>3, <2>2 DEF StampsBehind, IndexFresh, LookupSees
  <2> QED
    BY <1>2, <2>3, <2>4
<1> QED
  BY <1>4, <1>5, <1>6

\* What Decide says of a true record.
LEMMA DecideSays ==
  ASSUME NEW r, NEW bytes, RecordTrue(r), Decide(r, bytes) = "modified"
  PROVE  backend # "dpkg" /\ bytes # r.pkg /\ bytes # 0
BY DEF Decide, RecordTrue, NoPkg

\* An answer made of a true record.
LEMMA AnswerShown ==
  ASSUME NEW r, NEW bytes, RecordTrue(r), backend' = backend,
         shown' = [pkg |-> r.pkg, provenance |-> Decide(r, bytes), bytes |-> bytes, was |-> r.was]
  PROVE  ShownTrue'
<1>1. shown'.pkg = r.pkg /\ shown'.provenance = Decide(r, bytes) /\ shown'.bytes = bytes /\ shown'.was = r.was
  OBVIOUS
<1>2. shown'.pkg \in shown'.was
  BY <1>1 DEF RecordTrue
<1> QED
  BY <1>1, <1>2, DecideSays DEF ShownTrue, ModifiedMeansDifferent

LEMMA DescribeKeeps ==
  ASSUME PkgInv, NEW bytes \in 0..2, DescribeBegins(bytes)
  PROVE  PkgInv'
<1> USE DEF PkgInv
<1>1. query.pc = "idle" /\ backend # "undetected" /\ UNCHANGED <<backend, db, index, builder, lookupCache>>
  BY DEF DescribeBegins
<1>2. StampsBehind' /\ MemoTrue'
  BY <1>1 DEF StampsBehind, IndexFresh, MemoTrue, RecordTrue
<1>3. CASE shown' = UnknownAnswer /\ UNCHANGED <<query, seenOwners>>
  BY <1>1, <1>2, <1>3 DEF PkgTypes, LookupSees, ShownTrue, ModifiedMeansDifferent, UnknownAnswer
<1>4. ASSUME exeFile.key \in DOMAIN lookupCache, UNCHANGED <<query, seenOwners>>,
             shown' = [pkg |-> lookupCache[exeFile.key].pkg, provenance |-> Decide(lookupCache[exeFile.key], bytes),
                       bytes |-> bytes, was |-> lookupCache[exeFile.key].was]
      PROVE  PkgInv'
  <2>1. RecordTrue(lookupCache[exeFile.key])
    BY <1>4 DEF MemoTrue
  <2>2. ShownTrue'
    BY <1>1, <1>4, <2>1, AnswerShown
  <2> QED
    BY <1>1, <1>2, <1>4, <2>2 DEF PkgTypes, LookupSees
<1>5. ASSUME query' = [pc |-> "read", key |-> exeFile.key, stamp |-> db.stamp, bytes |-> bytes, owner |-> NoPkg],
             seenOwners' = {db.owner}, UNCHANGED shown
      PROVE  PkgInv'
  <2>1. query'.pc = "read" /\ query'.stamp = db.stamp /\ db.stamp \in 1..db.stamp
    BY <1>5 DEF PkgTypes
  <2>2. LookupSees'
    BY <1>1, <1>5, <2>1 DEF LookupSees, StampsBehind, IndexFresh
  <2>3. ShownTrue' /\ PkgTypes'
    BY <1>1, <1>5, <2>1 DEF ShownTrue, ModifiedMeansDifferent, PkgTypes
  <2> QED
    BY <1>2, <2>2, <2>3
<1> QED
  BY <1>3, <1>4, <1>5 DEF DescribeBegins

LEMMA QueryKeeps ==
  ASSUME PkgInv, QueryNotReady \/ QueryIndex \/ QueryEnds
  PROVE  PkgInv'
<1> USE DEF PkgInv
<1>1. /\ query.pc # "idle" /\ UNCHANGED <<backend, db, index, builder, seenOwners>>
      /\ backend # "undetected"
  BY DEF QueryNotReady, QueryIndex, QueryEnds, MemoTrue
<1>2. StampsBehind'
  BY <1>1 DEF StampsBehind, IndexFresh
<1>3. CASE QueryNotReady
  <2>1. query'.pc = "idle" /\ shown'.provenance = "unknown" /\ UNCHANGED lookupCache
    BY <1>3 DEF QueryNotReady, IdleQuery, UnknownAnswer
  <2> QED
    BY <1>1, <1>2, <2>1 DEF PkgTypes, LookupSees, MemoTrue, RecordTrue, ShownTrue, ModifiedMeansDifferent
<1>4. CASE QueryIndex
  <2>1. /\ query.pc = "read" /\ index.built /\ index.stamp = query.stamp
        /\ query'.pc = "digest" /\ query'.owner = index.owner /\ UNCHANGED <<lookupCache, shown>>
    BY <1>4 DEF QueryIndex
  <2>2. LookupSees'
    BY <1>1, <2>1 DEF LookupSees
  <2> QED
    BY <1>1, <1>2, <2>1, <2>2 DEF PkgTypes, MemoTrue, RecordTrue, ShownTrue, ModifiedMeansDifferent
<1>5. CASE QueryEnds
  <2> DEFINE record == [pkg |-> query.owner, digest |-> IF query.owner = NoPkg THEN {} ELSE DigestOf(query.owner),
                        was |-> seenOwners]
  <2>1. RecordTrue(record)
    <3>1. query.owner \in seenOwners
      BY <1>5 DEF QueryEnds, LookupSees
    <3>2. DigestOf(query.owner) = {} \/ (DigestOf(query.owner) = {query.owner} /\ backend # "dpkg")
      BY DEF DigestOf
    <3> QED
      BY <3>1, <3>2 DEF RecordTrue
  <2>2. /\ lookupCache' = [k \in DOMAIN lookupCache \cup {query.key} |->
                             IF k = query.key THEN record ELSE lookupCache[k]]
        /\ shown' = [pkg |-> record.pkg, provenance |-> Decide(record, query.bytes), bytes |-> query.bytes,
                     was |-> record.was]
        /\ query' = IdleQuery
    BY <1>5 DEF QueryEnds
  <2> HIDE DEF record
  <2>3. ShownTrue'
    BY <1>1, <2>1, <2>2, AnswerShown
  <2>4. MemoTrue'
    BY <1>1, <2>1, <2>2 DEF MemoTrue, RecordTrue
  <2>5. LookupSees' /\ PkgTypes'
    BY <1>1, <2>2 DEF LookupSees, PkgTypes, IdleQuery
  <2> QED
    BY <1>2, <2>3, <2>4, <2>5
<1> QED
  BY <1>3, <1>4, <1>5

LEMMA PkgKept == PkgInv /\ [PkgNext]_pkgVars => PkgInv'
<1> SUFFICES ASSUME PkgInv, [PkgNext]_pkgVars PROVE PkgInv'
  OBVIOUS
<1>1. CASE UNCHANGED pkgVars
  BY <1>1 DEF pkgVars, PkgInv, PkgTypes, StampsBehind, IndexFresh, LookupSees, MemoTrue, ShownTrue,
              RecordTrue, ModifiedMeansDifferent
<1>2. ASSUME NEW k \in DOMAIN lookupCache, LookupForgotten(k)
      PROVE  PkgInv'
  <2>1. /\ lookupCache' = [j \in DOMAIN lookupCache \ {k} |-> lookupCache[j]]
        /\ UNCHANGED <<backend, pkgOn, db, exeFile, pkgSteps, index, builder, query, shown, seenOwners>>
    BY <1>2 DEF LookupForgotten
  <2>2. MemoTrue'
    BY <2>1 DEF PkgInv, MemoTrue, RecordTrue
  <2> QED
    BY <2>1, <2>2 DEF PkgInv, PkgTypes, StampsBehind, IndexFresh, LookupSees, ShownTrue, ModifiedMeansDifferent
<1> QED
  BY <1>1, <1>2, SurroundingsKeep, WarmKeeps, DescribeKeeps, QueryKeeps DEF PkgNext

\* Whatever is shown of an executable's package was so at some moment of the lookup
\* that found it, a current index holds what the database holds, and no file is
\* accused of being modified that is not (provenance::describe, record_of, decide).
THEOREM AnswerWasTrueHolds == PkgInit /\ [][PkgNext]_pkgVars => []AnswerWasTrue
<1>1. PkgInv => AnswerWasTrue
  BY DEF PkgInv, StampsBehind, ShownTrue, AnswerWasTrue
<1> QED
  BY <1>1, PkgStarts, PkgKept, PTL

-----------------------------------------------------------------------------
(* The name of an address *)

\* What is under way or in the policy cache resolves forward to its address.
NamesConfirmed ==
  /\ \A ip \in DOMAIN policy : policy[ip].name # NoName => ip \in Forward[policy[ip].name]
  /\ \A j \in jobs : j.result # NoName => j.ip \in Forward[j.result]

HostInv == ReservationBacked /\ NamesConfirmed

LEMMA RoomIsPart ==
  ASSUME NEW cache, NEW room \in Evicted(cache)
  PROVE  DOMAIN room \subseteq DOMAIN cache /\ \A i \in DOMAIN room : room[i] = cache[i]
BY DEF Evicted, Without

LEMMA HostStarts == HostInit => HostInv
BY DEF HostInit, HostInv, ReservationBacked, NamesConfirmed

LEMMA EnqueueKeeps ==
  ASSUME HostInv, NEW ip \in AddrSet, EnqueueLookup(ip)
  PROVE  HostInv'
<1> DEFINE new == [n |-> hostSteps, ip |-> ip, stage |-> "resolving", result |-> NoName]
           entry == [name |-> NoName, inserted |-> hostTick, inFlight |-> TRUE, trust |-> "ptr",
                     ttl |-> NegativeTtl]
<1>1. PICK room \in Evicted(policy) : policy' = Put(room, ip, entry)
  BY DEF EnqueueLookup
<1>2. jobs' = jobs \cup {new} /\ new.ip = ip /\ new.stage = "resolving" /\ new.result = NoName
  BY DEF EnqueueLookup
<1>3. entry.name = NoName
  OBVIOUS
<1> HIDE DEF new, entry
<1>4. /\ DOMAIN policy' = DOMAIN room \cup {ip} /\ policy'[ip] = entry
      /\ \A i \in DOMAIN room \ {ip} : policy'[i] = policy[i]
      /\ DOMAIN room \subseteq DOMAIN policy
  BY <1>1, RoomIsPart DEF Put
<1>5. ReservationBacked'
  BY <1>2, <1>4 DEF HostInv, ReservationBacked
<1>6. NamesConfirmed'
  BY <1>2, <1>3, <1>4 DEF HostInv, NamesConfirmed
<1> QED
  BY <1>5, <1>6 DEF HostInv

LEMMA ResolvedKeeps ==
  ASSUME HostInv, NEW j \in jobs, NEW ptr, Resolved(j, ptr)
  PROVE  HostInv'
<1> DEFINE done == [j EXCEPT !.stage = "policy",
                     !.result = IF ptr # NoName /\ ForwardConfirm(ptr, j.ip) THEN ptr ELSE NoName]
<1>1. jobs' = (jobs \ {j}) \cup {done} /\ UNCHANGED policy
  BY DEF Resolved
<1>2. done.ip = j.ip /\ done.stage = "policy" /\ (done.result # NoName => j.ip \in Forward[done.result])
  BY DEF ForwardConfirm
<1> HIDE DEF done
<1> QED
  BY <1>1, <1>2 DEF HostInv, ReservationBacked, NamesConfirmed

LEMMA RecordPolicyKeeps ==
  ASSUME HostInv, NEW j \in jobs, RecordPolicy(j)
  PROVE  HostInv'
<1>1. CASE j.ip \in DOMAIN policy
  <2> DEFINE entry == PtrEntry(j.result)
             next == [j EXCEPT !.stage = "display"]
  <2>1. policy' = Put(policy, j.ip, entry) /\ jobs' = (jobs \ {j}) \cup {next}
    BY <1>1 DEF RecordPolicy
  <2>2. entry.name = j.result /\ ~entry.inFlight
    BY DEF PtrEntry
  <2>3. next.ip = j.ip /\ next.result = j.result
    OBVIOUS
  <2> HIDE DEF entry, next
  <2>4. /\ DOMAIN policy' = DOMAIN policy \cup {j.ip} /\ policy'[j.ip] = entry
        /\ \A i \in DOMAIN policy \ {j.ip} : policy'[i] = policy[i]
    BY <2>1 DEF Put
  <2>5. ReservationBacked'
    BY <2>1, <2>2, <2>3, <2>4 DEF HostInv, ReservationBacked
  <2>6. NamesConfirmed'
    BY <2>1, <2>2, <2>3, <2>4 DEF HostInv, NamesConfirmed
  <2> QED
    BY <2>5, <2>6 DEF HostInv
<1>2. CASE j.ip \notin DOMAIN policy
  BY <1>2 DEF RecordPolicy, HostInv, ReservationBacked, NamesConfirmed
<1> QED
  BY <1>1, <1>2

LEMMA HostKept == HostInv /\ [HostNext]_hostVars => HostInv'
<1> SUFFICES ASSUME HostInv, [HostNext]_hostVars PROVE HostInv'
  OBVIOUS
<1>1. CASE UNCHANGED <<policy, jobs>>
  BY <1>1 DEF HostInv, ReservationBacked, NamesConfirmed
<1>2. ASSUME NEW ip \in AddrSet, NEW name, NEW ttl, ObserveAnswer(ip, name, ttl)
      PROVE  UNCHANGED <<policy, jobs>>
  BY <1>2 DEF ObserveAnswer
<1>3. ASSUME NEW j \in jobs, RecordDisplay(j)
      PROVE  HostInv'
  <2>1. j.stage = "display" /\ jobs' = jobs \ {j} /\ UNCHANGED policy
    BY <1>3 DEF RecordDisplay
  <2> QED
    BY <2>1 DEF HostInv, ReservationBacked, NamesConfirmed
<1>4. HostTick \/ UNCHANGED hostVars => UNCHANGED <<policy, jobs>>
  BY DEF HostTick, hostVars
<1> QED
  BY <1>1, <1>2, <1>3, <1>4, EnqueueKeeps, ResolvedKeeps, RecordPolicyKeeps DEF HostNext

LiveObservationStays ==
  \A ip \in DOMAIN display \cap DOMAIN display' :
    display[ip].trust = "observed" /\ IsFresh(display[ip]) => display'[ip].trust = "observed"

LEMMA ObservationKept == [HostNext]_hostVars => LiveObservationStays
<1> SUFFICES ASSUME [HostNext]_hostVars PROVE LiveObservationStays
  OBVIOUS
<1>1. CASE UNCHANGED display
  BY <1>1 DEF LiveObservationStays
<1>2. ASSUME NEW ip \in AddrSet, NEW name, NEW ttl, ObserveAnswer(ip, name, ttl)
      PROVE  LiveObservationStays
  <2> DEFINE entry == [name |-> name, inserted |-> hostTick, inFlight |-> FALSE,
                       trust |-> "observed", ttl |-> ClampTtl(ttl)]
  <2>1. PICK room \in Evicted(display) : display' = Put(room, ip, entry)
    BY <1>2 DEF ObserveAnswer
  <2>2. entry.trust = "observed"
    OBVIOUS
  <2> HIDE DEF entry
  <2>3. /\ DOMAIN display' = DOMAIN room \cup {ip} /\ display'[ip] = entry
        /\ \A i \in DOMAIN room \ {ip} : display'[i] = display[i]
    BY <2>1, RoomIsPart DEF Put
  <2> QED
    BY <2>2, <2>3 DEF LiveObservationStays
<1>3. ASSUME NEW j \in jobs, RecordDisplay(j)
      PROVE  LiveObservationStays
  <2>1. CASE j.ip \in DOMAIN display /\ ~Supersedes(display[j.ip], "ptr")
    BY <1>1, <1>3, <2>1 DEF RecordDisplay
  <2>2. CASE ~(j.ip \in DOMAIN display /\ ~Supersedes(display[j.ip], "ptr"))
    <3>1. PICK room \in (IF j.ip \in DOMAIN display THEN {display} ELSE Evicted(display)) :
            display' = Put(room, j.ip, PtrEntry(j.result))
      BY <1>3, <2>2 DEF RecordDisplay
    <3>2. DOMAIN room \subseteq DOMAIN display /\ \A i \in DOMAIN room : room[i] = display[i]
      BY <3>1, RoomIsPart
    <3>3. /\ DOMAIN display' = DOMAIN room \cup {j.ip}
          /\ \A i \in DOMAIN room \ {j.ip} : display'[i] = display[i]
      BY <3>1, <3>2 DEF Put
    <3>4. j.ip \in DOMAIN display => ~(display[j.ip].trust = "observed" /\ IsFresh(display[j.ip]))
      BY <2>2 DEF Supersedes
    <3> QED
      BY <3>3, <3>4 DEF LiveObservationStays
  <2> QED
    BY <2>1, <2>2
<1>4. ASSUME NEW ip \in AddrSet, EnqueueLookup(ip)
      PROVE  UNCHANGED display
  BY <1>4 DEF EnqueueLookup
<1>5. ASSUME NEW j \in jobs, NEW ptr, RecordPolicy(j) \/ Resolved(j, ptr)
      PROVE  UNCHANGED display
  BY <1>5 DEF RecordPolicy, Resolved
<1>6. HostTick \/ UNCHANGED hostVars => UNCHANGED display
  BY DEF HostTick, hostVars
<1> QED
  BY <1>1, <1>2, <1>3, <1>4, <1>5, <1>6 DEF HostNext

\* A late reverse lookup never overwrites a live name seen on the wire, whatever
\* was evicted meanwhile no reservation is orphaned, and every policy name
\* resolves forward to its address (record_ptr_result, enqueue_lookup).
THEOREM ObservedNotOverwrittenHolds == HostInit /\ [][HostNext]_hostVars => ObservedNotOverwritten
<1>1. HostInv => ReservationBacked /\ PolicyNamesConfirmed
  BY DEF HostInv, NamesConfirmed, PolicyNamesConfirmed, CachedName
<1>2. HostInit /\ [][HostNext]_hostVars => [](ReservationBacked /\ PolicyNamesConfirmed)
  BY <1>1, HostStarts, HostKept, PTL
<1>3. [HostNext]_hostVars =>
        [\A ip \in DOMAIN display \cap DOMAIN display' :
           display[ip].trust = "observed" /\ IsFresh(display[ip]) => display'[ip].trust = "observed"]_hostVars
  BY ObservationKept DEF LiveObservationStays
<1> QED
  BY <1>2, <1>3, PTL DEF ObservedNotOverwritten

-----------------------------------------------------------------------------
(* What a connection may change *)

CallFields == {"op", "stage", "id", "allow", "exe", "hash", "keep", "polkit"}

AccessTypes ==
  /\ asked \in 0..MaxAsked /\ pending \subseteq 1..asked
  /\ DOMAIN about = Prompts /\ DOMAIN answered = Prompts
  /\ DOMAIN calls = Clients
  /\ \A c \in Clients :
       /\ DOMAIN calls[c] = CallFields
       /\ calls[c].stage # "idle" => calls[c].op \in {"submit", "upsert", "apply", "pause"}
       /\ calls[c].op = "submit" => calls[c].id \in Prompts

\* polkit has confirmed what it must, for a call that waits for its write ...
Confirmed(call) ==
  /\ Elevated(call.op) /\ call.stage \in {"checked", "confirm", "bind", "save"} => call.op \in call.polkit
  /\ ~Elevated(call.op) /\ call.stage \in {"bind", "save"} /\ OpensForEveryProgram(call) =>
       "generic_allow" \in call.polkit
\* ... and an answer whose rule is to be kept has landed, and is bound to its prompt.
Landed(call, c) == call.id \in (1..asked) \ pending /\ answered[call.id] = UidOf[c]
BoundTo(call) ==
  call.allow /\ about[call.id].expected => call.exe = about[call.id].exe /\ call.hash = about[call.id].hash

CallsConfirmed ==
  \A c \in Clients :
    /\ ~Privileged(c) => Confirmed(calls[c])
    /\ calls[c].op = "submit" /\ calls[c].stage \in {"confirm", "bind", "save"} => Landed(calls[c], c)
    /\ calls[c].op = "submit" /\ calls[c].stage = "save" => BoundTo(calls[c])

SavedConfirmed ==
  \A s \in saved :
    /\ ~Privileged(s.by) => Confirmed(s.call) /\ s.call.stage = "save"
    /\ s.call.op = "submit" => Landed(s.call, s.by) /\ BoundTo(s.call)

AccessInv == AccessTypes /\ CallsConfirmed /\ SavedConfirmed

LEMMA NoCallSays ==
  /\ DOMAIN NoCall = CallFields /\ NoCall.op = "none" /\ NoCall.stage = "idle" /\ Confirmed(NoCall)
BY DEF NoCall, CallFields, Confirmed

\* A call that moves to another stage, or is told what polkit confirmed.
LEMMA CallMoves ==
  ASSUME NEW call, NEW stage, DOMAIN call = CallFields
  PROVE  LET moved == [call EXCEPT !.stage = stage]
         IN  /\ DOMAIN moved = CallFields /\ moved.stage = stage
             /\ moved.op = call.op /\ moved.id = call.id /\ moved.allow = call.allow
             /\ moved.exe = call.exe /\ moved.hash = call.hash /\ moved.keep = call.keep
             /\ moved.polkit = call.polkit
BY DEF CallFields

LEMMA AccessStarts == AccessInit => AccessInv
<1> SUFFICES ASSUME AccessInit PROVE AccessInv
  OBVIOUS
<1>1. /\ asked = 0 /\ pending = {} /\ saved = {} /\ DOMAIN calls = Clients
      /\ \A c \in Clients : calls[c] = NoCall
      /\ DOMAIN about = Prompts /\ DOMAIN answered = Prompts
  BY DEF AccessInit
<1> QED
  BY <1>1, NoCallSays, AccessAssumption DEF AccessInv, AccessTypes, CallsConfirmed, SavedConfirmed

\* A step of one call: the prompt it answers leaves those pending, and no answer
\* that landed earlier changes.
LEMMA OneCallSteps ==
  ASSUME AccessInv, NEW c \in Clients, NEW call, calls' = [calls EXCEPT ![c] = call],
         UNCHANGED <<asked, about, saved>>, pending' \subseteq pending,
         DOMAIN answered' = Prompts, \A p \in (1..asked) \ pending : answered'[p] = answered[p],
         DOMAIN call = CallFields, call.op = "submit" => call.id \in Prompts,
         call.stage # "idle" => call.op \in {"submit", "upsert", "apply", "pause"},
         ~Privileged(c) => Confirmed(call),
         call.op = "submit" /\ call.stage \in {"confirm", "bind", "save"} =>
           call.id \in (1..asked) \ pending' /\ answered'[call.id] = UidOf[c],
         call.op = "submit" /\ call.stage = "save" => BoundTo(call)
  PROVE  AccessInv'
<1> USE DEF AccessInv
<1>1. \A d \in Clients : calls'[d] = IF d = c THEN call ELSE calls[d]
  BY DEF AccessTypes
<1>2. AccessTypes'
  BY <1>1 DEF AccessTypes
<1>3. CallsConfirmed'
  <2> SUFFICES ASSUME NEW d \in Clients
               PROVE  /\ ~Privileged(d) => Confirmed(calls'[d])
                      /\ calls'[d].op = "submit" /\ calls'[d].stage \in {"confirm", "bind", "save"} =>
                           calls'[d].id \in (1..asked) \ pending' /\ answered'[calls'[d].id] = UidOf[d]
                      /\ calls'[d].op = "submit" /\ calls'[d].stage = "save" => BoundTo(calls'[d])
    BY DEF CallsConfirmed, Privileged, Confirmed, OpensForEveryProgram, Landed, BoundTo
  <2>1. CASE d = c
    BY <2>1, <1>1
  <2>2. CASE d # c
    BY <2>2, <1>1 DEF CallsConfirmed, Landed
  <2> QED
    BY <2>1, <2>2
<1>4. SavedConfirmed'
  BY DEF SavedConfirmed, Privileged, Confirmed, OpensForEveryProgram, Landed, BoundTo
<1> QED
  BY <1>2, <1>3, <1>4

\* Nothing a call reads of its prompt changes while others come and go.
LEMMA PromptsComeAndGo ==
  ASSUME AccessInv, UNCHANGED <<calls, saved, answered>>,
         \/ asked < MaxAsked /\ \E kind \in PromptKinds[asked + 1] : AskPrompt(kind)
         \/ (\E id \in Prompts : PromptExpires(id)) \/ UNCHANGED <<asked, about, pending>>
  PROVE  AccessInv'
<1> USE DEF AccessInv
<1>1. /\ asked' \in 0..MaxAsked /\ asked' >= asked /\ pending' \subseteq 1..asked'
      /\ \A p \in (1..asked) \ pending : p \in (1..asked') \ pending' /\ about'[p] = about[p]
      /\ DOMAIN about' = Prompts
  <2>1. ASSUME asked < MaxAsked, NEW kind, AskPrompt(kind)
        PROVE  <1>1
    <3>1. /\ asked' = asked + 1 /\ pending' = pending \cup {asked + 1}
          /\ about' = [about EXCEPT ![asked + 1] = kind]
      BY <2>1 DEF AskPrompt
    <3>2. asked \in Nat /\ MaxAsked \in Nat /\ pending \subseteq 1..asked /\ DOMAIN about = Prompts
      BY AccessAssumption DEF AccessTypes
    <3>3. asked + 1 \in 0..MaxAsked
      BY <2>1, <3>2
    <3>4. \A p \in (1..asked) \ pending : p \in (1..asked') \ pending' /\ about'[p] = about[p]
      BY <3>1, <3>2, <3>3 DEF Prompts
    <3> QED
      BY <3>1, <3>2, <3>3, <3>4
  <2>2. ASSUME NEW id \in Prompts, PromptExpires(id)
        PROVE  <1>1
    <3>1. asked' = asked /\ about' = about /\ pending' \subseteq pending
      BY <2>2 DEF PromptExpires
    <3>2. asked \in Nat
      BY AccessAssumption DEF AccessTypes
    <3> QED
      BY <3>1, <3>2 DEF AccessTypes
  <2>3. CASE UNCHANGED <<asked, about, pending>>
    BY <2>3 DEF AccessTypes
  <2> QED
    BY <2>1, <2>2, <2>3
<1>2. AccessTypes'
  BY <1>1 DEF AccessTypes
<1>3. CallsConfirmed'
  BY <1>1 DEF CallsConfirmed, Privileged, Confirmed, OpensForEveryProgram, Landed, BoundTo
<1>4. SavedConfirmed'
  BY <1>1 DEF SavedConfirmed, Privileged, Confirmed, OpensForEveryProgram, Landed, BoundTo
<1> QED
  BY <1>2, <1>3, <1>4

LEMMA AuthorizeKeeps ==
  ASSUME AccessInv, NEW c \in Clients, NEW req \in RequestKinds, Authorize(c, req)
  PROVE  AccessInv'
<1> DEFINE stage == IF Elevated(req.op) /\ ~Privileged(c) THEN "elevate" ELSE "checked"
           moved == [req EXCEPT !.stage = stage]
           call == IF ~Standing(c) THEN NoCall ELSE moved
<1>1. /\ DOMAIN req = CallFields /\ req.op \in {"submit", "upsert", "apply", "pause"}
      /\ req.op = "submit" => req.id \in Prompts
  BY AccessAssumption DEF CallFields
<1>2. DOMAIN moved = CallFields /\ moved.stage = stage /\ moved.op = req.op /\ moved.id = req.id
  BY <1>1, CallMoves
<1>3. stage \in {"elevate", "checked"} /\ (Elevated(req.op) /\ ~Privileged(c) => stage = "elevate")
  OBVIOUS
<1>4. /\ calls' = [calls EXCEPT ![c] = call]
      /\ UNCHANGED <<asked, about, pending, saved, answered>>
  BY DEF Authorize
<1> HIDE DEF stage, moved
<1>5. CASE ~Standing(c)
  <2>1. call = NoCall
    BY <1>5
  <2> HIDE DEF call
  <2> QED
    BY <1>4, <2>1, NoCallSays, OneCallSteps DEF AccessInv, AccessTypes
<1>6. CASE Standing(c)
  <2>1. call = moved
    BY <1>6
  <2>2. ~Privileged(c) => Confirmed(moved)
    BY <1>2, <1>3 DEF Confirmed
  <2> HIDE DEF call
  <2> QED
    BY <1>1, <1>2, <1>3, <1>4, <2>1, <2>2, OneCallSteps DEF AccessInv, AccessTypes
<1> QED
  BY <1>5, <1>6

\* polkit's answer counts for the action that was asked about, and no other.
LEMMA PolkitKeeps ==
  ASSUME AccessInv, NEW c \in Clients, NEW ok \in BOOLEAN, PolkitAnswers(c, ok)
  PROVE  AccessInv'
<1> DEFINE was == calls[c]
           action == IF was.stage = "elevate" THEN was.op ELSE "generic_allow"
           told == [was EXCEPT !.polkit = @ \cup {action}]
           stage == IF was.stage = "elevate" THEN "checked" ELSE "bind"
           moved == [told EXCEPT !.stage = stage]
<1>1. /\ DOMAIN was = CallFields
      /\ was.stage \in {"elevate", "confirm"} /\ was.op \in {"submit", "upsert", "apply", "pause"}
      /\ was.op = "submit" => was.id \in Prompts
      /\ ~Privileged(c) => Confirmed(was)
      /\ was.op = "submit" /\ was.stage = "confirm" => Landed(was, c)
  BY DEF PolkitAnswers, AccessInv, AccessTypes, CallsConfirmed
<1>2. /\ DOMAIN told = CallFields /\ told.stage = was.stage /\ told.polkit = was.polkit \cup {action}
      /\ told.op = was.op /\ told.id = was.id /\ told.allow = was.allow /\ told.exe = was.exe
  BY <1>1 DEF CallFields
<1>3. /\ calls' = [calls EXCEPT ![c] = IF ~ok THEN NoCall ELSE moved]
      /\ UNCHANGED <<asked, about, pending, saved, answered>>
  BY <1>2 DEF PolkitAnswers
<1> HIDE DEF told
<1>4. /\ DOMAIN moved = CallFields /\ moved.stage = stage /\ moved.polkit = was.polkit \cup {action}
      /\ moved.op = was.op /\ moved.id = was.id /\ moved.allow = was.allow /\ moved.exe = was.exe
  BY <1>2, CallMoves
<1> HIDE DEF moved
<1>5. CASE ~ok
  <2>1. calls' = [calls EXCEPT ![c] = NoCall]
    BY <1>3, <1>5
  <2> QED
    BY <1>3, <2>1, NoCallSays, OneCallSteps DEF AccessInv, AccessTypes
<1>6. CASE ok
  <2>1. calls' = [calls EXCEPT ![c] = moved]
    BY <1>3, <1>6
  <2>2. ~Privileged(c) => Confirmed(moved)
    BY <1>1, <1>4 DEF Confirmed
  <2>3. /\ moved.op = "submit" /\ moved.stage \in {"confirm", "bind", "save"} =>
             moved.id \in (1..asked) \ pending' /\ answered'[moved.id] = UidOf[c]
        /\ ~(moved.stage = "save")
    BY <1>1, <1>3, <1>4 DEF Landed
  <2>4. /\ moved.op = "submit" => moved.id \in Prompts
        /\ moved.stage # "idle" => moved.op \in {"submit", "upsert", "apply", "pause"}
    BY <1>1, <1>4
  <2>5. /\ UNCHANGED <<asked, about, saved>> /\ pending' \subseteq pending
        /\ DOMAIN answered' = Prompts /\ \A p \in (1..asked) \ pending : answered'[p] = answered[p]
    BY <1>3 DEF AccessInv, AccessTypes
  <2> QED
    BY <1>4, <2>1, <2>2, <2>3, <2>4, <2>5, OneCallSteps
<1> QED
  BY <1>5, <1>6

LEMMA SubmitKeeps ==
  ASSUME AccessInv, NEW c \in Clients, NEW storable \in BOOLEAN, SubmitVerdict(c, storable)
  PROVE  AccessInv'
<1> DEFINE was == calls[c]
           lands == was.id \in pending
           stage == AfterConversion(c, was)
           moved == [was EXCEPT !.stage = stage]
<1>1. DOMAIN was = CallFields /\ was.op = "submit" /\ was.stage = "checked" /\ was.id \in Prompts
  BY DEF SubmitVerdict, AccessInv, AccessTypes
<1>2. /\ UNCHANGED <<asked, about, saved>>
      /\ pending' \in {pending, pending \ {was.id}}
      /\ answered' = answered \/ (lands /\ answered' = [answered EXCEPT ![was.id] = UidOf[c]])
      /\ \/ calls' = [calls EXCEPT ![c] = NoCall]
         \/ /\ lands /\ pending' = pending \ {was.id}
            /\ answered' = [answered EXCEPT ![was.id] = UidOf[c]]
            /\ calls' = [calls EXCEPT ![c] = moved]
  BY DEF SubmitVerdict
<1>3. /\ DOMAIN moved = CallFields /\ moved.stage = stage /\ moved.op = was.op /\ moved.id = was.id
      /\ moved.allow = was.allow /\ moved.exe = was.exe
  BY <1>1, CallMoves
<1>4. /\ stage \in {"confirm", "bind"}
      /\ ~Privileged(c) /\ OpensForEveryProgram(was) => stage = "confirm"
  BY DEF AfterConversion
<1>5. /\ pending' \subseteq pending /\ DOMAIN answered' = Prompts
      /\ \A p \in (1..asked) \ pending : answered'[p] = answered[p]
  <2>1. DOMAIN answered = Prompts
    BY DEF AccessInv, AccessTypes
  <2>2. CASE answered' = answered
    BY <1>2, <2>1, <2>2
  <2>3. CASE lands /\ answered' = [answered EXCEPT ![was.id] = UidOf[c]]
    <3>1. \A p : p # was.id => answered'[p] = answered[p]
      BY <2>3
    <3> QED
      BY <1>2, <2>1, <2>3, <3>1
  <2> QED
    BY <1>2, <2>2, <2>3
<1> HIDE DEF stage, moved
<1>6. CASE calls' = [calls EXCEPT ![c] = NoCall]
  <2>1. UNCHANGED <<asked, about, saved>>
    BY <1>2
  <2> QED
    BY <2>1, <1>5, <1>6, NoCallSays, OneCallSteps
<1>7. CASE /\ lands /\ pending' = pending \ {was.id}
           /\ answered' = [answered EXCEPT ![was.id] = UidOf[c]]
           /\ calls' = [calls EXCEPT ![c] = moved]
  <2>1. was.id \in (1..asked) \ pending' /\ answered'[was.id] = UidOf[c]
    BY <1>1, <1>7 DEF AccessInv, AccessTypes
  <2>2. ~Privileged(c) => Confirmed(moved)
    BY <1>1, <1>3, <1>4 DEF Confirmed, Elevated, OpensForEveryProgram
  <2> HIDE DEF lands, was
  <2> QED
    BY <1>1, <1>2, <1>3, <1>4, <1>5, <1>7, <2>1, <2>2, OneCallSteps
<1> QED
  BY <1>2, <1>6, <1>7

\* A rule write whose conversion opens the firewall is confirmed first; what was
\* elevated already goes straight to its write.
LEMMA WriteKeeps ==
  ASSUME AccessInv, NEW c \in Clients, WriteChecked(c)
  PROVE  AccessInv'
<1> DEFINE was == calls[c]
           stage == IF was.op = "upsert" THEN AfterConversion(c, was) ELSE "save"
           moved == [was EXCEPT !.stage = stage]
<1>1. /\ DOMAIN was = CallFields /\ was.op \in {"upsert", "apply", "pause"} /\ was.stage = "checked"
      /\ ~Privileged(c) => Confirmed(was)
  BY DEF WriteChecked, AccessInv, AccessTypes, CallsConfirmed
<1>2. UNCHANGED <<asked, about, pending, saved, answered>> /\ calls' = [calls EXCEPT ![c] = moved]
  <2>1. calls' = [calls EXCEPT ![c].stage = stage]
    BY DEF WriteChecked
  <2> HIDE DEF stage
  <2> QED
    BY <2>1 DEF WriteChecked, AccessInv, AccessTypes
<1>3. /\ DOMAIN moved = CallFields /\ moved.stage = stage /\ moved.op = was.op
      /\ moved.allow = was.allow /\ moved.exe = was.exe /\ moved.polkit = was.polkit
  BY <1>1, CallMoves
<1>4. /\ was.op = "upsert" => stage \in {"confirm", "bind"}
      /\ was.op = "upsert" /\ ~Privileged(c) /\ OpensForEveryProgram(was) => stage = "confirm"
  BY DEF AfterConversion
<1> HIDE DEF stage, moved
<1>5. ~Privileged(c) => Confirmed(moved)
  BY <1>1, <1>3, <1>4 DEF Confirmed, Elevated, OpensForEveryProgram
<1>6. /\ DOMAIN answered' = Prompts /\ pending' \subseteq pending
      /\ \A p \in (1..asked) \ pending : answered'[p] = answered[p]
  BY <1>2 DEF AccessInv, AccessTypes
<1> HIDE DEF was
<1> QED
  BY <1>1, <1>2, <1>3, <1>5, <1>6, OneCallSteps

\* bind_prompt_allow replaces the client's hash by the one shown, or refuses.
LEMMA BindKeeps ==
  ASSUME AccessInv, NEW c \in Clients, NEW ok \in BOOLEAN, BindAndResolve(c, ok)
  PROVE  AccessInv'
<1> DEFINE was == calls[c]
           b == about[was.id]
           bound == [was EXCEPT !.hash = b.hash]
<1>1. /\ DOMAIN was = CallFields /\ was.stage = "bind" /\ was.op \in {"submit", "upsert", "apply", "pause"}
      /\ was.op = "submit" => was.id \in Prompts /\ Landed(was, c)
      /\ ~Privileged(c) => Confirmed(was)
  BY DEF BindAndResolve, AccessInv, AccessTypes, CallsConfirmed
<1>2. /\ UNCHANGED <<asked, about, pending, saved, answered>>
      /\ DOMAIN answered' = Prompts /\ pending' \subseteq pending
      /\ \A p \in (1..asked) \ pending : answered'[p] = answered[p]
  BY DEF BindAndResolve, AccessInv, AccessTypes
<1>3. /\ DOMAIN bound = CallFields /\ bound.hash = b.hash /\ bound.op = was.op /\ bound.id = was.id
      /\ bound.allow = was.allow /\ bound.exe = was.exe /\ bound.polkit = was.polkit
  BY <1>1 DEF CallFields
<1> HIDE DEF bound
<1>4. \/ calls' = [calls EXCEPT ![c] = NoCall]
      \/ \E call \in {was, bound} :
           /\ was.op = "submit" => BoundTo(call)
           /\ calls' = [calls EXCEPT ![c] = [call EXCEPT !.stage = "save"]]
  <2>1. \/ Bound(was) = {}
        \/ Bound(was) = {was} /\ (was.op = "submit" => BoundTo(was))
        \/ Bound(was) = {bound} /\ BoundTo(bound)
    BY <1>3 DEF Bound, BoundTo, bound
  <2>2. \A x : (CHOOSE y \in {x} : TRUE) = x
    OBVIOUS
  <2>3. calls' = [calls EXCEPT ![c] =
          IF ok /\ Bound(was) # {} THEN [(CHOOSE y \in Bound(was) : TRUE) EXCEPT !.stage = "save"] ELSE NoCall]
    BY DEF BindAndResolve
  <2> QED
    BY <2>1, <2>2, <2>3
<1>5. CASE calls' = [calls EXCEPT ![c] = NoCall]
  BY <1>2, <1>5, NoCallSays, OneCallSteps
<1>6. ASSUME NEW call \in {was, bound}, was.op = "submit" => BoundTo(call),
             calls' = [calls EXCEPT ![c] = [call EXCEPT !.stage = "save"]]
      PROVE  AccessInv'
  <2> DEFINE moved == [call EXCEPT !.stage = "save"]
  <2>1. /\ DOMAIN call = CallFields /\ call.op = was.op /\ call.id = was.id
        /\ call.allow = was.allow /\ call.exe = was.exe /\ call.polkit = was.polkit
    BY <1>1, <1>3
  <2>2. /\ DOMAIN moved = CallFields /\ moved.stage = "save" /\ moved.op = was.op /\ moved.id = was.id
        /\ moved.allow = was.allow /\ moved.exe = was.exe /\ moved.polkit = was.polkit
        /\ moved.hash = call.hash
    BY <2>1, CallMoves
  <2>3. calls' = [calls EXCEPT ![c] = moved]
    BY <1>6
  <2> HIDE DEF moved
  <2>4. ~Privileged(c) => Confirmed(moved)
    BY <1>1, <2>2 DEF Confirmed, OpensForEveryProgram
  <2>5. was.op = "submit" => BoundTo(moved)
    BY <1>6, <2>1, <2>2 DEF BoundTo
  <2>6. was.op = "submit" => was.id \in (1..asked) \ pending' /\ answered'[was.id] = UidOf[c]
    BY <1>1, <1>2 DEF Landed
  <2> HIDE DEF was
  <2> QED
    BY <1>1, <1>2, <2>2, <2>3, <2>4, <2>5, <2>6, OneCallSteps
<1> QED
  BY <1>4, <1>5, <1>6

LEMMA SaveKeeps ==
  ASSUME AccessInv, NEW c \in Clients, NEW stored \in BOOLEAN, Save(c, stored)
  PROVE  AccessInv'
<1> DEFINE entry == [call |-> calls[c], by |-> c]
<1>1. /\ calls[c].stage = "save" /\ calls' = [calls EXCEPT ![c] = NoCall]
      /\ saved' \subseteq saved \cup {entry}
      /\ UNCHANGED <<asked, about, pending, answered>>
  BY DEF Save
<1>2. entry.call = calls[c] /\ entry.by = c
  OBVIOUS
<1> HIDE DEF entry
<1>3. \A d \in Clients : calls'[d] = IF d = c THEN NoCall ELSE calls[d]
  BY <1>1 DEF AccessInv, AccessTypes
<1>4. AccessTypes'
  BY <1>1, <1>3, NoCallSays DEF AccessInv, AccessTypes
<1>5. CallsConfirmed'
  BY <1>1, <1>3, NoCallSays DEF AccessInv, CallsConfirmed, Privileged, Confirmed, OpensForEveryProgram, Landed, BoundTo
<1>6. SavedConfirmed
  BY DEF AccessInv
<1>7. /\ ~Privileged(entry.by) => Confirmed(entry.call) /\ entry.call.stage = "save"
      /\ entry.call.op = "submit" => Landed(entry.call, entry.by) /\ BoundTo(entry.call)
  BY <1>1, <1>2 DEF AccessInv, CallsConfirmed
<1>8. SavedConfirmed'
  BY <1>1, <1>6, <1>7 DEF SavedConfirmed, Privileged, Confirmed, OpensForEveryProgram, Landed, BoundTo
<1> QED
  BY <1>4, <1>5, <1>8 DEF AccessInv

LEMMA AccessKept == AccessInv /\ [AccessNext]_accessVars => AccessInv'
<1> SUFFICES ASSUME AccessInv, [AccessNext]_accessVars PROVE AccessInv'
  OBVIOUS
<1>1. CASE asked < MaxAsked /\ \E kind \in PromptKinds[asked + 1] : AskPrompt(kind)
  BY <1>1, PromptsComeAndGo DEF AskPrompt
<1>2. CASE \E id \in Prompts : PromptExpires(id)
  BY <1>2, PromptsComeAndGo DEF PromptExpires
<1>3. ASSUME NEW c \in Clients,
             StandingChanges(c) \/ StreamPrompts(c) \/ StreamCloses(c) \/ HandleEvent(c)
      PROVE  AccessInv'
  <2>1. UNCHANGED <<calls, saved, answered, asked, about, pending>>
    BY <1>3 DEF StandingChanges, StreamPrompts, StreamCloses, HandleEvent
  <2> QED
    BY <2>1, PromptsComeAndGo
<1>4. CASE UNCHANGED accessVars
  BY <1>4, PromptsComeAndGo DEF accessVars
<1>5. ASSUME NEW c \in Clients,
             \/ WriteChecked(c) \/ \E req \in RequestKinds : Authorize(c, req)
             \/ \E ok \in BOOLEAN :
                  PolkitAnswers(c, ok) \/ SubmitVerdict(c, ok) \/ BindAndResolve(c, ok) \/ Save(c, ok)
      PROVE  AccessInv'
  BY <1>5, AuthorizeKeeps, PolkitKeeps, SubmitKeeps, WriteKeeps, BindKeeps, SaveKeeps
<1> QED
  BY <1>1, <1>2, <1>3, <1>4, <1>5 DEF AccessNext

\* What opens the firewall for every program, replaces many rules or pauses it was
\* confirmed through polkit, whoever's call brought it and however its peer's
\* standing changed on the way, and a rule an answer leaves behind is bound to the
\* prompt it answered (confirm_generic_allow, bind_prompt_allow).
THEOREM AdminConfirmedHolds == AccessInit /\ [][AccessNext]_accessVars => []AdminConfirmed
<1>1. AccessInv => AdminConfirmed
  <2> SUFFICES ASSUME SavedConfirmed PROVE AdminConfirmed
    BY DEF AccessInv
  <2>1. \A s \in saved : ~Privileged(s.by) =>
          /\ Elevated(s.call.op) => s.call.op \in s.call.polkit
          /\ ~Elevated(s.call.op) /\ OpensForEveryProgram(s.call) => "generic_allow" \in s.call.polkit
    BY DEF SavedConfirmed, Confirmed
  <2>2. SavedBoundToPrompt
    BY DEF SavedBoundToPrompt, SavedConfirmed, Landed, BoundTo
  <2> QED
    BY <2>1, <2>2 DEF AdminConfirmed
<1> QED
  BY <1>1, AccessStarts, AccessKept, PTL

-----------------------------------------------------------------------------
(* Who was shown a prompt *)

\* PromptAudience: the list and the map hold the same prompts, each once, and no
\* more of them than AUDIENCE_CAP.
AudienceRight ==
  /\ order \in Seq(Prompts) /\ IsInjective(order) /\ Len(order) <= AudienceCap
  /\ byPrompt \in [Prompts -> SUBSET {UidOf[c] : c \in Clients}]
  /\ \A p \in Prompts : byPrompt[p] # {} <=> p \in Range(order)

\* A stream that is closed has nothing left to handle.
StreamsRight ==
  /\ streams \in [Clients -> [open : BOOLEAN, answering : BOOLEAN, feed : Seq(Prompts)]]
  /\ \A c \in Clients : ~streams[c].open => streams[c].feed = <<>>
  /\ DOMAIN shownTo = Prompts

AudienceInv == AccessInv /\ AudienceRight /\ StreamsRight

\* Who may still be answered for, in the audience table.
Entered == {p \in Prompts : byPrompt[p] # {}}

\* A prompt leaves the table for another only when the table is full.
LEMMA RecordKeeps ==
  ASSUME AudienceRight, NEW id \in Prompts, NEW c \in Clients, Record(id, UidOf[c])
  PROVE  /\ AudienceRight'
         /\ \A p \in Prompts : byPrompt[p] # {} /\ byPrompt'[p] = {} => Cardinality(Entered') = AudienceCap
<1> DEFINE uid == UidOf[c]
           listed == IF InOrder(id) THEN order ELSE Append(order, id)
           over == IF Len(listed) > AudienceCap THEN Len(listed) - AudienceCap ELSE 0
           gone == {listed[i] : i \in 1..over}
<1>1. /\ order' = SubSeq(listed, over + 1, Len(listed))
      /\ byPrompt' = [p \in Prompts |->
            IF p \in gone THEN {} ELSE IF p = id THEN byPrompt[p] \cup {uid} ELSE byPrompt[p]]
  BY DEF Record
<1>2. /\ order \in Seq(Prompts) /\ IsInjective(order) /\ Len(order) \in Nat /\ Len(order) <= AudienceCap
      /\ AudienceCap \in Nat \ {0}
      /\ byPrompt \in [Prompts -> SUBSET {UidOf[d] : d \in Clients}]
      /\ \A p \in Prompts : byPrompt[p] # {} <=> p \in Range(order)
  BY AccessAssumption DEF AudienceRight
<1>3. InOrder(id) <=> id \in Range(order)
  BY <1>2 DEF InOrder, Range
<1>4. /\ listed \in Seq(Prompts) /\ IsInjective(listed) /\ Len(listed) \in Nat
      /\ Range(listed) = Range(order) \cup {id}
      /\ (InOrder(id) /\ Len(listed) = Len(order)) \/ (~InOrder(id) /\ Len(listed) = Len(order) + 1 /\ listed[Len(listed)] = id)
  <2>1. CASE InOrder(id)
    BY <1>2, <1>3, <2>1
  <2>2. CASE ~InOrder(id)
    <3>1. /\ Append(order, id) \in Seq(Prompts) /\ Len(Append(order, id)) = Len(order) + 1
          /\ Range(Append(order, id)) = Range(order) \cup {id} /\ IsInjective(Append(order, id))
      BY <1>2, <1>3, <2>2, AppendRange
    <3>2. Append(order, id)[Len(order) + 1] = id
      BY <1>2
    <3> QED
      BY <1>2, <2>2, <3>1, <3>2
  <2> QED
    BY <2>1, <2>2
<1> HIDE DEF listed
<1>5. DOMAIN listed = 1..Len(listed) /\ \A i \in 1..Len(listed) : listed[i] \in Prompts
  BY <1>4
<1>6. CASE Len(listed) <= AudienceCap
  <2>1. over = 0
    BY <1>2, <1>4, <1>6
  <2>2. order' = listed
    BY <1>1, <1>4, <2>1, SubSeqFull
  <2>3. gone = {}
    BY <2>1
  <2>4. \A p \in Prompts : byPrompt'[p] = IF p = id THEN byPrompt[p] \cup {uid} ELSE byPrompt[p]
    BY <1>1, <2>3
  <2>5. byPrompt' \in [Prompts -> SUBSET {UidOf[d] : d \in Clients}]
    <3>1. \A p \in Prompts : byPrompt'[p] \in SUBSET {UidOf[d] : d \in Clients}
      BY <1>2, <2>4
    <3>2. byPrompt' = [p \in Prompts |-> byPrompt'[p]]
      BY <1>1
    <3> QED
      BY <3>1, <3>2
  <2>6. AudienceRight'
    BY <1>2, <1>4, <1>6, <2>2, <2>4, <2>5 DEF AudienceRight
  <2> QED
    BY <2>4, <2>6
<1>7. CASE Len(listed) > AudienceCap
  <2>1. Len(listed) = AudienceCap + 1 /\ over = 1 /\ listed[Len(listed)] = id
    BY <1>2, <1>4, <1>7
  <2> DEFINE oldest == listed[1]
  <2>2. gone = {oldest}
    BY <2>1
  <2>3. oldest \in Prompts /\ oldest # id
    <3>1. 1 \in 1..Len(listed) /\ Len(listed) \in 1..Len(listed) /\ 1 # Len(listed)
      BY <1>2, <2>1
    <3> QED
      BY <1>4, <1>5, <2>1, <3>1 DEF IsInjective
  <2>4. /\ order' \in Seq(Prompts) /\ Len(order') = AudienceCap
        /\ \A i \in 1..AudienceCap : order'[i] = listed[i + 1]
    <3>1. order' = SubSeq(listed, 2, AudienceCap + 1)
      BY <1>1, <2>1
    <3>2. \A i \in 2..(AudienceCap + 1) : listed[i] \in Prompts
      BY <1>2, <1>5, <2>1
    <3>3. 2 \in Int /\ AudienceCap + 1 \in Int /\ 2 <= AudienceCap + 1 /\ (AudienceCap + 1) - 2 + 1 = AudienceCap
      BY <1>2
    <3>4. /\ SubSeq(listed, 2, AudienceCap + 1) \in Seq(Prompts)
          /\ Len(SubSeq(listed, 2, AudienceCap + 1)) = AudienceCap
          /\ \A i \in 1..AudienceCap : SubSeq(listed, 2, AudienceCap + 1)[i] = listed[2 + i - 1]
      BY <3>2, <3>3, SubSeqProperties
    <3>5. \A i \in 1..AudienceCap : 2 + i - 1 = i + 1
      BY <1>2
    <3> QED
      BY <3>1, <3>4, <3>5
  <2>5. DOMAIN order' = 1..AudienceCap
    BY <2>4
  <2>6. IsInjective(order')
    <3>1. ASSUME NEW i \in 1..AudienceCap, NEW j \in 1..AudienceCap, order'[i] = order'[j] PROVE i = j
      <4>1. i + 1 \in 1..Len(listed) /\ j + 1 \in 1..Len(listed) /\ listed[i + 1] = listed[j + 1]
        BY <1>2, <2>1, <2>4, <3>1
      <4>2. i + 1 = j + 1
        BY <1>4, <1>5, <4>1 DEF IsInjective
      <4> QED
        BY <1>2, <4>2
    <3> QED
      BY <2>5, <3>1 DEF IsInjective
  <2>7. Range(order') = Range(listed) \ {oldest}
    <3>1. ASSUME NEW p \in Range(order') PROVE p \in Range(listed) /\ p # oldest
      <4>1. PICK i \in 1..AudienceCap : p = listed[i + 1]
        BY <2>4, <2>5 DEF Range
      <4>2. i + 1 \in 1..Len(listed) /\ 1 \in 1..Len(listed) /\ i + 1 # 1
        BY <1>2, <2>1
      <4> QED
        BY <1>4, <1>5, <4>1, <4>2 DEF IsInjective, Range
    <3>2. ASSUME NEW p \in Range(listed), p # oldest PROVE p \in Range(order')
      <4>1. PICK i \in 1..Len(listed) : p = listed[i]
        BY <1>5 DEF Range
      <4>2. i # 1
        BY <3>2, <4>1
      <4>3. i - 1 \in 1..AudienceCap /\ (i - 1) + 1 = i
        BY <1>2, <2>1, <4>2
      <4>4. order'[i - 1] = p
        BY <2>4, <4>1, <4>3
      <4> QED
        BY <2>5, <4>3, <4>4 DEF Range
    <3> QED
      BY <3>1, <3>2
  <2> HIDE DEF oldest
  <2>8. \A p \in Prompts : byPrompt'[p] = IF p = oldest THEN {} ELSE IF p = id THEN byPrompt[p] \cup {uid} ELSE byPrompt[p]
    BY <1>1, <2>2
  <2>9. byPrompt' \in [Prompts -> SUBSET {UidOf[d] : d \in Clients}]
    <3>1. \A p \in Prompts : byPrompt'[p] \in SUBSET {UidOf[d] : d \in Clients}
      BY <1>2, <2>8
    <3>2. byPrompt' = [p \in Prompts |-> byPrompt'[p]]
      BY <1>1
    <3> QED
      BY <3>1, <3>2
  <2>10. \A p \in Prompts : byPrompt'[p] # {} <=> p \in Range(order')
    BY <1>2, <1>4, <2>3, <2>7, <2>8
  <2>11. AudienceRight'
    <3>1. Len(order') <= AudienceCap
      BY <1>2, <2>4
    <3> QED
      BY <2>4, <2>6, <2>9, <2>10, <3>1 DEF AudienceRight
  <2>12. Entered' = Range(order')
    <3>1. \A p \in Range(order') : p \in Prompts
      BY <2>4, RangeOfSeq
    <3> QED
      BY <2>10, <3>1 DEF Entered
  <2>13. Cardinality(Range(order')) = AudienceCap
    BY <2>4, <2>6, DistinctSize
  <2> QED
    BY <2>11, <2>12, <2>13
<1> QED
  BY <1>2, <1>4, <1>6, <1>7
LEMMA ForgetKeeps ==
  ASSUME AudienceRight, NEW id \in Prompts, Forget(id)
  PROVE  AudienceRight' /\ \A p \in Prompts : p # id => byPrompt'[p] = byPrompt[p]
<1> DEFINE others == Prompts \ {id}
<1>1. /\ order \in Seq(Prompts) /\ IsInjective(order) /\ Len(order) \in Nat /\ Len(order) <= AudienceCap
      /\ AudienceCap \in Nat
      /\ byPrompt \in [Prompts -> SUBSET {UidOf[c] : c \in Clients}]
      /\ \A p \in Prompts : byPrompt[p] # {} <=> p \in Range(order)
  BY AccessAssumption DEF AudienceRight
<1>2. /\ byPrompt' \in [Prompts -> SUBSET {UidOf[c] : c \in Clients}] /\ byPrompt'[id] = {}
      /\ \A p \in Prompts : p # id => byPrompt'[p] = byPrompt[p]
  BY <1>1 DEF Forget
<1>3. (order' = order /\ byPrompt[id] = {}) \/ order' = Kept(order, others)
  BY DEF Forget
<1>4. \A p \in Range(order) : p \in Prompts
  BY <1>1, RangeOfSeq
<1>5. /\ order' \in Seq(Prompts) /\ IsInjective(order') /\ Len(order') <= AudienceCap
      /\ Range(order') = Range(order) \ {id}
  <2>1. CASE order' = order /\ byPrompt[id] = {}
    BY <1>1, <2>1
  <2>2. CASE order' = Kept(order, others)
    <3> HIDE DEF others
    <3>1. /\ order' \in Seq(Prompts) /\ Len(order') <= Len(order) /\ IsInjective(order')
          /\ Range(order') = Range(order) \cap others
      BY <1>1, <2>2, KeptIs
    <3>2. Len(order') <= AudienceCap
      BY <1>1, <3>1
    <3>3. Range(order) \cap others = Range(order) \ {id}
      BY <1>4 DEF others
    <3> QED
      BY <3>1, <3>2, <3>3
  <2> QED
    BY <1>3, <2>1, <2>2
<1>6. \A p \in Prompts : byPrompt'[p] # {} <=> p \in Range(order')
  BY <1>1, <1>2, <1>5
<1> QED
  BY <1>2, <1>5, <1>6 DEF AudienceRight

\* The feed of a stream one step later.
LEMMA FeedsMove ==
  ASSUME AudienceInv, [AccessNext]_accessVars
  PROVE  /\ StreamsRight'
         /\ \A c \in Clients :
              \/ streams'[c].feed = streams[c].feed \/ ~streams'[c].answering \/ streams[c].feed = <<>>
              \/ Len(streams'[c].feed) >= Len(streams[c].feed) \/ HandleEvent(c)
<1> DEFINE Stream == [open : BOOLEAN, answering : BOOLEAN, feed : Seq(Prompts)]
           Moves(c) == \/ streams'[c].feed = streams[c].feed \/ ~streams'[c].answering \/ streams[c].feed = <<>>
                       \/ Len(streams'[c].feed) >= Len(streams[c].feed) \/ HandleEvent(c)
<1>1. /\ streams \in [Clients -> Stream] /\ DOMAIN shownTo = Prompts
      /\ \A c \in Clients : ~streams[c].open => streams[c].feed = <<>>
      /\ asked \in 0..MaxAsked /\ MaxAsked \in Nat /\ FeedCap \in Nat \ {0}
  BY AccessAssumption DEF AudienceInv, StreamsRight, AccessInv, AccessTypes
<1>2. Closed \in Stream /\ ~Closed.answering /\ Closed.feed = <<>>
  BY DEF Closed
<1>3. CASE UNCHANGED <<streams, shownTo>>
  BY <1>1, <1>3 DEF StreamsRight
<1>4. ASSUME asked < MaxAsked, NEW kind, AskPrompt(kind) PROVE StreamsRight' /\ \A c \in Clients : Moves(c)
  <2> DEFINE id == asked + 1
  <2>1. streams' = [c \in Clients |-> Fed(streams[c], id)] /\ shownTo' = shownTo
    BY <1>4 DEF AskPrompt
  <2>2. id \in Prompts
    BY <1>1, <1>4 DEF Prompts
  <2> HIDE DEF id
  <2>3. ASSUME NEW c \in Clients
        PROVE  /\ streams'[c] \in Stream /\ Len(streams'[c].feed) >= Len(streams[c].feed)
               /\ (~streams'[c].open => streams'[c].feed = <<>>)
    <3> DEFINE s == streams[c]
               fed == IF Len(s.feed) < FeedCap THEN Append(s.feed, id) ELSE Append(Tail(s.feed), id)
    <3>1. s \in Stream /\ s.feed \in Seq(Prompts) /\ Len(s.feed) \in Nat /\ (~s.open => s.feed = <<>>)
      BY <1>1
    <3>2. streams'[c] = IF ~s.open THEN s ELSE [s EXCEPT !.feed = fed]
      BY <2>1 DEF Fed
    <3>3. fed \in Seq(Prompts) /\ Len(fed) >= Len(s.feed)
      <4>1. CASE Len(s.feed) < FeedCap
        BY <2>2, <3>1, <4>1
      <4>2. CASE ~(Len(s.feed) < FeedCap)
        <5>1. s.feed # <<>>
          BY <1>1, <4>2
        <5>2. Tail(s.feed) \in Seq(Prompts) /\ Len(Tail(s.feed)) = Len(s.feed) - 1
          BY <3>1, <5>1, HeadTailProperties
        <5>3. Append(Tail(s.feed), id) \in Seq(Prompts) /\ Len(Append(Tail(s.feed), id)) = Len(s.feed)
          BY <2>2, <3>1, <5>2
        <5> QED
          BY <3>1, <4>2, <5>3
      <4> QED
        BY <4>1, <4>2
    <3> HIDE DEF s, fed
    <3>4. CASE ~s.open
      BY <3>1, <3>2, <3>4 DEF s
    <3>5. CASE s.open
      BY <3>1, <3>2, <3>3, <3>5 DEF s
    <3> QED
      BY <3>4, <3>5
  <2>4. streams' \in [Clients -> Stream]
    BY <2>1, <2>3
  <2> QED
    BY <1>1, <2>1, <2>3, <2>4 DEF StreamsRight
<1>5. ASSUME NEW c \in Clients, StreamPrompts(c) \/ StreamCloses(c) \/ HandleEvent(c)
      PROVE  StreamsRight' /\ \A d \in Clients : Moves(d)
  <2>1. PICK s \in Stream : /\ streams' = [streams EXCEPT ![c] = s] /\ (~s.open => s.feed = <<>>)
                            /\ s.answering => streams[c].feed = <<>> \/ HandleEvent(c)
    <3>1. CASE StreamPrompts(c)
      <4> DEFINE s == [open |-> TRUE, answering |-> Standing(c), feed |-> <<>>]
      <4>1. Standing(c) \in BOOLEAN
        BY DEF Standing
      <4>2. s \in Stream
        BY <4>1
      <4> QED
        BY <1>1, <3>1, <4>2 DEF StreamPrompts
    <3>2. CASE StreamCloses(c)
      BY <1>2, <3>2 DEF StreamCloses
    <3>3. CASE HandleEvent(c)
      <4> DEFINE old == streams[c]
                 s == [old EXCEPT !.feed = Tail(@)]
      <4>1. old \in Stream /\ old.feed # <<>> /\ old.open
        BY <1>1, <3>3 DEF HandleEvent
      <4>2. Tail(old.feed) \in Seq(Prompts)
        BY <4>1, HeadTailProperties
      <4>3. s \in Stream /\ s.open
        BY <4>1, <4>2
      <4>4. streams' = [streams EXCEPT ![c] = s] \/ streams' = [streams EXCEPT ![c] = Closed]
        BY <3>3 DEF HandleEvent
      <4> HIDE DEF s
      <4> QED
        BY <1>2, <3>3, <4>3, <4>4
    <3> QED
      BY <1>5, <3>1, <3>2, <3>3
  <2>2. streams' \in [Clients -> Stream] /\ streams'[c] = s /\ \A d \in Clients : d # c => streams'[d] = streams[d]
    BY <1>1, <2>1
  <2>3. DOMAIN shownTo' = Prompts
    BY <1>1, <1>5 DEF StreamPrompts, StreamCloses, HandleEvent
  <2> QED
    BY <1>1, <2>1, <2>2, <2>3 DEF StreamsRight
<1>6. \/ UNCHANGED <<streams, shownTo>>
      \/ asked < MaxAsked /\ \E kind \in PromptKinds[asked + 1] : AskPrompt(kind)
      \/ \E c \in Clients : StreamPrompts(c) \/ StreamCloses(c) \/ HandleEvent(c)
  BY DEF AccessNext, accessVars, PromptExpires, StandingChanges, WriteChecked, Authorize, PolkitAnswers, SubmitVerdict,
         BindAndResolve, Save
<1> QED
  BY <1>3, <1>4, <1>5, <1>6

LEMMA AudienceStarts == AccessInit => AudienceInv
<1> SUFFICES ASSUME AccessInit PROVE AudienceInv
  OBVIOUS
<1>1. /\ order = <<>> /\ byPrompt = [p \in Prompts |-> {}]
      /\ streams = [c \in Clients |-> Closed] /\ DOMAIN shownTo = Prompts
  BY DEF AccessInit
<1>2. Range(<<>>) = {} /\ IsInjective(<<>>)
  BY DEF Range, IsInjective
<1>3. AudienceRight
  BY <1>1, <1>2, AccessAssumption DEF AudienceRight
<1>4. StreamsRight
  BY <1>1 DEF StreamsRight, Closed
<1> QED
  BY <1>3, <1>4, AccessStarts DEF AudienceInv

\* A prompt that still waits leaves the audience table only when others fill it.
LEMMA TableMoves ==
  ASSUME AudienceInv, [AccessNext]_accessVars
  PROVE  /\ AudienceRight'
         /\ \A id \in pending \cap pending' : byPrompt[id] # {} /\ byPrompt'[id] = {} => Cardinality(Entered') = AudienceCap
<1>1. CASE UNCHANGED <<order, byPrompt>>
  BY <1>1 DEF AudienceInv, AudienceRight
<1>2. ASSUME NEW c \in Clients, HandleEvent(c), ~UNCHANGED <<order, byPrompt>>
      PROVE  /\ AudienceRight'
             /\ \A id \in pending \cap pending' : byPrompt[id] # {} /\ byPrompt'[id] = {} => Cardinality(Entered') = AudienceCap
  <2>1. Head(streams[c].feed) \in Prompts
    <3>1. streams[c].feed \in Seq(Prompts) /\ streams[c].feed # <<>>
      BY <1>2 DEF HandleEvent, AudienceInv, StreamsRight
    <3> QED
      BY <3>1, HeadTailProperties
  <2>2. Record(Head(streams[c].feed), UidOf[c])
    BY <1>2 DEF HandleEvent
  <2>3. \A p \in pending : p \in Prompts
    BY AccessAssumption DEF AudienceInv, AccessInv, AccessTypes, Prompts
  <2>4. AudienceRight
    BY DEF AudienceInv
  <2> QED
    BY <2>1, <2>2, <2>3, <2>4, RecordKeeps
<1>3. ASSUME NEW c \in Clients, NEW ok \in BOOLEAN, SubmitVerdict(c, ok), ~UNCHANGED <<order, byPrompt>>
      PROVE  /\ AudienceRight'
             /\ \A id \in pending \cap pending' : byPrompt[id] # {} /\ byPrompt'[id] = {} => Cardinality(Entered') = AudienceCap
  <2> DEFINE gone == calls[c].id
  <2>1. Forget(gone) /\ pending' = pending \ {gone} /\ calls[c].op = "submit"
    BY <1>3 DEF SubmitVerdict
  <2>2. gone \in Prompts /\ AudienceRight
    BY <2>1 DEF AudienceInv, AccessInv, AccessTypes
  <2>3. \A p \in pending : p \in Prompts
    BY AccessAssumption DEF AudienceInv, AccessInv, AccessTypes, Prompts
  <2> HIDE DEF gone
  <2>4. AudienceRight' /\ \A p \in Prompts : p # gone => byPrompt'[p] = byPrompt[p]
    BY <2>1, <2>2, ForgetKeeps
  <2> QED
    BY <2>1, <2>3, <2>4
<1>4. \/ UNCHANGED <<order, byPrompt>>
      \/ \E c \in Clients : HandleEvent(c) \/ \E ok \in BOOLEAN : SubmitVerdict(c, ok)
  BY DEF AccessNext, accessVars, AskPrompt, PromptExpires, StandingChanges, StreamPrompts, StreamCloses, WriteChecked,
         Authorize, PolkitAnswers, BindAndResolve, Save
<1> QED
  BY <1>1, <1>2, <1>3, <1>4

\* A stream that takes a prompt of its user from its feed, and goes on counting as
\* one that answers, has shown it.
LEMMA TakenMeansShown ==
  ASSUME AudienceInv, [AccessNext]_accessVars, NEW c \in Clients, NEW id \in pending,
         streams[c].answering, streams'[c].answering, streams[c].feed # <<>>, Head(streams[c].feed) = id,
         streams'[c].feed = Tail(streams[c].feed), ShouldDeliver(about[id].owner, UidOf[c])
  PROVE  UidOf[c] \in shownTo'[id]
<1>1. streams[c].feed \in Seq(Prompts) /\ streams \in [Clients -> [open : BOOLEAN, answering : BOOLEAN, feed : Seq(Prompts)]]
  BY DEF AudienceInv, StreamsRight
<1>2. Len(streams'[c].feed) = Len(streams[c].feed) - 1 /\ Len(streams[c].feed) \in Nat /\ id \in Prompts
  BY <1>1, HeadTailProperties
<1>3. HandleEvent(c)
  <2>1. \/ streams'[c].feed = streams[c].feed \/ ~streams'[c].answering \/ streams[c].feed = <<>>
        \/ Len(streams'[c].feed) >= Len(streams[c].feed) \/ HandleEvent(c)
    BY FeedsMove
  <2> DEFINE before == streams[c].feed
             after == streams'[c].feed
  <2>2. Len(after) = Len(before) - 1 /\ Len(before) \in Nat
    BY <1>2
  <2> HIDE DEF before, after
  <2>3. ~(Len(after) >= Len(before)) /\ after # before
    BY <2>2
  <2> QED
    BY <2>1, <2>3 DEF before, after
<1>4. Standing(c)
  <2>1. ASSUME ~Standing(c) PROVE FALSE
    <3>1. streams' = [streams EXCEPT ![c] = Closed]
      BY <1>3, <2>1 DEF HandleEvent
    <3>2. streams'[c] = Closed
      BY <1>1, <3>1
    <3> QED
      BY <3>2 DEF Closed
  <2> QED
    BY <2>1
<1>5. shownTo' = [shownTo EXCEPT ![id] = @ \cup {UidOf[c]}]
  BY <1>3, <1>4 DEF HandleEvent
<1>6. DOMAIN shownTo = Prompts
  BY DEF AudienceInv, StreamsRight
<1> QED
  BY <1>2, <1>5, <1>6

LEMMA AudienceKept == AudienceInv /\ [AccessNext]_accessVars => AudienceInv'
<1> SUFFICES ASSUME AudienceInv, [AccessNext]_accessVars PROVE AudienceInv'
  OBVIOUS
<1>1. AccessInv'
  BY AccessKept DEF AudienceInv
<1> QED
  BY <1>1, TableMoves, FeedsMove DEF AudienceInv

\* Both halves of CountedMeansShown, of one step.
LEMMA AudienceSteps ==
  AudienceInv /\ [AccessNext]_accessVars =>
    /\ \A c \in Clients : \A id \in pending :
         /\ streams[c].answering /\ streams'[c].answering
         /\ streams[c].feed # <<>> /\ Head(streams[c].feed) = id /\ streams'[c].feed = Tail(streams[c].feed)
         /\ ShouldDeliver(about[id].owner, UidOf[c])
         => UidOf[c] \in shownTo'[id]
    /\ \A id \in pending \cap pending' : byPrompt[id] # {} /\ byPrompt'[id] = {} =>
         Cardinality({p \in Prompts : byPrompt'[p] # {}}) = AudienceCap
<1>0. ASSUME AudienceInv, [AccessNext]_accessVars
      PROVE  /\ \A c \in Clients : \A id \in pending :
                   /\ streams[c].answering /\ streams'[c].answering
                   /\ streams[c].feed # <<>> /\ Head(streams[c].feed) = id
                   /\ streams'[c].feed = Tail(streams[c].feed)
                   /\ ShouldDeliver(about[id].owner, UidOf[c])
                   => UidOf[c] \in shownTo'[id]
             /\ AudienceRight'
             /\ \A id \in pending \cap pending' : byPrompt[id] # {} /\ byPrompt'[id] = {} =>
                   Cardinality(Entered') = AudienceCap
  BY <1>0, TakenMeansShown, TableMoves
<1>2. Entered' = {p \in Prompts : byPrompt'[p] # {}}
  BY DEF Entered
<1> QED
  BY <1>0, <1>2

\* A client that counts as someone who can answer has shown its user every prompt
\* it took, and a prompt that waits leaves the audience table only for others that
\* fill it (CountedMeansShown), for any clients, prompts, feed and table.
THEOREM CountedMeansShownHolds == AccessInit /\ [][AccessNext]_accessVars => CountedMeansShown
<1> HIDE DEF AudienceInv
<1> QED
  BY AudienceSteps, AudienceStarts, AudienceKept, PTL DEF CountedMeansShown

-----------------------------------------------------------------------------
(* The socket that sent a packet *)

LookFields == {"pc", "flow", "uid", "sender", "rows", "udp", "swapped", "info", "result"}

\* A UDP lookup asks the kernel only once the tables named one inode.
LookTypes ==
  /\ up \subseteq SockSet /\ DOMAIN look = LookFields /\ look.rows \subseteq SockSet
  /\ look.pc \in {"idle", "table1", "table2", "ask", "recv", "asked", "done"}
  /\ look.pc # "idle" => look.flow \in FlowSet
  /\ look.pc \in {"ask", "recv", "asked"} /\ look.flow.proto = "udp" => look.udp # NoInode

\* A sender still named is open, could have sent the packet, and its row is among
\* those read so far if its table was.
CouldSend(s, flow) == IF flow.proto = "udp" THEN UdpCompatible(s, flow) ELSE TcpExact(s, flow)
SenderOpen ==
  look.sender # NoInode => \E s \in up :
    /\ s.inode = look.sender /\ s.proto = look.flow.proto /\ CouldSend(s, look.flow)
    /\ look.uid # <<>> => s.uid = look.uid[1]
    /\ look.pc = "table2" /\ look.flow.proto = "udp" /\ s.table = TableNames(look.flow)[1] => s \in look.rows

\* What has been learned names the sender, if anyone.
NamesSender(inode) == look.sender # NoInode => inode \in {NoInode, look.sender}
Gathered ==
  /\ look.pc # "idle" => /\ NamesSender(look.udp) /\ NamesSender(look.result)
                         /\ look.flow.proto = "tcp" => look.udp = NoInode
  /\ look.info # <<>> => look.info[1].flow = look.flow
  /\ look.info # <<>> /\ look.flow.proto = "tcp" => NamesSender(look.info[1].inode)

\* At most one request is on the diagnostic socket, and it is this lookup's: a
\* thread whose request timed out has thrown its socket away.
AnswersThis(r) ==
  /\ r.flow = look.flow /\ r.seq = (IF diag.seq = 1 THEN SeqMax ELSE diag.seq - 1)
  /\ r.found # <<>> => r.found = <<r.found[1]>>
  /\ r.found # <<>> /\ look.flow.proto = "tcp" => NamesSender(r.found[1].inode)
OneRequest ==
  /\ DOMAIN diag = {"open", "seq", "asked", "ready"} /\ diag.seq \in 1..SeqMax
  /\ \/ diag.asked = <<>> /\ diag.ready = <<>>
     \/ look.pc = "recv" /\ \E r : AnswersThis(r) /\ \/ diag.asked = <<r>> /\ diag.ready = <<>>
                                                     \/ diag.asked = <<>> /\ diag.ready = <<r>>

SockInv == LookTypes /\ SenderOpen /\ Gathered /\ OneRequest

\* The lookup moves to another place, and keeps what it knows.
LEMMA LookMoves ==
  ASSUME NEW l, DOMAIN l = LookFields, NEW pc
  PROVE  LET m == [l EXCEPT !.pc = pc]
         IN  /\ DOMAIN m = LookFields /\ m.pc = pc /\ m.flow = l.flow /\ m.uid = l.uid
             /\ m.sender = l.sender /\ m.rows = l.rows /\ m.udp = l.udp /\ m.info = l.info
             /\ m.result = l.result
BY DEF LookFields

LEMMA AfterAskSays ==
  ASSUME NEW info, DOMAIN look = LookFields, look' = AfterAsk(info)
  PROVE  /\ DOMAIN look' = LookFields /\ look'.pc \in {"ask", "asked"} /\ look'.flow = look.flow
         /\ look'.uid = look.uid /\ look'.sender = look.sender /\ look'.rows = look.rows
         /\ look'.udp = look.udp /\ look'.result = look.result /\ look'.info \in {look.info, info}
<1>1. CASE look' = [[look EXCEPT !.swapped = TRUE] EXCEPT !.pc = "ask"]
  <2> DEFINE l == [look EXCEPT !.swapped = TRUE]
  <2>1. DOMAIN l = LookFields /\ l.flow = look.flow /\ l.uid = look.uid /\ l.sender = look.sender
        /\ l.rows = look.rows /\ l.udp = look.udp /\ l.info = look.info /\ l.result = look.result
    BY DEF LookFields
  <2>2. look' = [l EXCEPT !.pc = "ask"]
    BY <1>1
  <2> HIDE DEF l
  <2> QED
    BY <2>1, <2>2, LookMoves
<1>2. CASE look' = [[look EXCEPT !.info = info] EXCEPT !.pc = "asked"]
  <2> DEFINE l == [look EXCEPT !.info = info]
  <2>1. DOMAIN l = LookFields /\ l.flow = look.flow /\ l.uid = look.uid /\ l.sender = look.sender
        /\ l.rows = look.rows /\ l.udp = look.udp /\ l.info = info /\ l.result = look.result
    BY DEF LookFields
  <2>2. look' = [l EXCEPT !.pc = "asked"]
    BY <1>2
  <2> HIDE DEF l
  <2> QED
    BY <2>1, <2>2, LookMoves
<1> QED
  BY <1>1, <1>2 DEF AfterAsk

LEMMA SockStarts == SockInit => SockInv
<1> SUFFICES ASSUME SockInit PROVE SockInv
  OBVIOUS
<1>1. /\ up = SockSet /\ look = NoLook /\ diag = ClosedDiag(1)
  BY DEF SockInit
<1> QED
  BY <1>1, SockAssumption DEF SockInv, LookTypes, LookFields, SenderOpen, Gathered, NamesSender, OneRequest, NoLook, ClosedDiag

\* A lookup under way keeps its packet and its sender while it moves on.
LEMMA LookKeeps ==
  ASSUME SockInv, look.pc # "idle", UNCHANGED up, DOMAIN look' = LookFields, look'.rows \subseteq SockSet,
         look'.pc \in {"table1", "ask", "recv", "asked", "done"},
         look'.flow = look.flow, look'.uid = look.uid, look'.sender = look.sender,
         look'.pc \in {"ask", "recv", "asked"} /\ look.flow.proto = "udp" => look'.udp # NoInode
  PROVE  LookTypes' /\ SenderOpen'
<1>1. LookTypes'
  BY DEF SockInv, LookTypes
<1>2. SenderOpen'
  BY DEF SockInv, SenderOpen, CouldSend, UdpCompatible, TcpExact
<1> QED
  BY <1>1, <1>2

\* Between requests nothing is left on the diagnostic socket.
LEMMA DiagQuiet ==
  ASSUME SockInv, look.pc # "recv", UNCHANGED diag
  PROVE  OneRequest' /\ diag.asked = <<>> /\ diag.ready = <<>>
BY DEF SockInv, OneRequest

\* A TCP row of exactly this flow is the sender's while that is open.
LEMMA ExactIsSender ==
  ASSUME SockInv, look.pc # "idle", look.flow.proto = "tcp", NEW s \in SockSet, s.proto = "tcp", TcpExact(s, look.flow)
  PROVE  NamesSender(s.inode)
<1>1. look.flow \in FlowSet
  BY DEF SockInv, LookTypes
<1> QED
  BY <1>1, SockAssumption DEF SockInv, LookTypes, SenderOpen, CouldSend, NamesSender

LEMMA LookupBeginKeeps ==
  ASSUME SockInv, NEW flow \in FlowSet, NEW s \in up, LookupBegin(flow, s)
  PROVE  SockInv'
<1>1. /\ look.pc = "idle" /\ UNCHANGED <<up, diag>>
      /\ s.proto = flow.proto /\ CouldSend(s, flow)
      /\ DOMAIN look' = LookFields /\ look'.rows = {} /\ look'.udp = NoInode /\ look'.info = <<>>
      /\ look'.result = NoInode
      /\ look'.sender = s.inode /\ look'.flow = flow
      /\ look'.pc = IF flow.proto = "udp" THEN "table1" ELSE "ask"
      /\ look'.uid # <<>> => s.uid = look'.uid[1]
  BY DEF LookupBegin, LookFields, CouldSend
<1>2. LookTypes'
  BY <1>1 DEF SockInv, LookTypes
<1>3. SenderOpen'
  BY <1>1 DEF SenderOpen, CouldSend, UdpCompatible, TcpExact
<1>4. Gathered'
  BY <1>1 DEF Gathered, NamesSender
<1> QED
  BY <1>1, <1>2, <1>3, <1>4, DiagQuiet DEF SockInv

\* The one inode all compatible rows share is the sender's, whose row is among them
\* unless it closed meanwhile.
LEMMA UdpReadKeeps ==
  ASSUME SockInv, NEW i \in 1..2, ReadUdpTable(i)
  PROVE  SockInv'
<1> DEFINE tables == TableNames(look.flow)
           rows == look.rows \cup RowsOf(tables[i])
           inode == ScanUdp(rows, look.flow, look.uid)
<1>1. /\ look.pc = (IF i = 1 THEN "table1" ELSE "table2") /\ look.flow.proto = "udp" /\ i <= Len(tables)
      /\ UNCHANGED <<up, diag>> /\ look.flow \in FlowSet /\ DOMAIN look = LookFields
      /\ rows \subseteq SockSet
  BY DEF ReadUdpTable, SockInv, LookTypes, RowsOf
<1>2. tables = <<"v4", "v6">> \/ (tables = <<"v6">> /\ ~look.flow.src.ip.v4)
  BY <1>1, SockAssumption DEF TableNames
<1>3. CASE i < Len(tables)
  <2> DEFINE l == [look EXCEPT !.rows = rows]
  <2>1. DOMAIN l = LookFields /\ l.flow = look.flow /\ l.uid = look.uid /\ l.sender = look.sender
        /\ l.rows = rows /\ l.udp = look.udp /\ l.info = look.info /\ l.result = look.result
    BY <1>1 DEF LookFields
  <2>2. look' = [l EXCEPT !.pc = "table2"]
    BY <1>3 DEF ReadUdpTable
  <2> HIDE DEF l
  <2>3. /\ DOMAIN look' = LookFields /\ look'.pc = "table2" /\ look'.flow = look.flow
        /\ look'.uid = look.uid /\ look'.sender = look.sender
        /\ look'.rows = rows /\ look'.udp = look.udp /\ look'.info = look.info
        /\ look'.result = look.result
    BY <2>1, <2>2, LookMoves
  <2>4. LookTypes'
    BY <1>1, <2>3 DEF SockInv, LookTypes
  <2>5. i = 1
    <3>1. Len(<<"v4", "v6">>) = 2 /\ Len(<<"v6">>) = 1
      OBVIOUS
    <3>2. Len(tables) \in 1..2
      BY <1>2, <3>1
    <3>3. \A n \in 1..2 : i < n => i = 1
      OBVIOUS
    <3> QED
      BY <1>3, <3>2, <3>3
  <2>6. SenderOpen'
    BY <1>1, <2>3, <2>5 DEF SockInv, SenderOpen, CouldSend, UdpCompatible, TcpExact, RowsOf
  <2>7. Gathered'
    BY <1>1, <2>3 DEF SockInv, Gathered, NamesSender
  <2> QED
    BY <1>1, <2>4, <2>6, <2>7, DiagQuiet DEF SockInv
<1>4. CASE ~(i < Len(tables))
  <2> DEFINE e == [look EXCEPT !.rows = {}]
             l == [e EXCEPT !.udp = inode]
             pc == IF inode = NoInode THEN "done" ELSE "ask"
  <2>1. DOMAIN e = LookFields /\ e.flow = look.flow /\ e.uid = look.uid /\ e.sender = look.sender
        /\ e.rows = {} /\ e.info = look.info /\ e.result = look.result
    BY <1>1 DEF LookFields
  <2>2. look' = [l EXCEPT !.pc = pc]
    BY <1>4 DEF ReadUdpTable
  <2> HIDE DEF e, inode, pc
  <2>3. DOMAIN l = LookFields /\ l.flow = look.flow /\ l.uid = look.uid /\ l.sender = look.sender
        /\ l.rows = {} /\ l.udp = inode /\ l.info = look.info /\ l.result = look.result
    BY <2>1 DEF LookFields
  <2> HIDE DEF l
  <2>4. /\ DOMAIN look' = LookFields /\ look'.pc = pc /\ look'.flow = look.flow
        /\ look'.uid = look.uid /\ look'.sender = look.sender
        /\ look'.rows = {} /\ look'.udp = inode /\ look'.info = look.info /\ look'.result = look.result
    BY <2>2, <2>3, LookMoves
  <2>5. LookTypes' /\ SenderOpen'
    BY <1>1, <2>4, LookKeeps DEF pc
  <2>6. look.sender # NoInode => inode \in {NoInode, look.sender}
    <3> SUFFICES ASSUME look.sender # NoInode, inode # NoInode PROVE inode = look.sender
      OBVIOUS
    <3>1. PICK s \in up : /\ s.inode = look.sender /\ s.proto = "udp" /\ UdpCompatible(s, look.flow)
                          /\ look.uid # <<>> => s.uid = look.uid[1]
                          /\ look.pc = "table2" /\ s.table = tables[1] => s \in look.rows
      BY <1>1 DEF SockInv, SenderOpen, CouldSend
    <3>2. s.table = "v6" \/ (s.table = "v4" /\ look.flow.src.ip.v4)
      BY <1>1, <3>1, SockAssumption DEF SockInv, LookTypes
    <3>3. i = Len(tables)
      BY <1>1, <1>2, <1>4
    <3>4. s \in rows
      BY <1>1, <1>2, <3>1, <3>2, <3>3 DEF RowsOf
    <3> DEFINE fits == {r.inode : r \in {q \in Rows(rows, "udp", look.uid) : UdpCompatible(q, look.flow)}}
    <3>5. look.sender \in fits
      BY <3>1, <3>4 DEF Rows
    <3>6. \E j \in fits : fits = {j} /\ inode = j
      BY DEF inode, ScanUdp
    <3> QED
      BY <3>5, <3>6
  <2>7. Gathered'
    BY <1>1, <2>4, <2>6 DEF SockInv, Gathered, NamesSender, pc
  <2> QED
    BY <1>1, <2>5, <2>7, DiagQuiet DEF SockInv
<1> QED
  BY <1>3, <1>4

LEMMA BudgetKeeps == SockInv /\ BudgetExpires => SockInv'
<1> SUFFICES ASSUME SockInv, BudgetExpires PROVE SockInv'
  OBVIOUS
<1> DEFINE e == [look EXCEPT !.rows = {}]
           l == [e EXCEPT !.result = NoInode]
<1>1. /\ look.pc \in {"table1", "table2"} /\ UNCHANGED <<up, diag>> /\ DOMAIN look = LookFields
      /\ look' = [l EXCEPT !.pc = "done"]
  BY DEF BudgetExpires, SockInv, LookTypes
<1>2. DOMAIN e = LookFields /\ e.flow = look.flow /\ e.uid = look.uid /\ e.sender = look.sender
      /\ e.rows = {} /\ e.udp = look.udp /\ e.info = look.info
  BY <1>1 DEF LookFields
<1> HIDE DEF e
<1>3. DOMAIN l = LookFields /\ l.flow = look.flow /\ l.uid = look.uid /\ l.sender = look.sender
      /\ l.rows = {} /\ l.udp = look.udp /\ l.info = look.info /\ l.result = NoInode
  BY <1>2 DEF LookFields
<1> HIDE DEF l
<1>4. /\ DOMAIN look' = LookFields /\ look'.pc = "done" /\ look'.flow = look.flow /\ look'.uid = look.uid
      /\ look'.sender = look.sender /\ look'.rows = {} /\ look'.udp = look.udp /\ look'.info = look.info
      /\ look'.result = NoInode
  BY <1>1, <1>3, LookMoves
<1>5. LookTypes' /\ SenderOpen'
  BY <1>1, <1>4, LookKeeps
<1>6. Gathered'
  BY <1>1, <1>4 DEF SockInv, Gathered, NamesSender
<1> QED
  BY <1>1, <1>5, <1>6, DiagQuiet DEF SockInv

\* What the kernel finds for an exact TCP request is the sender while it is open.
LEMMA FoundIsSender ==
  ASSUME SockInv, look.pc = "ask", NEW found \in Answers(look.flow)
  PROVE  /\ found # <<>> => found = <<found[1]>>
         /\ found # <<>> /\ look.flow.proto = "tcp" => NamesSender(found[1].inode)
<1>1. CASE found = <<>>
  BY <1>1
<1>2. ASSUME found # <<>>
      PROVE  \E s \in KernelFinds(look.flow) : found = <<s>> /\ ~(s.proto = "tcp" /\ s.listen)
  BY <1>2 DEF Answers, Parsed
<1>3. ASSUME NEW s \in KernelFinds(look.flow), found = <<s>>, ~(s.proto = "tcp" /\ s.listen),
             look.flow.proto = "tcp"
      PROVE  NamesSender(s.inode)
  <2>1. s \in up /\ s.proto = "tcp" /\ TcpExact(s, look.flow)
    BY <1>3 DEF KernelFinds
  <2> QED
    BY <1>3, <2>1, ExactIsSender DEF SockInv, LookTypes
<1> QED
  BY <1>1, <1>2, <1>3

\* The request on its way carries this lookup's flow and the number just used.
LEMMA DiagSendKeeps == SockInv /\ DiagSend => SockInv'
<1> SUFFICES ASSUME SockInv, DiagSend PROVE SockInv'
  OBVIOUS
<1>1. /\ look.pc = "ask" /\ UNCHANGED up /\ DOMAIN look = LookFields /\ look' = [look EXCEPT !.pc = "recv"]
      /\ diag.asked = <<>> /\ diag.ready = <<>> /\ diag.seq \in 1..SeqMax
  BY DEF DiagSend, SockInv, LookTypes, OneRequest
<1>2. /\ DOMAIN look' = LookFields /\ look'.pc = "recv" /\ look'.flow = look.flow /\ look'.uid = look.uid
      /\ look'.sender = look.sender /\ look'.rows = look.rows /\ look'.udp = look.udp
      /\ look'.info = look.info /\ look'.result = look.result
  BY <1>1, LookMoves
<1>3. PICK found \in Answers(look.flow) :
        diag' = [open |-> TRUE, seq |-> NextSeq(diag.seq), ready |-> diag.ready,
                 asked |-> Append(diag.asked, [seq |-> diag.seq, flow |-> look.flow, found |-> found])]
  BY DEF DiagSend
<1>4. PICK r : r = [seq |-> diag.seq, flow |-> look.flow, found |-> found]
  OBVIOUS
<1>5. /\ DOMAIN diag' = {"open", "seq", "asked", "ready"} /\ diag'.seq = NextSeq(diag.seq)
      /\ diag'.asked = Append(<<>>, r) /\ diag'.ready = <<>>
  BY <1>1, <1>3, <1>4
<1>6. Append(<<>>, r) = <<r>>
  OBVIOUS
<1>7. diag'.seq \in 1..SeqMax /\ r.seq = (IF diag'.seq = 1 THEN SeqMax ELSE diag'.seq - 1)
  BY <1>1, <1>4, <1>5, SockAssumption DEF NextSeq
<1>8. OneRequest'
  <2>1. AnswersThis(r)'
    BY <1>1, <1>2, <1>4, <1>7, FoundIsSender DEF AnswersThis, NamesSender
  <2> QED
    BY <1>2, <1>5, <1>6, <1>7, <2>1 DEF OneRequest
<1>9. LookTypes' /\ SenderOpen'
  BY <1>1, <1>2, LookKeeps DEF SockInv, LookTypes
<1>10. Gathered'
  BY <1>1, <1>2 DEF SockInv, Gathered, NamesSender
<1> QED
  BY <1>8, <1>9, <1>10 DEF SockInv

\* A socket thrown away leaves nothing of its request behind.
LEMMA DesyncedKeeps ==
  ASSUME SockInv, NEW d, d.seq \in 1..SeqMax, diag' = Desynced(d), UNCHANGED up,
         look.pc \in {"ask", "recv"}, look' = AfterAsk(<<>>)
  PROVE  SockInv'
<1>1. /\ DOMAIN look' = LookFields /\ look'.pc \in {"ask", "asked"} /\ look'.flow = look.flow
      /\ look'.uid = look.uid /\ look'.sender = look.sender /\ look'.rows = look.rows
      /\ look'.udp = look.udp /\ look'.result = look.result /\ look'.info \in {look.info, <<>>}
  BY AfterAskSays DEF SockInv, LookTypes
<1>2. LookTypes' /\ SenderOpen'
  BY <1>1, LookKeeps DEF SockInv, LookTypes
<1>3. Gathered'
  BY <1>1 DEF SockInv, Gathered, NamesSender
<1>4. OneRequest'
  BY DEF OneRequest, Desynced, ClosedDiag
<1> QED
  BY <1>2, <1>3, <1>4 DEF SockInv

LEMMA DiagSendFailsKeeps == SockInv /\ DiagSendFails => SockInv'
<1> SUFFICES ASSUME SockInv, DiagSendFails PROVE SockInv'
  OBVIOUS
<1> DEFINE d == [diag EXCEPT !.seq = NextSeq(@)]
<1>1. d.seq \in 1..SeqMax
  BY SockAssumption DEF SockInv, OneRequest, NextSeq
<1>2. diag' = Desynced(d) /\ look.pc = "ask" /\ look' = AfterAsk(<<>>) /\ UNCHANGED up
  BY DEF DiagSendFails
<1> HIDE DEF d
<1> QED
  BY <1>1, <1>2, DesyncedKeeps

LEMMA DiagTimesOutKeeps == SockInv /\ DiagTimesOut => SockInv'
BY DesyncedKeeps DEF DiagTimesOut, SockInv, OneRequest

LEMMA KernelAnswersKeeps == SockInv /\ KernelAnswers => SockInv'
<1> SUFFICES ASSUME SockInv, KernelAnswers PROVE SockInv'
  OBVIOUS
<1>1. PICK r : /\ look.pc = "recv" /\ AnswersThis(r)
               /\ diag.asked = <<r>> /\ diag.ready = <<>>
  BY DEF KernelAnswers, SockInv, OneRequest
<1>2. Tail(<<r>>) = <<>> /\ Head(<<r>>) = r /\ Append(<<>>, r) = <<r>>
  OBVIOUS
<1> DEFINE d == [diag EXCEPT !.asked = Tail(@)]
<1>3. /\ DOMAIN diag = {"open", "seq", "asked", "ready"} /\ diag.seq \in 1..SeqMax
      /\ diag' = [d EXCEPT !.ready = Append(@, Head(diag.asked))] /\ UNCHANGED <<up, look>>
  BY DEF KernelAnswers, SockInv, OneRequest
<1>4. DOMAIN d = {"open", "seq", "asked", "ready"} /\ d.seq = diag.seq /\ d.asked = <<>> /\ d.ready = <<>>
  BY <1>1, <1>2, <1>3
<1> HIDE DEF d
<1>5. DOMAIN diag' = {"open", "seq", "asked", "ready"} /\ diag'.seq = diag.seq /\ diag'.asked = <<>> /\ diag'.ready = <<r>>
  BY <1>1, <1>2, <1>3, <1>4
<1>6. OneRequest'
  <2>1. AnswersThis(r)'
    BY <1>1, <1>3, <1>5 DEF AnswersThis, NamesSender
  <2> QED
    BY <1>1, <1>3, <1>5, <2>1 DEF OneRequest
<1>7. LookTypes' /\ SenderOpen' /\ Gathered'
  BY <1>3 DEF SockInv, LookTypes, SenderOpen, CouldSend, UdpCompatible, TcpExact, Gathered, NamesSender
<1> QED
  BY <1>6, <1>7 DEF SockInv

\* The answer taken is the one to this lookup's request.
LEMMA DiagRecvKeeps == SockInv /\ DiagRecv => SockInv'
<1> SUFFICES ASSUME SockInv, DiagRecv PROVE SockInv'
  OBVIOUS
<1> DEFINE mine == IF diag.seq = 1 THEN SeqMax ELSE diag.seq - 1
           taken == [diag EXCEPT !.ready = Tail(@)]
<1>1. PICK r : look.pc = "recv" /\ AnswersThis(r) /\ diag.asked = <<>> /\ diag.ready = <<r>>
  BY DEF DiagRecv, SockInv, OneRequest
<1>2. Head(diag.ready) = r /\ Tail(diag.ready) = <<>>
  BY <1>1
<1>3. DOMAIN diag = {"open", "seq", "asked", "ready"} /\ diag.seq \in 1..SeqMax /\ UNCHANGED up
  BY DEF DiagRecv, SockInv, OneRequest
<1>4. DOMAIN taken = {"open", "seq", "asked", "ready"} /\ taken.seq = diag.seq /\ taken.asked = <<>>
      /\ taken.ready = <<>>
  BY <1>1, <1>2, <1>3
<1> DEFINE info == [i \in 1..Len(r.found) |->
                      [inode |-> r.found[i].inode, uid |-> r.found[i].uid, flow |-> r.flow]]
<1>5. diag' = taken /\ look' = AfterAsk(info)
  BY <1>1, <1>2 DEF DiagRecv, AnswersThis
<1>6. /\ info # <<>> => info[1].flow = look.flow
      /\ info # <<>> /\ look.flow.proto = "tcp" => NamesSender(info[1].inode)
  <2>1. CASE r.found = <<>>
    <3>1. Len(r.found) = 0
      BY <2>1
    <3>2. info = <<>>
      BY <3>1
    <3> HIDE DEF info
    <3> QED
      BY <3>2
  <2>2. CASE r.found # <<>>
    <3>1. r.found = <<r.found[1]>> /\ Len(<<r.found[1]>>) = 1
      BY <1>1, <2>2 DEF AnswersThis
    <3>2. 1 \in 1..Len(r.found)
      BY <3>1
    <3>3. info[1].flow = r.flow /\ info[1].inode = r.found[1].inode
      BY <3>2
    <3> HIDE DEF info
    <3> QED
      BY <1>1, <2>2, <3>3 DEF AnswersThis
  <2> QED
    BY <2>1, <2>2
<1> HIDE DEF info, taken
<1>7. /\ DOMAIN look' = LookFields /\ look'.pc \in {"ask", "asked"} /\ look'.flow = look.flow
      /\ look'.uid = look.uid /\ look'.sender = look.sender /\ look'.rows = look.rows
      /\ look'.udp = look.udp /\ look'.result = look.result /\ look'.info \in {look.info, info}
  BY <1>5, AfterAskSays DEF SockInv, LookTypes
<1>8. LookTypes' /\ SenderOpen'
  BY <1>1, <1>3, <1>7, LookKeeps DEF SockInv, LookTypes
<1>9. Gathered'
  BY <1>1, <1>6, <1>7 DEF SockInv, Gathered, NamesSender
<1>10. OneRequest'
  BY <1>3, <1>4, <1>5 DEF OneRequest
<1> QED
  BY <1>8, <1>9, <1>10 DEF SockInv

LEMMA AcceptKeeps == SockInv /\ AcceptInfo => SockInv'
<1> SUFFICES ASSUME SockInv, AcceptInfo PROVE SockInv'
  OBVIOUS
<1>1. look.pc = "asked" /\ UNCHANGED <<up, diag>> /\ DOMAIN look = LookFields
  BY DEF AcceptInfo, SockInv, LookTypes
<1>2. ASSUME NEW inode, look' = [[look EXCEPT !.result = inode] EXCEPT !.pc = "done"], NamesSender(inode)
      PROVE  SockInv'
  <2> DEFINE l == [look EXCEPT !.result = inode]
  <2>1. DOMAIN l = LookFields /\ l.flow = look.flow /\ l.uid = look.uid /\ l.sender = look.sender
        /\ l.rows = look.rows /\ l.udp = look.udp /\ l.info = look.info /\ l.result = inode
    BY <1>1 DEF LookFields
  <2>2. look' = [l EXCEPT !.pc = "done"]
    BY <1>2
  <2> HIDE DEF l
  <2>3. /\ DOMAIN look' = LookFields /\ look'.pc = "done" /\ look'.flow = look.flow /\ look'.uid = look.uid
        /\ look'.sender = look.sender /\ look'.rows = look.rows /\ look'.udp = look.udp
        /\ look'.info = look.info /\ look'.result = inode
    BY <2>1, <2>2, LookMoves
  <2>4. LookTypes' /\ SenderOpen'
    BY <1>1, <2>3, LookKeeps DEF SockInv, LookTypes
  <2>5. Gathered'
    BY <1>1, <1>2, <2>3 DEF SockInv, Gathered, NamesSender
  <2> QED
    BY <1>1, <2>4, <2>5, DiagQuiet DEF SockInv
<1>3. CASE look.udp # NoInode
  <2>1. look' = [[look EXCEPT !.result = look.udp] EXCEPT !.pc = "done"]
    BY <1>3 DEF AcceptInfo
  <2> QED
    BY <1>1, <1>2, <2>1 DEF SockInv, Gathered
<1>4. CASE look.udp = NoInode
  <2>1. look.flow.proto = "tcp"
    BY <1>1, <1>4, SockAssumption DEF SockInv, LookTypes
  <2>2. CASE look.info # <<>> /\ look' = [[look EXCEPT !.result = look.info[1].inode] EXCEPT !.pc = "done"]
    BY <1>2, <2>1, <2>2 DEF SockInv, Gathered
  <2>3. CASE look' = [[look EXCEPT !.info = <<>>] EXCEPT !.pc = "table1"]
    <3> DEFINE l == [look EXCEPT !.info = <<>>]
    <3>1. DOMAIN l = LookFields /\ l.flow = look.flow /\ l.uid = look.uid /\ l.sender = look.sender
          /\ l.rows = look.rows /\ l.udp = look.udp /\ l.info = <<>> /\ l.result = look.result
      BY <1>1 DEF LookFields
    <3>2. look' = [l EXCEPT !.pc = "table1"]
      BY <2>3
    <3> HIDE DEF l
    <3>3. /\ DOMAIN look' = LookFields /\ look'.pc = "table1" /\ look'.flow = look.flow /\ look'.uid = look.uid
          /\ look'.sender = look.sender /\ look'.rows = look.rows /\ look'.udp = look.udp
          /\ look'.info = <<>> /\ look'.result = look.result
      BY <3>1, <3>2, LookMoves
    <3>4. LookTypes' /\ SenderOpen'
      BY <1>1, <3>3, LookKeeps DEF SockInv, LookTypes
    <3>5. Gathered'
      BY <1>1, <3>3 DEF SockInv, Gathered, NamesSender
    <3> QED
      BY <1>1, <3>4, <3>5, DiagQuiet DEF SockInv
  <2> QED
    BY <1>4, <2>2, <2>3 DEF AcceptInfo
<1> QED
  BY <1>3, <1>4

\* The first table with the tuple names the sender, whichever table it is.
LEMMA TcpReadKeeps ==
  ASSUME SockInv, NEW i \in 1..2, NEW readable \in BOOLEAN, ReadTcpTable(i, readable)
  PROVE  SockInv'
<1> DEFINE entries == RowsOf(TableNames(look.flow)[i])
           inode == IF readable THEN ScanTcp(entries, look.flow, look.uid) ELSE NoInode
           pc == IF inode = NoInode /\ i < Len(TableNames(look.flow)) THEN "table2" ELSE "done"
           l == [look EXCEPT !.result = inode]
<1>1. /\ look.pc \in {"table1", "table2"} /\ look.flow.proto = "tcp" /\ UNCHANGED <<up, diag>>
      /\ DOMAIN look = LookFields /\ entries \subseteq SockSet
      /\ look' = [l EXCEPT !.pc = pc]
  BY DEF ReadTcpTable, SockInv, LookTypes, RowsOf
<1>2. NamesSender(inode)
  <2> DEFINE fits == {e.inode : e \in {q \in Rows(entries, "tcp", look.uid) : TcpExact(q, look.flow)}}
  <2>1. inode = NoInode \/ inode \in fits
    BY DEF ScanTcp
  <2>2. \A e \in Rows(entries, "tcp", look.uid) : TcpExact(e, look.flow) => NamesSender(e.inode)
    BY <1>1, ExactIsSender DEF Rows
  <2> QED
    BY <2>1, <2>2 DEF NamesSender
<1>3. pc \in {"table2", "done"}
  OBVIOUS
<1> HIDE DEF inode, pc, entries
<1>4. DOMAIN l = LookFields /\ l.flow = look.flow /\ l.uid = look.uid /\ l.sender = look.sender
      /\ l.rows = look.rows /\ l.udp = look.udp /\ l.info = look.info /\ l.result = inode
  BY <1>1 DEF LookFields
<1> HIDE DEF l
<1>5. /\ DOMAIN look' = LookFields /\ look'.pc = pc /\ look'.flow = look.flow /\ look'.uid = look.uid
      /\ look'.sender = look.sender /\ look'.rows = look.rows /\ look'.udp = look.udp
      /\ look'.info = look.info /\ look'.result = inode
  BY <1>1, <1>4, LookMoves
<1>6. LookTypes'
  BY <1>1, <1>3, <1>5 DEF SockInv, LookTypes
<1>7. SenderOpen'
  BY <1>1, <1>5 DEF SockInv, SenderOpen, CouldSend, TcpExact
<1>8. Gathered'
  BY <1>1, <1>2, <1>5 DEF SockInv, Gathered, NamesSender
<1> QED
  BY <1>1, <1>6, <1>7, <1>8, DiagQuiet DEF SockInv

\* A socket that closes is no sender any more; one that opens changes no lookup.
LEMMA SockChangesKeep ==
  ASSUME SockInv, NEW s \in SockSet, SockOpens(s) \/ SockCloses(s)
  PROVE  SockInv'
<1>1. CASE SockOpens(s)
  <2>1. up' = up \cup {s} /\ UNCHANGED <<look, diag>>
    BY <1>1 DEF SockOpens
  <2> QED
    BY <2>1 DEF SockInv, LookTypes, SenderOpen, CouldSend, UdpCompatible, TcpExact, Gathered, NamesSender,
                OneRequest, AnswersThis
<1>2. CASE SockCloses(s) /\ look.sender = s.inode
  <2>1. up' = up \ {s} /\ UNCHANGED diag /\ look' = [look EXCEPT !.sender = NoInode]
    BY <1>2 DEF SockCloses
  <2>2. DOMAIN look = LookFields
    BY DEF SockInv, LookTypes
  <2>3. /\ DOMAIN look' = LookFields /\ look'.pc = look.pc /\ look'.flow = look.flow /\ look'.uid = look.uid
        /\ look'.sender = NoInode /\ look'.rows = look.rows /\ look'.udp = look.udp
        /\ look'.info = look.info /\ look'.result = look.result
    BY <2>1, <2>2 DEF LookFields
  <2>4. LookTypes'
    BY <2>1, <2>3 DEF SockInv, LookTypes
  <2>5. SenderOpen'
    BY <2>3 DEF SenderOpen
  <2>6. Gathered'
    BY <2>3 DEF SockInv, Gathered, NamesSender
  <2>7. OneRequest'
    BY <2>1, <2>3 DEF SockInv, OneRequest, AnswersThis, NamesSender
  <2> QED
    BY <2>4, <2>5, <2>6, <2>7 DEF SockInv
<1>3. CASE SockCloses(s) /\ look.sender # s.inode
  <2>1. up' = up \ {s} /\ UNCHANGED <<diag, look>>
    BY <1>3 DEF SockCloses
  <2>2. SenderOpen'
    BY <1>3, <2>1 DEF SockInv, SenderOpen, CouldSend, UdpCompatible, TcpExact
  <2> QED
    BY <2>1, <2>2 DEF SockInv, LookTypes, Gathered, NamesSender, OneRequest, AnswersThis
<1> QED
  BY <1>1, <1>2, <1>3

LEMMA LookupEndsKeeps == SockInv /\ LookupEnds => SockInv'
<1> SUFFICES ASSUME SockInv, LookupEnds PROVE SockInv'
  OBVIOUS
<1>1. look.pc = "done" /\ look' = NoLook /\ UNCHANGED <<up, diag>>
  BY DEF LookupEnds
<1>2. LookTypes' /\ SenderOpen' /\ Gathered'
  BY <1>1 DEF SockInv, LookTypes, LookFields, SenderOpen, Gathered, NamesSender, NoLook
<1> QED
  BY <1>1, <1>2, DiagQuiet DEF SockInv

LEMMA SockKept == SockInv /\ [SockNext]_sockVars => SockInv'
<1> SUFFICES ASSUME SockInv, [SockNext]_sockVars PROVE SockInv'
  OBVIOUS
<1>1. CASE \E f \in FlowSet, s \in up : LookupBegin(f, s)
  BY <1>1, LookupBeginKeeps
<1>2. CASE \E i \in 1..2 : ReadUdpTable(i) \/ \E ok \in BOOLEAN : ReadTcpTable(i, ok)
  BY <1>2, UdpReadKeeps, TcpReadKeeps
<1>3. CASE BudgetExpires \/ DiagSend \/ DiagSendFails \/ KernelAnswers \/ DiagRecv \/ DiagTimesOut
  BY <1>3, BudgetKeeps, DiagSendKeeps, DiagSendFailsKeeps, KernelAnswersKeeps, DiagRecvKeeps, DiagTimesOutKeeps
<1>4. CASE AcceptInfo \/ LookupEnds
  BY <1>4, AcceptKeeps, LookupEndsKeeps
<1>5. CASE \E s \in SockSet : SockOpens(s) \/ SockCloses(s)
  BY <1>5, SockChangesKeep
<1>6. CASE UNCHANGED sockVars
  BY <1>6 DEF sockVars, SockInv, LookTypes, SenderOpen, CouldSend, UdpCompatible, TcpExact, Gathered,
              NamesSender, OneRequest, AnswersThis
<1> QED
  BY <1>1, <1>2, <1>3, <1>4, <1>5, <1>6 DEF SockNext

\* While the socket that sent the packet stays open, the lookup names it or nothing,
\* and an answer that came too late is never taken for the one to the request just
\* made, whatever the counter has wrapped to (socket_owner, sock_diag::ask).
THEOREM NotMisattributedHolds == SockInit /\ [][SockNext]_sockVars => []NotMisattributed
<1>1. SockInv => NotMisattributed
  BY DEF SockInv, Gathered, NamesSender, NotMisattributed
<1> QED
  BY <1>1, SockStarts, SockKept, PTL

-----------------------------------------------------------------------------
(* The identity published for a socket *)

USE ResolveAssumption DEF Dead, StartTime, Alive, NoRecord, NoImage, worldVars, cacheVars, ghostVars

-----------------------------------------------------------------------------
(* The invariant *)

Files == HostFiles \cup {Foreign}
Live == [born : Nat \ {0}, image : Files, kind : {"plain", "unshared", "through"},
         uid : UidSet \cup {1, 2}, holds : BOOLEAN]
ExecEvents == [pid : PidSet, uid : UidSet \cup {1}, born : Nat \ {0}]
ExecRecords == [uid : UidSet \cup {1}, start : Nat, of : Nat \ {0}]
Digests == [key : Files \X Nat, value : Nat]
ResLookFields == {"pc", "pid", "cached", "start", "kern", "uid", "image", "unlinked", "digest", "cacheable"}

\* Start times are given in order, and a file's change time never runs ahead.
WorldTypes ==
  /\ births \in Nat /\ tick \in Nat
  /\ DOMAIN proc = PidSet /\ DOMAIN ktab = PidSet
  /\ \A p \in PidSet : proc[p] = Dead \/ (proc[p] \in Live /\ proc[p].born <= births)
  /\ \A p \in PidSet : ktab[p] = NoRecord \/ ktab[p] \in ExecRecords
  /\ file \in [Files -> [content : Nat, ctime : Nat]] /\ \A f \in Files : file[f].ctime <= tick
  /\ hostAt \in HostFiles \cup {NoFile} /\ (hostAt = NoFile => hostGone)
  /\ events \in Seq(ExecEvents)

Found == {"fd", "again", "owner", "open", "link", "creds", "finish", "hash", "read", "hashed",
          "recheck", "filter", "holds", "last", "published"}
Opened == {"link", "finish", "hash", "read", "hashed", "recheck"}
Filtered == {"holds", "last", "published"}

ResLookTypes ==
  /\ DOMAIN res = ResLookFields /\ res.pc \in {"idle", "probe"} \cup Found
  /\ res.pc \in Found => res.pid \in PidSet /\ res.start \in 1..births
  /\ res.pc \in Opened \cup {"creds", "filter"} \cup Filtered =>
       \/ res.image = NoImage /\ res.pc \notin Opened
       \/ DOMAIN res.image = {"file", "key", "path"} /\ res.image.file \in Files

\* Every image that ran since the resolution began is noted; and the image in hand
\* was one of the process found, or of one that has taken its pid from it.
ImagesNoted == res.pc # "idle" => \A p \in PidSet : Alive(p) => <<p, proc[p].born, proc[p].image>> \in ran
StillItself == StartTime(res.pid) = res.start
InHand == res.pc \in Opened \cup {"creds", "filter"} \cup Filtered /\ res.image # NoImage
ImageOfHolder ==
  InHand /\ (StillItself \/ res.pc \in Filtered) => <<res.pid, res.start, res.image.file>> \in ran

\* A file of another mount is in hand under a path of its own, or under none left;
\* it counts as unlinked only for a process in namespaces of its own, and not at
\* all once those were looked at.
PathOfAnother ==
  InHand /\ res.image.file = Foreign =>
    /\ res.pc \in {"hash", "read", "hashed", "recheck", "filter", "holds", "last", "published"} =>
         res.image.path # "path" \/ hostGone
    /\ res.pc \in {"hash", "read", "hashed", "recheck"} /\ res.unlinked /\ StillItself =>
         proc[res.pid].kind = "unshared"
    /\ res.pc = "filter" /\ res.unlinked => ~StillItself
    /\ res.pc \in {"holds", "last"} => ~res.unlinked

\* What is cached, or will be, was read under a change time that is over.
DigestRight(key, value) ==
  key[2] < tick /\ (file[key[1]].ctime = key[2] => value = file[key[1]].content)
CacheRight ==
  /\ shaCache \in Seq(Digests)
  /\ \A i \in 1..Len(shaCache) : DigestRight(shaCache[i].key, shaCache[i].value)
HashRight ==
  /\ res.pc \in {"read", "hashed"} =>
       /\ res.image.key \in Files \X Nat /\ res.image.key[1] = res.image.file
       /\ res.cacheable \in BOOLEAN
       /\ res.cacheable => res.image.key[2] < tick
  /\ res.pc = "hashed" =>
       \E v \in Nat : res.digest = <<v>> /\ (res.cacheable => DigestRight(res.image.key, v))

\* A record is used for the process it was read for, or was never verified.
RecordOfHolder ==
  res.pc \in {"open", "creds"} \cup Opened \cup {"filter"} \cup Filtered /\ res.kern # NoRecord =>
    res.kern \in ExecRecords /\ res.kern.start \in {0, res.start}

ResInv ==
  /\ WorldTypes /\ ResLookTypes /\ ImagesNoted /\ ImageOfHolder /\ PathOfAnother
  /\ CacheRight /\ HashRight /\ RecordOfHolder

-----------------------------------------------------------------------------
(* The surroundings *)

LEMMA ResolveStarts == ResolveInit => ResInv
<1> SUFFICES ASSUME ResolveInit PROVE ResInv
  OBVIOUS
<1>1. (CHOOSE f \in HostFiles : TRUE) \in HostFiles
  OBVIOUS
<1>2. DOMAIN res = ResLookFields /\ res.pc = "idle"
  BY DEF ResolveInit, Idle, ResLookFields
<1>3. events \in Seq(ExecEvents)
  <2>1. [pid |-> 1, uid |-> 1, born |-> 1] \in ExecEvents
    BY DEF ExecEvents
  <2> QED
    BY <2>1 DEF ResolveInit
<1>4. WorldTypes
  BY <1>1, <1>3 DEF ResolveInit, WorldTypes, Live, Files
<1>5. CacheRight
  BY DEF ResolveInit, CacheRight
<1> QED
  BY <1>2, <1>4, <1>5 DEF ResInv, ResLookTypes, ImagesNoted, ImageOfHolder, InHand, PathOfAnother, HashRight,
     RecordOfHolder, Found, Opened, Filtered

\* What may happen outside between two reads, as far as the invariant sees it.
SameHolder ==
  \A p \in PidSet, s \in 1..births :
    proc'[p].born = s => proc[p].born = s /\ proc'[p].kind = proc[p].kind
FilesMove ==
  /\ tick' >= tick
  /\ \A f \in Files : \/ file'[f] = file[f]
                      \/ file'[f].ctime = tick
Noted == \A p \in PidSet : Alive(p)' =>
  \/ <<p, proc'[p].born, proc'[p].image>> \in ran'
  \/ Alive(p) /\ proc'[p].born = proc[p].born /\ proc'[p].image = proc[p].image

LEMMA ResSurroundingsKeep ==
  ASSUME ResInv, WorldTypes', SameHolder, FilesMove, Noted, births' >= births,
         ran \subseteq ran', hostGone => hostGone', UNCHANGED <<res, shaCache>>
  PROVE  ResInv'
<1>1. ResLookTypes'
  BY DEF ResInv, WorldTypes, ResLookTypes
<1>2. ImagesNoted'
  BY DEF ResInv, ImagesNoted, Noted
<1>3. res.pc \in Found /\ StillItself' => StillItself /\ proc'[res.pid].kind = proc[res.pid].kind
  BY DEF ResInv, ResLookTypes, SameHolder, StillItself
<1>4. InHand' <=> InHand
  BY DEF InHand
<1>5. InHand => res.pc \in Found
  BY DEF InHand, Found, Opened, Filtered
<1>6. ImageOfHolder'
  BY <1>3, <1>4, <1>5 DEF ResInv, ImageOfHolder
<1>7. PathOfAnother'
  BY <1>3, <1>4, <1>5 DEF ResInv, PathOfAnother
<1>8. ASSUME NEW f \in Files, NEW t \in Nat, NEW v, DigestRight(<<f, t>>, v)
      PROVE  DigestRight(<<f, t>>, v)'
  <2>1. t < tick /\ (file[f].ctime = t => v = file[f].content)
    BY <1>8 DEF DigestRight
  <2>2. file'[f] = file[f] \/ file'[f].ctime = tick
    BY DEF FilesMove
  <2>3. t < tick'
    BY <2>1 DEF FilesMove, ResInv, WorldTypes
  <2>4. file'[f].ctime = t => v = file'[f].content
    BY <2>1, <2>2 DEF ResInv, WorldTypes
  <2> QED
    BY <2>3, <2>4 DEF DigestRight
<1>9. CacheRight'
  <2>1. ASSUME NEW i \in 1..Len(shaCache)
        PROVE  DigestRight(shaCache[i].key, shaCache[i].value)'
    <3>1. shaCache[i] \in Digests
      BY DEF ResInv, CacheRight
    <3>2. PICK f \in Files, t \in Nat : shaCache[i].key = <<f, t>>
      BY <3>1 DEF Digests
    <3>3. DigestRight(<<f, t>>, shaCache[i].value)
      BY <3>2 DEF ResInv, CacheRight
    <3>4. DigestRight(<<f, t>>, shaCache[i].value)'
      BY <1>8, <3>3
    <3> QED
      BY <3>2, <3>4
  <2> QED
    BY <2>1 DEF ResInv, CacheRight
<1>10. HashRight'
  <2>1. ASSUME res.pc \in {"read", "hashed"}
        PROVE  HashRight'
    <3>1. PICK f \in Files, t \in Nat : res.image.key = <<f, t>> /\ res.image.file = f
      BY <2>1 DEF ResInv, HashRight
    <3>2. tick' >= tick /\ tick \in Nat /\ tick' \in Nat
      BY DEF FilesMove, ResInv, WorldTypes
    <3>3. res.cacheable => t < tick'
      BY <2>1, <3>1, <3>2 DEF ResInv, HashRight
    <3>4. ASSUME res.pc = "hashed"
          PROVE  \E v \in Nat : res.digest = <<v>> /\ (res.cacheable => DigestRight(res.image.key, v)')
      <4>1. PICK v \in Nat : res.digest = <<v>> /\ (res.cacheable => DigestRight(res.image.key, v))
        BY <3>4 DEF ResInv, HashRight
      <4> QED
        BY <1>8, <3>1, <4>1
    <3> QED
      BY <2>1, <3>1, <3>3, <3>4 DEF ResInv, HashRight
  <2> QED
    BY <2>1 DEF HashRight
<1>11. RecordOfHolder'
  BY DEF ResInv, RecordOfHolder
<1> QED
  BY <1>1, <1>2, <1>6, <1>7, <1>9, <1>10, <1>11 DEF ResInv

LEMMA StartsAreOld == ASSUME WorldTypes, NEW p \in PidSet PROVE proc[p].born \in 0..births
BY DEF WorldTypes, Live

LEMMA ProcessChanges ==
  ASSUME ResInv, NEW p \in PidSet, NEW q, proc' = [proc EXCEPT ![p] = q],
         UNCHANGED <<file, hostAt, tick, ktab, res, shaCache, hostGone>>,
         births' \in Nat, births' >= births, events' \in Seq(ExecEvents),
         \/ q = Dead
         \/ q \in Live /\ q.born <= births' /\
              \/ q.born > births
              \/ Alive(p) /\ q.born = proc[p].born /\ q.kind = proc[p].kind,
         ran' = ran \/ ran' = ran \cup {<<p, q.born, q.image>>},
         q # Dead => ran' # ran \/ <<p, q.born, q.image>> \in ran'
  PROVE  ResInv'
<1>1. WorldTypes
  BY DEF ResInv
<1>2. proc'[p] = q /\ DOMAIN proc' = PidSet /\ \A r \in PidSet \ {p} : proc'[r] = proc[r]
  BY <1>1 DEF WorldTypes
<1>3. WorldTypes'
  <2>1. ASSUME NEW r \in PidSet
        PROVE  proc'[r] = Dead \/ (proc'[r] \in Live /\ proc'[r].born <= births')
    <3>1. proc[r] = Dead \/ (proc[r] \in Live /\ proc[r].born <= births)
      BY <1>1 DEF WorldTypes
    <3>2. \A n \in Nat : n <= births => n <= births'
      BY <1>1 DEF WorldTypes
    <3> QED
      BY <1>2, <3>1, <3>2 DEF Live
  <2> QED
    BY <1>1, <1>2, <2>1 DEF WorldTypes
<1>4. SameHolder
  <2>1. ASSUME NEW r \in PidSet, NEW s \in 1..births, proc'[r].born = s
        PROVE  proc[r].born = s /\ proc'[r].kind = proc[r].kind
    BY <1>1, <1>2, <2>1 DEF WorldTypes, Live
  <2> QED
    BY <2>1 DEF SameHolder
<1>5. Noted /\ ran \subseteq ran'
  BY <1>2 DEF Noted
<1>6. FilesMove
  BY <1>1 DEF FilesMove, WorldTypes
<1> QED
  BY <1>1, <1>3, <1>4, <1>5, <1>6, ResSurroundingsKeep

LEMMA FilesChange ==
  ASSUME ResInv, UNCHANGED <<proc, births, ktab, res, shaCache, ran>>, events' \in Seq(ExecEvents),
         file' \in [Files -> [content : Nat, ctime : Nat]], tick' \in {tick, tick + 1},
         \A f \in Files : file'[f] = file[f] \/ file'[f].ctime = tick,
         hostAt' \in HostFiles \cup {NoFile}, hostAt' = NoFile => hostGone', hostGone => hostGone'
  PROVE  ResInv'
<1>1. WorldTypes
  BY DEF ResInv
<1>2. FilesMove
  BY <1>1 DEF FilesMove, WorldTypes
<1>3. WorldTypes'
  <2>1. ASSUME NEW f \in Files
        PROVE  file'[f].ctime <= tick'
    <3>1. file[f].ctime \in Nat /\ file[f].ctime <= tick /\ tick \in Nat
      BY <1>1 DEF WorldTypes
    <3>2. file'[f] = file[f] \/ file'[f].ctime = tick
      OBVIOUS
    <3> QED
      BY <3>1, <3>2
  <2>2. \A p \in PidSet : ktab'[p] = ktab[p] /\ proc'[p] = proc[p]
    OBVIOUS
  <2> QED
    BY <1>1, <2>1, <2>2 DEF WorldTypes
<1>4. SameHolder /\ Noted
  BY <1>1 DEF SameHolder, Noted
<1> QED
  BY <1>1, <1>2, <1>3, <1>4, ResSurroundingsKeep DEF WorldTypes

LEMMA WorldKeeps ==
  ASSUME ResInv,
         \/ \E p \in PidSet : \/ Exits(p) \/ \E q \in PidSet : Fork(q, p)
                              \/ \E f \in Files, keep \in BOOLEAN, u \in UidSet : Exec(p, f, keep, u)
         \/ \E f \in Files : Writes(f)
         \/ \E f \in HostFiles \cup {NoFile} : HostPathChanges(f)
         \/ ForeignUnlinked \/ Tick
  PROVE  ResInv'
<1>1. WorldTypes /\ births \in Nat /\ tick \in Nat
  BY DEF ResInv, WorldTypes
<1>2. ASSUME NEW p \in PidSet, Exits(p)
      PROVE  ResInv'
  <2>1. proc' = [proc EXCEPT ![p] = Dead]
        /\ UNCHANGED <<births, file, hostAt, tick, ktab, res, shaCache, hostGone, ran, events>>
    BY <1>2 DEF Exits
  <2>2. events' \in Seq(ExecEvents) /\ births' \in Nat /\ births' >= births
    BY <1>1, <2>1 DEF WorldTypes
  <2> QED
    BY <2>1, <2>2, ProcessChanges
<1>3. ASSUME NEW p \in PidSet, NEW q \in PidSet, Fork(q, p)
      PROVE  ResInv'
  <2>1. PICK r : r = [proc[q] EXCEPT !.born = births + 1]
    OBVIOUS
  <2>2. proc[q] \in Live
    BY <1>1, <1>3 DEF Fork, WorldTypes
  <2>3. r \in Live /\ r.born = births + 1
    BY <1>1, <2>1, <2>2 DEF Live
  <2>4. proc' = [proc EXCEPT ![p] = r] /\ births' = births + 1 /\ ran' = ran \cup {<<p, r.born, r.image>>}
    BY <1>3, <2>1 DEF Fork, Note
  <2>5. UNCHANGED <<file, hostAt, tick, ktab, res, shaCache, hostGone, events>>
    BY <1>3 DEF Fork
  <2>6. events' \in Seq(ExecEvents) /\ births' >= births /\ r.born <= births' /\ r.born > births /\ births' \in Nat
    BY <1>1, <2>3, <2>4, <2>5 DEF WorldTypes
  <2>7. <<p, r.born, r.image>> \in ran'
    BY <2>4
  <2> QED
    BY <2>3, <2>4, <2>5, <2>6, <2>7, ProcessChanges
<1>4. ASSUME NEW p \in PidSet, NEW f \in Files, NEW keep \in BOOLEAN, NEW u \in UidSet, Exec(p, f, keep, u)
      PROVE  ResInv'
  <2>1. PICK r : r = [born |-> proc[p].born, image |-> f, kind |-> proc[p].kind, uid |-> u,
                      holds |-> proc[p].holds /\ keep]
    OBVIOUS
  <2>2. proc[p] \in Live /\ proc[p].born <= births
    BY <1>1, <1>4 DEF Exec, WorldTypes
  <2>3. r \in Live /\ r.born = proc[p].born /\ r.kind = proc[p].kind
    BY <2>1, <2>2 DEF Live
  <2>4. proc' = [proc EXCEPT ![p] = r] /\ ran' = ran \cup {<<p, r.born, r.image>>}
        /\ events' = Append(events, [pid |-> p, uid |-> u, born |-> proc[p].born])
    BY <1>4, <2>1 DEF Exec, Note
  <2>5. UNCHANGED <<births, file, hostAt, tick, ktab, res, shaCache, hostGone>> /\ Alive(p)
    BY <1>4 DEF Exec
  <2>6. [pid |-> p, uid |-> u, born |-> proc[p].born] \in ExecEvents
    BY <2>2 DEF Live, ExecEvents
  <2>7. events' \in Seq(ExecEvents)
    BY <1>1, <2>4, <2>6 DEF WorldTypes
  <2>8. <<p, r.born, r.image>> \in ran' /\ births' \in Nat /\ births' >= births /\ r.born <= births'
    BY <1>1, <2>2, <2>3, <2>4, <2>5
  <2> QED
    BY <2>3, <2>4, <2>5, <2>7, <2>8, ProcessChanges
<1>5. ASSUME NEW f \in Files, Writes(f)
      PROVE  ResInv'
  <2>1. file' = [file EXCEPT ![f] = [content |-> file[f].content + 1, ctime |-> tick]]
        /\ UNCHANGED <<proc, births, ktab, res, shaCache, ran, events, tick, hostAt, hostGone>>
    BY <1>5, <1>1 DEF Writes, WorldTypes
  <2> QED
    BY <1>1, <2>1, FilesChange DEF WorldTypes
<1>6. ASSUME NEW f \in HostFiles \cup {NoFile}, HostPathChanges(f)
      PROVE  ResInv'
  <2>1. file' = [g \in DOMAIN file |-> IF g \in {f, hostAt} THEN [file[g] EXCEPT !.ctime = tick] ELSE file[g]]
        /\ UNCHANGED <<proc, births, ktab, res, shaCache, ran, events, tick>>
        /\ hostAt' = f /\ hostGone' = (hostGone \/ f = NoFile)
    BY <1>6 DEF HostPathChanges
  <2>2. file' \in [Files -> [content : Nat, ctime : Nat]]
    BY <1>1, <2>1 DEF WorldTypes
  <2>3. \A g \in Files : file'[g] = file[g] \/ file'[g].ctime = tick
    BY <1>1, <2>1 DEF WorldTypes
  <2>4. (hostGone => hostGone') /\ (hostAt' = NoFile => hostGone') /\ hostAt' \in HostFiles \cup {NoFile}
    BY <1>6, <2>1
  <2>5. events' \in Seq(ExecEvents) /\ tick' \in {tick, tick + 1}
    BY <1>1, <2>1 DEF WorldTypes
  <2> QED
    BY <2>1, <2>2, <2>3, <2>4, <2>5, FilesChange
<1>7. CASE ForeignUnlinked
  <2>1. file' = [file EXCEPT ![Foreign].ctime = tick]
        /\ UNCHANGED <<proc, births, ktab, res, shaCache, ran, events, tick, hostAt, hostGone>>
    BY <1>7 DEF ForeignUnlinked
  <2>2. Foreign \in Files
    BY DEF Files
  <2> QED
    BY <1>1, <2>1, <2>2, FilesChange DEF WorldTypes
<1>8. CASE Tick
  <2>1. tick' = tick + 1 /\ UNCHANGED <<proc, births, file, hostAt, ktab, res, shaCache, ran, events, hostGone>>
    BY <1>8 DEF Tick
  <2> QED
    BY <1>1, <2>1, FilesChange DEF WorldTypes
<1> QED
  BY <1>2, <1>3, <1>4, <1>5, <1>6, <1>7, <1>8

-----------------------------------------------------------------------------
(* The search for the holder, and the reads *)

LEMMA StageNames ==
  /\ Found \cap {"idle", "probe"} = {}
  /\ Opened \subseteq Found /\ Filtered \subseteq Found /\ Opened \cap Filtered = {}
  /\ "creds" \in Found \ (Opened \cup Filtered) /\ "filter" \in Found \ (Opened \cup Filtered)
BY DEF Found, Opened, Filtered

\* A step of the resolution that leaves its surroundings and the digests alone.
LEMMA LookStep ==
  ASSUME ResInv, UNCHANGED <<worldVars, ghostVars, shaCache>>, DOMAIN ktab' = PidSet,
         \A p \in PidSet : ktab'[p] = NoRecord \/ ktab'[p] \in ExecRecords,
         res.pc # "idle" \/ res'.pc = "idle",
         ResLookTypes', ImageOfHolder', PathOfAnother', HashRight', RecordOfHolder'
  PROVE  ResInv'
<1>1. WorldTypes'
  BY DEF ResInv, WorldTypes
<1>2. ImagesNoted'
  BY DEF ResInv, ImagesNoted
<1>3. CacheRight'
  BY DEF ResInv, CacheRight, DigestRight
<1> QED
  BY <1>1, <1>2, <1>3 DEF ResInv

LEMMA ThenIdle ==
  ASSUME ResInv, UNCHANGED <<worldVars, ghostVars, shaCache, ktab>>, res' = Idle
  PROVE  ResInv'
<1>1. DOMAIN res' = ResLookFields /\ res'.pc = "idle"
  BY DEF Idle, ResLookFields
<1>2. ResLookTypes' /\ ImageOfHolder' /\ PathOfAnother' /\ HashRight' /\ RecordOfHolder'
  BY <1>1 DEF ResLookTypes, ImageOfHolder, PathOfAnother, HashRight, RecordOfHolder, InHand, Found, Opened, Filtered
<1> QED
  BY <1>1, <1>2, LookStep DEF ResInv, WorldTypes

\* Until the image is opened only the pid and its start time matter.
LEMMA BeforeOpen ==
  ASSUME ResInv, UNCHANGED <<worldVars, ghostVars, shaCache, ktab>>, res.pc # "idle",
         DOMAIN res' = ResLookFields, res'.pc \in {"probe", "fd", "again", "owner"},
         res'.pc # "probe" => res'.pid \in PidSet /\ res'.start \in 1..births
  PROVE  ResInv'
<1>1. ResLookTypes' /\ ImageOfHolder' /\ PathOfAnother' /\ HashRight' /\ RecordOfHolder'
  BY DEF ResLookTypes, ImageOfHolder, PathOfAnother, HashRight, RecordOfHolder, InHand, Found, Opened, Filtered
<1> QED
  BY <1>1, LookStep DEF ResInv, WorldTypes

LEMMA SearchKeeps ==
  ASSUME ResInv, (\E p \in PidSet : Probe(p)) \/ ProbeFd \/ ProbeAgain \/ NoOwner
  PROVE  ResInv'
<1>1. WorldTypes /\ ResLookTypes /\ DOMAIN res = ResLookFields /\ births \in Nat
  BY DEF ResInv, ResLookTypes, WorldTypes
<1>2. ASSUME NEW p \in PidSet, Probe(p)
      PROVE  ResInv'
  <2>1. proc[p].born \in 1..births
    <3>1. proc[p] \in Live /\ proc[p].born <= births
      BY <1>1, <1>2 DEF Probe, WorldTypes
    <3> QED
      BY <1>1, <3>1 DEF Live
  <2>2. DOMAIN res' = ResLookFields /\ res'.pc = "fd" /\ res'.pid = p /\ res'.start = proc[p].born
    BY <1>1, <1>2 DEF Probe, ResLookFields
  <2>3. UNCHANGED <<worldVars, ghostVars, shaCache, ktab>> /\ res.pc # "idle"
    BY <1>2 DEF Probe, Worker
  <2> QED
    BY <2>1, <2>2, <2>3, BeforeOpen
<1>3. CASE ProbeFd \/ ProbeAgain
  <2>1. PICK pc \in {"again", "probe", "owner"} : res' = [res EXCEPT !.pc = pc]
    BY <1>3 DEF ProbeFd, ProbeAgain, To
  <2>2. res.pc \in {"fd", "again"} /\ UNCHANGED <<worldVars, ghostVars, shaCache, ktab>>
    BY <1>3 DEF ProbeFd, ProbeAgain, Worker
  <2>3. DOMAIN res' = ResLookFields /\ res'.pc = pc /\ res'.pid = res.pid /\ res'.start = res.start
    BY <1>1, <2>1 DEF ResLookFields
  <2>4. res.pid \in PidSet /\ res.start \in 1..births
    BY <1>1, <2>2 DEF ResLookTypes, Found
  <2> QED
    BY <2>1, <2>2, <2>3, <2>4, BeforeOpen
<1>4. CASE NoOwner
  BY <1>4, ThenIdle DEF NoOwner, Worker
<1> QED
  BY <1>2, <1>3, <1>4

LEMMA BeginKeeps == ASSUME ResInv, ResolveBegins PROVE ResInv'
<1>1. WorldTypes /\ DOMAIN res = ResLookFields
  BY DEF ResInv, ResLookTypes
<1>2. DOMAIN res' = ResLookFields /\ res'.pc = "probe" /\ UNCHANGED <<worldVars, cacheVars>>
  BY <1>1 DEF ResolveBegins, To, ResLookFields
<1>3. ran' = {<<p, proc[p].born, proc[p].image>> : p \in {q \in PidSet : Alive(q)}} /\ hostGone' = (hostAt = NoFile)
  BY DEF ResolveBegins
<1>4. WorldTypes'
  BY <1>1, <1>2, <1>3 DEF WorldTypes
<1>5. ImagesNoted'
  BY <1>2, <1>3 DEF ImagesNoted
<1>6. ResLookTypes' /\ ImageOfHolder' /\ PathOfAnother' /\ HashRight' /\ RecordOfHolder'
  BY <1>2 DEF ResLookTypes, ImageOfHolder, PathOfAnother, HashRight, RecordOfHolder, InHand, Found, Opened, Filtered
<1>7. CacheRight'
  BY <1>2 DEF ResInv, CacheRight, DigestRight
<1> QED
  BY <1>4, <1>5, <1>6, <1>7 DEF ResInv

\* The exec events and the table they fill.
LEMMA TableKeeps == ASSUME ResInv, ObserveExec \/ \E p \in PidSet : RecordLeaves(p) PROVE ResInv'
<1>1. WorldTypes
  BY DEF ResInv
<1>2. ASSUME NEW p \in PidSet, RecordLeaves(p)
      PROVE  WorldTypes' /\ UNCHANGED <<worldVars, ghostVars, shaCache, res>>
  BY <1>1, <1>2 DEF RecordLeaves, WorldTypes
<1>3. ASSUME ObserveExec
      PROVE  WorldTypes' /\ UNCHANGED <<proc, births, file, hostAt, tick, ghostVars, shaCache, res>>
  <2>1. PICK e : e = Head(events)
    OBVIOUS
  <2>2. e \in ExecEvents /\ events' \in Seq(ExecEvents)
    BY <1>1, <1>3, <2>1, HeadTailProperties DEF ObserveExec, WorldTypes
  <2>3. proc[e.pid].born \in Nat
    BY <1>1, <2>2, StartsAreOld DEF ExecEvents, WorldTypes
  <2>4. [uid |-> e.uid, start |-> proc[e.pid].born, of |-> e.born] \in ExecRecords
    BY <2>2, <2>3 DEF ExecEvents, ExecRecords
  <2>5. ktab' = [ktab EXCEPT ![e.pid] = [uid |-> e.uid, start |-> proc[e.pid].born, of |-> e.born]]
    BY <1>3, <2>1 DEF ObserveExec
  <2>6. UNCHANGED <<proc, births, file, hostAt, tick, ghostVars, shaCache, res>>
    BY <1>3 DEF ObserveExec
  <2> QED
    BY <1>1, <2>2, <2>4, <2>5, <2>6 DEF WorldTypes, ExecEvents
<1>4. WorldTypes' /\ UNCHANGED <<proc, births, file, hostAt, tick, ghostVars, shaCache, res>>
  BY <1>2, <1>3
<1>5. SameHolder /\ FilesMove /\ Noted
  BY <1>1, <1>4 DEF SameHolder, FilesMove, Noted, WorldTypes
<1> QED
  BY <1>1, <1>4, <1>5, ResSurroundingsKeep DEF WorldTypes

LEMMA LookFacts ==
  ASSUME ResInv
  PROVE  /\ WorldTypes /\ DOMAIN res = ResLookFields /\ DOMAIN ktab = PidSet
         /\ \A p \in PidSet : ktab[p] = NoRecord \/ ktab[p] \in ExecRecords
         /\ res.pc \in Found => res.pid \in PidSet /\ res.start \in 1..births
         /\ res.pc \in Opened => DOMAIN res.image = {"file", "key", "path"} /\ res.image.file \in Files
                                 /\ res.image # NoImage
BY DEF ResInv, WorldTypes, ResLookTypes, Files

LEMMA StartKeeps == ASSUME ResInv, ResolveStart PROVE ResInv'
<1>1. PICK got : got = TableGet(ktab[res.pid], res.start)
  OBVIOUS
<1>2. CASE res' = Idle /\ UNCHANGED ktab
  BY <1>2, ThenIdle DEF ResolveStart, Worker
<1>3. CASE res' = [res EXCEPT !.pc = "open", !.kern = got.found] /\ ktab' = [ktab EXCEPT ![res.pid] = got.left]
  <2>1. res.pc = "owner" /\ UNCHANGED <<worldVars, ghostVars, shaCache>>
    BY DEF ResolveStart, Worker
  <2>2. res.pid \in PidSet /\ res.start \in 1..births /\ births \in Nat
    BY <2>1, LookFacts DEF Found, WorldTypes
  <2>3. got.found = NoRecord \/ (got.found \in ExecRecords /\ got.found.start \in {0, res.start})
    BY <1>1, <2>2, LookFacts DEF TableGet, ExecRecords
  <2>4. got.left = NoRecord \/ got.left \in ExecRecords
    <3>1. CASE ktab[res.pid] = NoRecord
      BY <1>1, <3>1 DEF TableGet
    <3>2. CASE ktab[res.pid] \in ExecRecords
      BY <1>1, <2>2, <3>2 DEF TableGet, ExecRecords
    <3> QED
      BY <2>2, <3>1, <3>2, LookFacts
  <2>5. /\ DOMAIN res' = ResLookFields /\ res'.pc = "open" /\ res'.kern = got.found
        /\ res'.pid = res.pid /\ res'.start = res.start
    BY <1>3, LookFacts DEF ResLookFields
  <2>6. DOMAIN ktab' = PidSet /\ \A p \in PidSet : ktab'[p] = NoRecord \/ ktab'[p] \in ExecRecords
    BY <1>3, <2>2, <2>4, LookFacts
  <2>7. ResLookTypes' /\ ImageOfHolder' /\ PathOfAnother' /\ HashRight' /\ RecordOfHolder'
    BY <2>1, <2>2, <2>3, <2>5 DEF ResLookTypes, ImageOfHolder, PathOfAnother, HashRight, RecordOfHolder, InHand,
       Found, Opened, Filtered
  <2> QED
    BY <2>1, <2>6, <2>7, LookStep
<1> QED
  BY <1>1, <1>2, <1>3 DEF ResolveStart

\* The rest of the resolution keeps the pid, the start time and the record.
SameLook ==
  /\ UNCHANGED <<worldVars, ghostVars, shaCache, ktab>> /\ DOMAIN res' = ResLookFields
  /\ res'.pid = res.pid /\ res'.start = res.start /\ res'.kern = res.kern

LEMMA SameLookStep ==
  ASSUME ResInv, SameLook, res.pc \in Found \ {"fd", "again", "owner"},
         res'.pc \in Found \ {"fd", "again", "owner", "open"},
         \/ res'.image = NoImage /\ res'.pc \notin Opened
         \/ DOMAIN res'.image = {"file", "key", "path"} /\ res'.image.file \in Files,
         ImageOfHolder', PathOfAnother', HashRight'
  PROVE  ResInv'
<1>1. ResLookTypes'
  BY LookFacts DEF ResLookTypes, SameLook
<1>2. RecordOfHolder'
  BY DEF RecordOfHolder, SameLook, ResInv, Found, Opened, Filtered
<1> QED
  BY <1>1, <1>2, LookStep, LookFacts DEF SameLook, Found

\* Without an image nothing is left to get wrong.
LEMMA NoImageInHand ==
  ASSUME ResInv, SameLook, res.pc \in Found \ {"fd", "again", "owner"},
         res'.pc \in {"creds", "filter"} \cup Filtered, res'.image = NoImage
  PROVE  ResInv'
<1>1. ~InHand'
  BY DEF InHand
<1>2. HashRight'
  BY DEF HashRight, Filtered
<1> QED
  BY <1>1, <1>2, SameLookStep, StageNames DEF ImageOfHolder, PathOfAnother, Found, Opened, Filtered

LEMMA Unknowns ==
  ASSUME NEW pc, DOMAIN res = ResLookFields, res' = [Unknown EXCEPT !.pc = pc]
  PROVE  /\ DOMAIN res' = ResLookFields /\ res'.pc = pc /\ res'.image = NoImage
         /\ res'.pid = res.pid /\ res'.start = res.start /\ res'.kern = res.kern
<1>1. PICK r : r = Unknown
  OBVIOUS
<1>2. /\ DOMAIN r = ResLookFields /\ r.image = NoImage
      /\ r.pid = res.pid /\ r.start = res.start /\ r.kern = res.kern
  BY <1>1 DEF Unknown, ResLookFields
<1>3. res' = [r EXCEPT !.pc = pc]
  BY <1>1
<1> QED
  BY <1>2, <1>3 DEF ResLookFields

LEMMA OpenKeeps == ASSUME ResInv, ImageOpen PROVE ResInv'
<1>1. res.pc = "open" /\ UNCHANGED <<worldVars, ghostVars, shaCache, ktab>> /\ DOMAIN res = ResLookFields
      /\ res.pid \in PidSet
  BY LookFacts DEF ImageOpen, Worker, Found
<1>2. CASE res' = [Unknown EXCEPT !.pc = "creds"]
  BY <1>1, <1>2, Unknowns, NoImageInHand DEF SameLook, Found
<1>3. ASSUME Alive(res.pid),
             res' = [res EXCEPT !.pc = "link", !.image = [file |-> proc[res.pid].image,
                       key |-> ImageKey(proc[res.pid].image), path |-> "unknown"]]
      PROVE  ResInv'
  <2>1. proc[res.pid].image \in Files
    <3>1. proc[res.pid] \in Live
      BY <1>1, <1>3, LookFacts DEF WorldTypes
    <3> QED
      BY <3>1 DEF Live
  <2>2. /\ SameLook /\ res'.pc = "link" /\ res'.image.file = proc[res.pid].image
        /\ DOMAIN res'.image = {"file", "key", "path"}
    BY <1>1, <1>3 DEF SameLook, ResLookFields
  <2>3. <<res.pid, proc[res.pid].born, proc[res.pid].image>> \in ran
    BY <1>1, <1>3 DEF ResInv, ImagesNoted
  <2>4. ImageOfHolder'
    BY <1>1, <2>2, <2>3 DEF ImageOfHolder, StillItself, SameLook, Filtered
  <2>5. PathOfAnother' /\ HashRight'
    BY <2>2 DEF PathOfAnother, HashRight
  <2> QED
    BY <1>1, <2>1, <2>2, <2>4, <2>5, SameLookStep DEF Found
<1> QED
  BY <1>2, <1>3 DEF ImageOpen

LEMMA LinkKeeps == ASSUME ResInv, ImageLink PROVE ResInv'
<1>1. res.pc = "link" /\ UNCHANGED <<worldVars, ghostVars, shaCache, ktab>> /\ DOMAIN res = ResLookFields
  BY LookFacts DEF ImageLink, Worker
<1>2. CASE res' = [Unknown EXCEPT !.pc = "creds"]
  BY <1>1, <1>2, Unknowns, NoImageInHand DEF SameLook, Found
<1>3. CASE res' = [res EXCEPT !.pc = "creds", !.image.path = LinkPath(proc[res.pid].image)]
  <2>1. DOMAIN res.image = {"file", "key", "path"} /\ res.image.file \in Files /\ res.image # NoImage
    BY <1>1, LookFacts DEF Opened
  <2>2. /\ SameLook /\ res'.pc = "creds" /\ res'.image.file = res.image.file
        /\ DOMAIN res'.image = {"file", "key", "path"}
    BY <1>1, <1>3, <2>1 DEF SameLook, ResLookFields
  <2>3. ImageOfHolder'
    BY <1>1, <2>1, <2>2 DEF ResInv, ImageOfHolder, InHand, StillItself, SameLook, Opened, Filtered
  <2>4. PathOfAnother' /\ HashRight'
    BY <2>2 DEF PathOfAnother, HashRight
  <2> QED
    BY <1>1, <2>1, <2>2, <2>3, <2>4, SameLookStep DEF Found
<1> QED
  BY <1>2, <1>3 DEF ImageLink

LEMMA CredentialsKeep == ASSUME ResInv, Credentials PROVE ResInv'
<1>1. res.pc = "creds" /\ UNCHANGED <<worldVars, ghostVars, shaCache, ktab>> /\ DOMAIN res = ResLookFields
  BY LookFacts DEF Credentials, Worker
<1>2. SameLook /\ res'.image = res.image /\ res'.pc = (IF res.image = NoImage THEN "filter" ELSE "finish")
  BY <1>1 DEF Credentials, SameLook, ResLookFields
<1>3. res.image = NoImage \/ (DOMAIN res.image = {"file", "key", "path"} /\ res.image.file \in Files)
  BY <1>1 DEF ResInv, ResLookTypes
<1>4. CASE res.image = NoImage
  BY <1>1, <1>2, <1>4, NoImageInHand DEF Found
<1>5. CASE res.image # NoImage
  <2>1. ImageOfHolder'
    BY <1>1, <1>2, <1>5 DEF ResInv, ImageOfHolder, InHand, StillItself, SameLook, Opened, Filtered
  <2>2. PathOfAnother' /\ HashRight'
    BY <1>2, <1>5 DEF PathOfAnother, HashRight
  <2> QED
    BY <1>1, <1>2, <1>3, <1>5, <2>1, <2>2, SameLookStep DEF Found
<1> QED
  BY <1>4, <1>5

LEMMA ChecksKeep == ASSUME ResInv, FinishChecks PROVE ResInv'
<1>1. res.pc = "finish" /\ UNCHANGED <<worldVars, ghostVars, shaCache, ktab>> /\ DOMAIN res = ResLookFields
  BY LookFacts DEF FinishChecks, Worker
<1>2. CASE res' = [Unknown EXCEPT !.pc = "filter"]
  BY <1>1, <1>2, Unknowns, NoImageInHand DEF SameLook, Found
<1>3. ASSUME PathNamesImage(res.image.path, res.image.file),
             res' = [res EXCEPT !.pc = "hash", !.unlinked = ~Linked(res.image.file) /\ MountedIn(res.image.file, res.pid)]
      PROVE  ResInv'
  <2>1. DOMAIN res.image = {"file", "key", "path"} /\ res.image.file \in Files /\ res.image # NoImage
    BY <1>1, LookFacts DEF Opened
  <2>2. SameLook /\ res'.pc = "hash" /\ res'.image = res.image
    BY <1>1, <1>3 DEF SameLook, ResLookFields
  <2>3. res'.unlinked => MountedIn(res.image.file, res.pid)
    BY <1>1, <1>3 DEF ResLookFields
  <2>4. res.image.file = Foreign => res.image.path # "path" \/ hostGone
    BY <1>3, LookFacts DEF PathNamesImage, WorldTypes
  <2>5. PathOfAnother'
    BY <1>1, <2>2, <2>3, <2>4 DEF PathOfAnother, SameLook, MountedIn, Filtered
  <2>6. ImageOfHolder'
    BY <1>1, <2>1, <2>2 DEF ResInv, ImageOfHolder, InHand, StillItself, SameLook, Opened, Filtered
  <2>7. HashRight'
    BY <2>2 DEF HashRight
  <2> QED
    BY <1>1, <2>1, <2>2, <2>5, <2>6, <2>7, SameLookStep DEF Found
<1> QED
  BY <1>2, <1>3 DEF FinishChecks

\* What hashing keeps: the file in hand, its path and whether it is unlinked.
SameImage == res'.image.file = res.image.file /\ res'.image.path = res.image.path /\ res'.unlinked = res.unlinked

LEMMA HashStep ==
  ASSUME ResInv, SameLook, SameImage, DOMAIN res'.image = {"file", "key", "path"},
         res.pc \in {"hash", "read", "hashed"}, res'.pc \in {"read", "hashed", "recheck"}, HashRight'
  PROVE  ResInv'
<1>1. res.image # NoImage /\ res.image.file \in Files
  BY LookFacts DEF Opened
<1>2. ImageOfHolder'
  BY <1>1 DEF ResInv, ImageOfHolder, InHand, StillItself, SameLook, SameImage, Opened, Filtered
<1>3. PathOfAnother'
  BY <1>1 DEF ResInv, PathOfAnother, InHand, StillItself, SameLook, SameImage, Opened, Filtered
<1> QED
  BY <1>1, <1>2, <1>3, SameLookStep DEF SameImage, Found

LEMMA ReadKeeps == ASSUME ResInv, HashBegin \/ HashRead PROVE ResInv'
<1>1. res.pc \in {"hash", "read"} /\ UNCHANGED <<worldVars, ghostVars, shaCache, ktab>> /\ DOMAIN res = ResLookFields
  BY LookFacts DEF HashBegin, HashRead, Worker
<1>2. DOMAIN res.image = {"file", "key", "path"} /\ res.image.file \in Files
  BY <1>1, LookFacts DEF Opened
<1>3. file \in [Files -> [content : Nat, ctime : Nat]] /\ tick \in Nat
      /\ file[res.image.file].ctime \in Nat /\ file[res.image.file].content \in Nat
  BY <1>2, LookFacts DEF WorldTypes
<1>4. ASSUME NEW d, res' = [res EXCEPT !.pc = "recheck", !.digest = d]
      PROVE  ResInv'
  <2>1. SameLook /\ SameImage /\ res'.image = res.image /\ res'.pc = "recheck"
    BY <1>1, <1>4 DEF SameLook, SameImage, ResLookFields
  <2>2. HashRight'
    BY <2>1 DEF HashRight
  <2> QED
    BY <1>1, <1>2, <2>1, <2>2, HashStep
<1>5. ASSUME res.pc = "hash",
             res' = [res EXCEPT !.pc = "read", !.image.key = ImageKey(res.image.file), !.cacheable = Settled(res.image.file)]
      PROVE  ResInv'
  <2>1. /\ SameLook /\ SameImage /\ res'.pc = "read" /\ DOMAIN res'.image = {"file", "key", "path"}
        /\ res'.image.key = <<res.image.file, file[res.image.file].ctime>>
    BY <1>1, <1>2, <1>5 DEF SameLook, SameImage, ResLookFields, ImageKey
  <2>2. res'.cacheable = Settled(res.image.file)
    BY <1>1, <1>5 DEF ResLookFields
  <2>3. Settled(res.image.file) \in BOOLEAN /\ (Settled(res.image.file) => file[res.image.file].ctime < tick)
    BY <1>3 DEF Settled
  <2>4. HashRight'
    BY <1>1, <1>2, <1>3, <2>1, <2>2, <2>3 DEF HashRight, SameLook, SameImage
  <2> QED
    BY <1>1, <2>1, <2>4, HashStep
<1>6. ASSUME res.pc = "read", res' = [res EXCEPT !.pc = "hashed", !.digest = <<file[res.image.file].content>>]
      PROVE  ResInv'
  <2>1. /\ SameLook /\ SameImage /\ res'.pc = "hashed" /\ res'.image = res.image
        /\ res'.cacheable = res.cacheable
    BY <1>1, <1>6 DEF SameLook, SameImage, ResLookFields
  <2>2. res'.digest = <<file[res.image.file].content>>
    BY <1>1, <1>6 DEF ResLookFields
  <2>3. PICK t \in Nat : res.image.key = <<res.image.file, t>>
    BY <1>6 DEF ResInv, HashRight
  <2>4. res.cacheable \in BOOLEAN /\ (res.cacheable => t < tick)
    BY <1>6, <2>3 DEF ResInv, HashRight
  <2>5. res.cacheable => DigestRight(res.image.key, file[res.image.file].content)
    BY <2>3, <2>4 DEF DigestRight
  <2>6. (\E v \in Nat : res.digest = <<v>> /\ (res.cacheable => DigestRight(res.image.key, v)))'
    BY <1>1, <1>3, <2>1, <2>2, <2>5 DEF DigestRight
  <2>7. HashRight'
    BY <1>1, <1>2, <2>1, <2>3, <2>4, <2>6 DEF HashRight
  <2> QED
    BY <1>1, <1>2, <2>1, <2>7, HashStep
<1> QED
  BY <1>4, <1>5, <1>6 DEF HashBegin, HashRead

\* TtlCache::insert keeps and drops entries, and adds one.
LEMMA CacheInsertTyped ==
  ASSUME NEW S, NEW cache \in Seq(S), NEW key, NEW value, [key |-> key, value |-> value] \in S,
         NEW cap \in Nat \ {0}
  PROVE  CacheInsert(cache, key, value, cap) \in Seq(S)
<1> DEFINE at == {i \in 1..Len(cache) : cache[i].key = key}
           old == CHOOSE i \in at : TRUE
           kept == IF at = {} THEN cache
                   ELSE SubSeq(cache, 1, old - 1) \o SubSeq(cache, old + 1, Len(cache))
           room == IF Len(kept) >= cap THEN Tail(kept) ELSE kept
<1>1. kept \in Seq(S)
  <2>1. CASE at = {}
    BY <2>1
  <2>2. CASE at # {}
    <3>1. old \in 1..Len(cache) /\ \A i \in 1..Len(cache) : cache[i] \in S
      BY <2>2
    <3> HIDE DEF old
    <3>2. SubSeq(cache, 1, old - 1) \in Seq(S)
      BY <3>1, SubSeqProperties
    <3>3. SubSeq(cache, old + 1, Len(cache)) \in Seq(S)
      BY <3>1, SubSeqProperties
    <3> QED
      BY <2>2, <3>2, <3>3, ConcatProperties
  <2> QED
    BY <2>1, <2>2
<1> HIDE DEF kept
<1>2. room \in Seq(S)
  <2>1. CASE Len(kept) >= cap
    <3>1. kept # <<>>
      BY <1>1, <2>1
    <3> QED
      BY <1>1, <2>1, <3>1, HeadTailProperties
  <2> QED
    BY <1>1, <2>1
<1> HIDE DEF room
<1>3. CacheInsert(cache, key, value, cap) = Append(room, [key |-> key, value |-> value])
  BY DEF CacheInsert, room, kept
<1> QED
  BY <1>2, <1>3, AppendProperties

LEMMA HashEndKeeps == ASSUME ResInv, HashEnd PROVE ResInv'
<1>1. res.pc = "hashed" /\ UNCHANGED <<worldVars, ghostVars, ktab>> /\ DOMAIN res = ResLookFields
  BY LookFacts DEF HashEnd, Worker
<1>2. DOMAIN res.image = {"file", "key", "path"} /\ res.image.file \in Files
  BY <1>1, LookFacts DEF Opened
<1>3. PICK d : res' = [res EXCEPT !.pc = "recheck", !.digest = d]
  BY DEF HashEnd
<1>4. CASE UNCHANGED shaCache
  <2>1. SameLook /\ SameImage /\ res'.image = res.image /\ res'.pc = "recheck"
    BY <1>1, <1>3, <1>4 DEF SameLook, SameImage, ResLookFields
  <2>2. HashRight'
    BY <2>1 DEF HashRight
  <2> QED
    BY <1>1, <1>2, <2>1, <2>2, HashStep
<1>5. ASSUME ImageKey(res.image.file) = res.image.key, res.cacheable,
             shaCache' = CacheInsert(shaCache, res.image.key, res.digest[1], ShaCap)
      PROVE  ResInv'
  <2>1. PICK v \in Nat : res.digest = <<v>> /\ DigestRight(res.image.key, v)
    BY <1>1, <1>5 DEF ResInv, HashRight
  <2> DEFINE Right == {e \in Digests : DigestRight(e.key, e.value)}
  <2>2. [key |-> res.image.key, value |-> v] \in Right
    <3>1. res.image.key \in Files \X Nat
      BY <1>1 DEF ResInv, HashRight
    <3> QED
      BY <2>1, <3>1 DEF Digests
  <2>3. shaCache \in Seq(Right)
    <3>1. shaCache \in Seq(Digests) /\ \A i \in 1..Len(shaCache) : shaCache[i] \in Right
      BY DEF ResInv, CacheRight
    <3> QED
      BY <3>1
  <2>4. shaCache' \in Seq(Right)
    <3>1. ShaCap \in Nat \ {0} /\ res.digest[1] = v
      BY <2>1
    <3> HIDE DEF Right
    <3> QED
      BY <1>5, <2>2, <2>3, <3>1, CacheInsertTyped
  <2>6. CacheRight'
    <3>1. shaCache' \in Seq(Digests)
      BY <2>4
    <3>2. \A i \in 1..Len(shaCache') : shaCache'[i] \in Right
      BY <2>4
    <3> QED
      BY <1>1, <3>1, <3>2 DEF CacheRight, DigestRight
  <2>7. /\ DOMAIN res' = ResLookFields /\ res'.pid = res.pid /\ res'.start = res.start /\ res'.kern = res.kern
        /\ SameImage /\ res'.image = res.image /\ res'.pc = "recheck"
    BY <1>1, <1>3 DEF SameImage, ResLookFields
  <2>8. WorldTypes'
    BY <1>1 DEF ResInv, WorldTypes
  <2>9. ImagesNoted' /\ HashRight'
    BY <1>1, <2>7 DEF ResInv, ImagesNoted, HashRight
  <2>10. ResLookTypes' /\ RecordOfHolder'
    BY <1>1, <1>2, <2>7 DEF ResInv, ResLookTypes, RecordOfHolder, Found, Opened, Filtered
  <2>11. ImageOfHolder' /\ PathOfAnother'
    BY <1>1, <2>7 DEF ResInv, ImageOfHolder, PathOfAnother, InHand, StillItself, SameImage, Opened, Filtered
  <2> QED
    BY <2>6, <2>8, <2>9, <2>10, <2>11 DEF ResInv
<1> QED
  BY <1>4, <1>5 DEF HashEnd

LEMMA RecheckKeeps == ASSUME ResInv, FinishRecheck PROVE ResInv'
<1>1. res.pc = "recheck" /\ UNCHANGED <<worldVars, ghostVars, shaCache, ktab>> /\ DOMAIN res = ResLookFields
  BY LookFacts DEF FinishRecheck, Worker
<1>2. CASE res' = [Unknown EXCEPT !.pc = "filter"]
  BY <1>1, <1>2, Unknowns, NoImageInHand DEF SameLook, Found
<1>3. CASE res' = [res EXCEPT !.pc = "filter", !.unlinked = res.unlinked /\ InOurUserNamespace(res.pid)]
  <2>1. DOMAIN res.image = {"file", "key", "path"} /\ res.image.file \in Files /\ res.image # NoImage
    BY <1>1, LookFacts DEF Opened
  <2>2. SameLook /\ res'.pc = "filter" /\ res'.image = res.image
    BY <1>1, <1>3 DEF SameLook, ResLookFields
  <2>3. res'.unlinked => res.unlinked /\ proc[res.pid].kind # "unshared"
    BY <1>1, <1>3 DEF ResLookFields, InOurUserNamespace
  <2>4. ImageOfHolder'
    BY <1>1, <2>1, <2>2 DEF ResInv, ImageOfHolder, InHand, StillItself, SameLook, Opened, Filtered
  <2>5. PathOfAnother'
    BY <1>1, <2>1, <2>2, <2>3 DEF ResInv, PathOfAnother, InHand, StillItself, SameLook, Opened, Filtered
  <2>6. HashRight'
    BY <2>2 DEF HashRight
  <2> QED
    BY <1>1, <2>1, <2>2, <2>4, <2>5, <2>6, SameLookStep DEF Found
<1> QED
  BY <1>2, <1>3 DEF FinishRecheck

LEMMA FilterKeeps == ASSUME ResInv, StartFilter PROVE ResInv'
<1>1. res.pc = "filter" /\ UNCHANGED <<worldVars, ghostVars, shaCache, ktab>> /\ DOMAIN res = ResLookFields
  BY LookFacts DEF StartFilter, Worker
<1>2. res.image = NoImage \/ (DOMAIN res.image = {"file", "key", "path"} /\ res.image.file \in Files)
  BY <1>1 DEF ResInv, ResLookTypes, Filtered
<1>3. CASE res' = [Unknown EXCEPT !.pc = "holds"]
  BY <1>1, <1>3, Unknowns, NoImageInHand DEF SameLook, Found, Filtered
<1>4. ASSUME StillItself, res' = [res EXCEPT !.pc = "holds"]
      PROVE  ResInv'
  <2>1. SameLook /\ res'.pc = "holds" /\ res'.image = res.image /\ res'.unlinked = res.unlinked
    BY <1>1, <1>4 DEF SameLook, ResLookFields
  <2>2. ImageOfHolder'
    BY <1>1, <1>4, <2>1 DEF ResInv, ImageOfHolder, InHand, StillItself, SameLook, Opened, Filtered
  <2>3. PathOfAnother'
    BY <1>1, <1>4, <2>1 DEF ResInv, PathOfAnother, InHand, StillItself, SameLook, Opened, Filtered
  <2>4. HashRight'
    BY <2>1 DEF HashRight
  <2> QED
    BY <1>1, <1>2, <2>1, <2>2, <2>3, <2>4, SameLookStep DEF Found, Opened
<1> QED
  BY <1>3, <1>4 DEF StartFilter, SameProcess, StillItself

LEMMA HoldsKeeps == ASSUME ResInv, StillHolds PROVE ResInv'
<1>1. res.pc = "holds" /\ UNCHANGED <<worldVars, ghostVars, shaCache, ktab>> /\ DOMAIN res = ResLookFields
  BY LookFacts DEF StillHolds, Worker
<1>2. CASE res' = Idle
  BY <1>1, <1>2, ThenIdle
<1>3. CASE res' = [res EXCEPT !.pc = "last"]
  <2>1. SameLook /\ res'.pc = "last" /\ res'.image = res.image /\ res'.unlinked = res.unlinked
    BY <1>1, <1>3 DEF SameLook, ResLookFields
  <2>2. res.image = NoImage \/ (DOMAIN res.image = {"file", "key", "path"} /\ res.image.file \in Files)
    BY <1>1 DEF ResInv, ResLookTypes, Filtered
  <2>3. ImageOfHolder' /\ PathOfAnother'
    BY <1>1, <2>1 DEF ResInv, ImageOfHolder, PathOfAnother, InHand, StillItself, SameLook, Opened, Filtered
  <2>4. HashRight'
    BY <2>1 DEF HashRight
  <2> QED
    BY <1>1, <2>1, <2>2, <2>3, <2>4, SameLookStep DEF Found, Opened
<1> QED
  BY <1>2, <1>3 DEF StillHolds

LEMMA PublishKeeps == ASSUME ResInv, PublishIdentity PROVE ResInv'
<1>1. res.pc = "last" /\ UNCHANGED <<worldVars, ghostVars, shaCache, ktab>> /\ DOMAIN res = ResLookFields
  BY LookFacts DEF PublishIdentity, Worker
<1>2. CASE res' = Idle
  BY <1>1, <1>2, ThenIdle
<1>3. CASE res' = [res EXCEPT !.pc = "published", !.image.path = PolicyExePath(res.image.path, res.unlinked)]
  <2>1. SameLook /\ res'.pc = "published"
        /\ res'.image = [res.image EXCEPT !.path = PolicyExePath(res.image.path, res.unlinked)]
    BY <1>1, <1>3 DEF SameLook, ResLookFields
  <2>2. CASE res.image = NoImage
    <3>1. PolicyExePath(res.image.path, res.unlinked) = "unknown"
      BY <2>2 DEF PolicyExePath
    <3>2. res'.image = NoImage
      BY <2>1, <2>2, <3>1
    <3> QED
      BY <1>1, <2>1, <3>2, NoImageInHand DEF Found, Filtered
  <2>3. CASE res.image # NoImage
    <3>1. DOMAIN res.image = {"file", "key", "path"} /\ res.image.file \in Files
      BY <1>1, <2>3 DEF ResInv, ResLookTypes, Filtered
    <3>2. /\ DOMAIN res'.image = {"file", "key", "path"} /\ res'.image.file = res.image.file
          /\ res'.image.path = PolicyExePath(res.image.path, res.unlinked)
      BY <2>1, <3>1
    <3>3. ImageOfHolder'
      BY <1>1, <2>1, <2>3, <3>2 DEF ResInv, ImageOfHolder, InHand, StillItself, SameLook, Opened, Filtered
    <3>4. PathOfAnother'
      <4>1. hostGone' = hostGone /\ res'.pc = "published"
        BY <2>1 DEF SameLook, ghostVars
      <4>2. ~(res'.pc \in {"hash", "read", "hashed", "recheck"}) /\ res'.pc # "filter" /\ ~(res'.pc \in {"holds", "last"})
        BY <4>1
      <4>3. ASSUME res.image.file = Foreign PROVE res.image.path # "path" \/ hostGone
        BY <1>1, <2>3, <4>3 DEF ResInv, PathOfAnother, InHand, Filtered
      <4>4. ASSUME res.image.file = Foreign PROVE ~res.unlinked
        BY <1>1, <2>3, <4>4 DEF ResInv, PathOfAnother, InHand, Filtered
      <4>5. ASSUME res.image.file = Foreign PROVE res'.image.path # "path" \/ hostGone'
        BY <3>2, <4>1, <4>3, <4>4, <4>5 DEF PolicyExePath
      <4> QED
        BY <3>2, <4>1, <4>2, <4>5 DEF PathOfAnother
    <3>5. HashRight'
      BY <2>1 DEF HashRight
    <3> QED
      BY <1>1, <2>1, <3>1, <3>2, <3>3, <3>4, <3>5, SameLookStep DEF Found
  <2> QED
    BY <2>2, <2>3
<1> QED
  BY <1>2, <1>3 DEF PublishIdentity

LEMMA ResKept == ResInv /\ [ResolveNext]_resolveVars => ResInv'
<1> SUFFICES ASSUME ResInv, [ResolveNext]_resolveVars PROVE ResInv'
  OBVIOUS
<1>1. CASE UNCHANGED resolveVars
  BY <1>1 DEF resolveVars, ResInv, WorldTypes, ResLookTypes, ImagesNoted, ImageOfHolder, PathOfAnother, InHand,
     StillItself, CacheRight, HashRight, DigestRight, RecordOfHolder
<1>2. CASE ResolveBegins \/ (\E p \in PidSet : Probe(p)) \/ ProbeFd \/ ProbeAgain \/ NoOwner
           \/ ObserveExec \/ (\E p \in PidSet : RecordLeaves(p))
  BY <1>2, BeginKeeps, SearchKeeps, TableKeeps
<1>3. CASE ResolveStart \/ ImageOpen \/ ImageLink \/ Credentials \/ FinishChecks \/ HashBegin \/ HashRead
           \/ HashEnd \/ FinishRecheck \/ StartFilter \/ StillHolds \/ PublishIdentity
  BY <1>3, StartKeeps, OpenKeeps, LinkKeeps, CredentialsKeep, ChecksKeep, ReadKeeps, HashEndKeeps, RecheckKeeps,
     FilterKeeps, HoldsKeeps, PublishKeeps
<1>4. CASE IdentityUsed
  BY <1>4, ThenIdle DEF IdentityUsed, Worker
<1> QED
  BY <1>1, <1>2, <1>3, <1>4, WorldKeeps DEF ResolveNext, Files

LEMMA ResSays == ResInv => IdentityOfHolder
<1> SUFFICES ASSUME ResInv PROVE IdentityOfHolder
  OBVIOUS
<1>1. Published => <<res.pid, res.start, res.image.file>> \in ran
  BY DEF Published, ResInv, ImageOfHolder, InHand, Filtered
<1>2. NoBorrowedPath
  BY DEF NoBorrowedPath, Published, ResInv, PathOfAnother, InHand, Filtered
<1>3. CachedDigestRight
  <2> SUFFICES ASSUME NEW i \in 1..Len(shaCache), NEW f \in HostFiles \cup {Foreign},
                      shaCache[i].key = ImageKey(f)
               PROVE  shaCache[i].value = file[f].content
    BY DEF CachedDigestRight
  <2>1. DigestRight(<<f, file[f].ctime>>, shaCache[i].value)
    BY DEF ResInv, CacheRight, ImageKey
  <2> QED
    BY <2>1 DEF DigestRight
<1>4. CredsOfHolder
  BY DEF CredsOfHolder, ResInv, RecordOfHolder, ResLookTypes, ExecRecords, Found, Filtered
<1> QED
  BY <1>1, <1>2, <1>3, <1>4 DEF IdentityOfHolder

\* The image, path, digest and credentials published for a socket are those of the
\* very process found holding it, whatever execs, exits and reuses of its pid, and
\* whatever writes and upgrades of its file, come between the reads
\* (pid_owning_inode, SocketOwner::resolve, MappedImage, sha256_open_file).
THEOREM IdentityOfHolderHolds == ResolveInit /\ [][ResolveNext]_resolveVars => []IdentityOfHolder
BY ResolveStarts, ResKept, ResSays, PTL

=============================================================================
