--------------------------- MODULE OfficialClient ---------------------------
(***************************************************************************)
(* official::check: is the process at the other end of a control           *)
(* connection the installed app or tray?  The daemon keeps the pid, the    *)
(* start time and the socket it saw at accept, and reads facts about that  *)
(* pid one at a time while processes exit, pids are reused, programs exec, *)
(* tracers come and go and packages are upgraded.  A program other than    *)
(* the app and the tray never makes itself non-dumpable, and no process    *)
(* hands a descriptor to another that runs already.                        *)
(***************************************************************************)
EXTENDS Naturals

CONSTANTS
    Pids, MaxStarts,       \* pids; processes ever started
    MaxVersions,           \* releases of the app installed over time
    MaxChecks, MaxExecs    \* bounds of the model

VARIABLES
    procs,        \* pid -> the process now there, or NoProcess
    starts,       \* processes started so far: the next one's start time
    installed,    \* the inode at the allowlisted path: the release number
    fileSealed,   \* root owns it and its directories, nobody else may write
    conn,         \* PeerId taken at accept, with what the peer then was
    verify,       \* the check under way
    checksRun, execsRun

officialVars == <<procs, starts, installed, fileSealed, conn, verify, checksRun, execsRun>>

OtherProgram == 0          \* any image but the app's and the tray's

Process(start, image, plain, libs, holds) ==
    [start |-> start, image |-> image,
     plain |-> plain,     \* host namespaces, no seccomp filter, the connection's uid
     traced |-> FALSE, sealed |-> FALSE,
     libs |-> libs,       \* every executable file mapping is of a sealed path
     holds |-> holds]     \* has the client end on a descriptor above stderr

NoProcess == Process(0, OtherProgram, FALSE, FALSE, FALSE)
NoConn == [pid |-> 0, start |-> 0, as |-> [image |-> OtherProgram, sealed |-> FALSE]]

Lives(p) == procs[p] # NoProcess
ReadStart(p) == procs[p].start

NoCheck == [stage |-> "idle", readOf |-> {}]

(***************************************************************************)
(* The world.                                                              *)
(***************************************************************************)
Starts(p, image, plain, libs, inherits) ==
    /\ ~Lives(p) /\ starts < MaxStarts
    /\ inherits => \E q \in Pids : Lives(q) /\ procs[q].holds
    /\ starts' = starts + 1
    /\ procs' = [procs EXCEPT ![p] = Process(starts, image, plain, libs, inherits)]
    /\ UNCHANGED <<installed, fileSealed, conn, verify, checksRun, execsRun>>

PeerExits(p) ==
    /\ Lives(p)
    /\ procs' = [procs EXCEPT ![p] = NoProcess]
    /\ UNCHANGED <<starts, installed, fileSealed, conn, verify, checksRun, execsRun>>

\* exec keeps the pid, the start time and the inherited descriptors.
Execs(p, image) ==
    /\ Lives(p) /\ execsRun < MaxExecs /\ execsRun' = execsRun + 1
    /\ procs' = [procs EXCEPT ![p] =
         [start |-> @.start, image |-> image, plain |-> @.plain, traced |-> @.traced, sealed |-> FALSE,
          libs |-> TRUE, holds |-> @.holds]]
    /\ UNCHANGED <<starts, installed, fileSealed, conn, verify, checksRun>>

TracerChanges(p) ==
    /\ Lives(p) /\ (procs[p].sealed => procs[p].traced)
    /\ procs' = [procs EXCEPT ![p].traced = ~@]
    /\ UNCHANGED <<starts, installed, fileSealed, conn, verify, checksRun, execsRun>>

Upgrade ==
    /\ installed < MaxVersions /\ installed' = installed + 1
    /\ UNCHANGED <<procs, starts, fileSealed, conn, verify, checksRun, execsRun>>

FileModeChanges ==
    /\ fileSealed' = ~fileSealed
    /\ UNCHANGED <<procs, starts, installed, conn, verify, checksRun, execsRun>>

(***************************************************************************)
(* The app and the tray: seal_official_process, then connect.              *)
(***************************************************************************)
CloseInheritedFds(p) ==
    /\ Lives(p) /\ procs[p].image # OtherProgram /\ ~procs[p].sealed /\ procs[p].holds
    /\ procs' = [procs EXCEPT ![p].holds = FALSE]
    /\ UNCHANGED <<starts, installed, fileSealed, conn, verify, checksRun, execsRun>>

SealProcess(p) ==
    /\ Lives(p) /\ procs[p].image # OtherProgram /\ ~procs[p].sealed /\ ~procs[p].holds
    /\ procs' = [procs EXCEPT ![p].sealed = TRUE]
    /\ UNCHANGED <<starts, installed, fileSealed, conn, verify, checksRun, execsRun>>

\* PeerStream::new: what the daemon notes when it accepts.
Connects(p) ==
    /\ Lives(p) /\ conn = NoConn
    /\ procs[p].image # OtherProgram => procs[p].sealed
    /\ procs' = [procs EXCEPT ![p].holds = TRUE]
    /\ conn' = [pid |-> p, start |-> procs[p].start,
                as |-> [image |-> procs[p].image, sealed |-> procs[p].sealed]]
    /\ UNCHANGED <<starts, installed, fileSealed, verify, checksRun, execsRun>>

(***************************************************************************)
(* The check: one read per step, in the order of bracketed and inspect.    *)
(***************************************************************************)
CheckBegins ==
    /\ conn # NoConn /\ verify.stage \in {"idle", "passed", "refused"}
    /\ checksRun < MaxChecks /\ checksRun' = checksRun + 1
    /\ verify' = [NoCheck EXCEPT !.stage = IF ReadStart(conn.pid) = conn.start THEN "namespaces" ELSE "refused"]
    /\ UNCHANGED <<procs, starts, installed, fileSealed, conn, execsRun>>

\* One fact of the process now under the pid decides between going on and refusing.
Inspect(stage, next, ok) ==
    /\ verify.stage = stage
    /\ verify' = [stage |-> IF Lives(conn.pid) /\ ok THEN next ELSE "refused",
                  readOf |-> verify.readOf \cup {ReadStart(conn.pid)}]
    /\ UNCHANGED <<procs, starts, installed, fileSealed, conn, checksRun, execsRun>>

Peer == procs[conn.pid]

InspectStatus ==
    \/ Inspect("namespaces", "status", Lives(conn.pid) /\ Peer.plain)
    \/ Inspect("status", "seal", Lives(conn.pid) /\ Peer.plain /\ ~Peer.traced)

InspectSeal == Inspect("seal", "image", Lives(conn.pid) /\ Peer.sealed)

SealedIdentity == IF fileSealed THEN {installed} ELSE {}

ImageMatches ==
    /\ Inspect("image", "connection", Lives(conn.pid) /\ Peer.image \in SealedIdentity)

HoldsConnection == Inspect("connection", "maps", Lives(conn.pid) /\ Peer.holds)
MapsAreSealed == Inspect("maps", "after", Lives(conn.pid) /\ Peer.libs)

\* Faulty variant: the start time is not read again at the end.
CheckEndsUnread ==
    /\ verify.stage = "after"
    /\ verify' = [verify EXCEPT !.stage = "passed"]
    /\ UNCHANGED <<procs, starts, installed, fileSealed, conn, checksRun, execsRun>>
CheckEnds ==
    /\ verify.stage = "after"
    /\ verify' = [verify EXCEPT !.stage = IF ReadStart(conn.pid) = conn.start THEN "passed" ELSE "refused"]
    /\ UNCHANGED <<procs, starts, installed, fileSealed, conn, checksRun, execsRun>>

OfficialInit ==
    /\ procs = [p \in Pids |-> NoProcess]
    /\ starts = 1 /\ installed = 1 /\ fileSealed = TRUE
    /\ conn = NoConn /\ verify = NoCheck /\ checksRun = 0 /\ execsRun = 0

OfficialNext ==
    \/ \E p \in Pids :
         \/ \E image \in {OtherProgram, installed}, plain, libs, inherits \in BOOLEAN :
              Starts(p, image, plain, libs, inherits)
         \/ \E image \in {OtherProgram, installed} : Execs(p, image)
         \/ PeerExits(p) \/ TracerChanges(p) \/ CloseInheritedFds(p) \/ SealProcess(p) \/ Connects(p)
    \/ Upgrade \/ FileModeChanges
    \/ CheckBegins \/ InspectStatus \/ InspectSeal \/ ImageMatches \/ HoldsConnection
    \/ MapsAreSealed \/ CheckEnds

(***************************************************************************)
(* Properties.                                                             *)
(***************************************************************************)

\* official::check: everything a passed check read was about the process that
\* made the connection, "so none of the above was read from a process that
\* replaced it under the same pid"; and that process was the app or the tray,
\* sealed, when it connected: a connection opened by another program and inherited
\* through exec is closed by the time the process is sealed.
OneProcessChecked ==
    verify.stage = "passed" =>
        verify.readOf = {conn.start} /\ conn.as.image # OtherProgram /\ conn.as.sealed
==============================================================================
