----------------------------- MODULE MCIdentity -----------------------------
(***************************************************************************)
(* Who is who: the socket behind a packet and the process behind a socket, *)
(* the name of an address and the package of a file; and, on the control   *)
(* socket, the program behind a connection and what it may do.  One of     *)
(* these parts is at work in a behaviour.                                  *)
(***************************************************************************)
EXTENDS SockAttribution, ProcResolve, HostCache, PackageIndex, OfficialClient, PromptAccess

VARIABLE part

AnyIp == [addr |-> "any", v4 |-> FALSE]
Here == [addr |-> "here", v4 |-> TRUE]
There == [addr |-> "there", v4 |-> TRUE]
At(ip, port) == [ip |-> ip, port |-> port]
Unconnected == At(AnyIp, 0)

Sock(i, proto, table, local, remote, listen, uid) ==
    [inode |-> i, proto |-> proto, table |-> table, local |-> local, remote |-> remote,
     listen |-> listen, uid |-> uid]

MCSocks ==
    {Sock(1, "udp", "v4", At(Here, 5), At(There, 9), FALSE, "u1"),
     Sock(2, "udp", "v6", At(AnyIp, 5), Unconnected, FALSE, "u1"),
     Sock(3, "tcp", "v6", At(Here, 7), At(There, 9), FALSE, "u2"),
     Sock(4, "tcp", "v4", At(AnyIp, 7), Unconnected, TRUE, "u2")}
MCFlows ==
    {[proto |-> "udp", src |-> At(Here, 5), dst |-> At(There, 9)],
     [proto |-> "tcp", src |-> At(Here, 7), dst |-> At(There, 9)]}

\* Each name resolves to one address.
MCForward == [n \in NameSet |-> IF n = "n1" THEN {"a1"} ELSE {"a2"}]

MCUidOf == [c \in Clients |-> IF c = "app" THEN 1 ELSE 2]
\* The first prompt is about a user's image that needs a hash, the others about
\* a process nobody is known to own.
Unattributed == [owner |-> NoUid, exe |-> NoExe, hash |-> NoHash, expected |-> FALSE]
MCPrompts == [p \in Prompts |->
    IF p = 1 THEN {[owner |-> 1, exe |-> "i1", hash |-> "h1", expected |-> TRUE]} ELSE {Unattributed}]
Request(op, id, exe, keep) ==
    [NoCall EXCEPT !.op = op, !.stage = "new", !.id = id, !.allow = TRUE, !.exe = exe, !.keep = keep]
MCRequests ==
    {Request("submit", 1, NoExe, FALSE), Request("submit", 2, NoExe, TRUE)}
    \cup {Request("submit", 1, exe, TRUE) : exe \in {"i1", "i2"}}
    \cup {Request(op, 0, NoExe, TRUE) : op \in {"upsert", "apply", "pause"}}

MCInit ==
    /\ part \in {"sock", "resolve", "host", "package", "official", "access"}
    /\ SockInit /\ ResolveInit /\ HostInit /\ PkgInit /\ OfficialInit /\ AccessInit

MCNext ==
    /\ UNCHANGED part
    /\ \/ part = "sock" /\ SockNext /\ UNCHANGED <<resolveVars, hostVars, pkgVars, officialVars, accessVars>>
       \/ part = "resolve" /\ ResolveNext /\ UNCHANGED <<sockVars, hostVars, pkgVars, officialVars, accessVars>>
       \/ part = "host" /\ HostNext /\ UNCHANGED <<sockVars, resolveVars, pkgVars, officialVars, accessVars>>
       \/ part = "package" /\ PkgNext /\ UNCHANGED <<sockVars, resolveVars, hostVars, officialVars, accessVars>>
       \/ part = "official" /\ OfficialNext /\ UNCHANGED <<sockVars, resolveVars, hostVars, pkgVars, accessVars>>
       \/ part = "access" /\ AccessNext /\ UNCHANGED <<sockVars, resolveVars, hostVars, pkgVars, officialVars>>

MCSpec == MCInit /\ [][MCNext]_<<part, sockVars, resolveVars, hostVars, pkgVars, officialVars, accessVars>>
=============================================================================
