---------------------------- MODULE ConfineCheck ----------------------------
(* Two decisions the confinement of an application rests on, each computed *)
(* by the code and compared here with what it stands for.                  *)
(*                                                                         *)
(* The gate's inspection of the native cgroup filters (native.rs filters,  *)
(* program_set, native_maps): which programs are attached, what their      *)
(* policy maps hold, how they decide a few synthetic packets.  An address  *)
(* is a number in a small space, a prefix the set of addresses it covers,  *)
(* so a host prefix is a singleton.                                        *)
(*                                                                         *)
(* The system-call filter handed to the sandbox (filter.rs): a loop-free   *)
(* classic BPF program with relative jumps.  A machine word is the set of  *)
(* its one bits; the numbers of system calls, which the program only       *)
(* compares, are renamed.                                                  *)
EXTENDS Integers, Sequences, FiniteSets

CONSTANT Space      \* the addresses of one family: 0 .. Space

VARIABLE tried      \* the last case put to one of the two

checkVars == <<tried>>

-----------------------------------------------------------------------------
(* The native filters. *)

Families == {4, 6}
Addresses == 0 .. Space
Peer(f, a) == [family |-> f, addr |-> a]
Peers == {Peer(f, a) : f \in Families, a \in Addresses}
Loopback == "lo"
External == "eth"
Interfaces == {Loopback, External}

(* What the kernel does with the two kinds of program systemd attaches. *)
IpAdmits(maps, peer) ==
    \E i \in DOMAIN maps : /\ maps[i].family = peer.family
                           /\ \E k \in DOMAIN maps[i].keys : peer.addr \in maps[i].keys[k]
InterfaceAdmits(maps, iface) ==
    \/ maps.mode = 0 /\ \A k \in DOMAIN maps.keys : maps.keys[k] # iface
    \/ maps.mode = 1 /\ \E k \in DOMAIN maps.keys : maps.keys[k] = iface
Admits(p, peer, iface) ==
    CASE p.name = "sd_fw"         -> IpAdmits(p.maps, peer)
      [] p.name = "sd_restrictif" -> InterfaceAdmits(p.maps, iface)
      [] OTHER                    -> TRUE

Distinct(s) == \A i, j \in DOMAIN s : s[i] = s[j] => i = j
Ids(s) == {s[i] : i \in DOMAIN s}

(* The unit's own pair, attached once each and effective; programs of      *)
(* ancestors may stand beside it.                                          *)
ProgramSet(direct, effective) ==
    /\ Len(direct) = 2
    /\ Distinct(direct)
    /\ 0 \notin Ids(direct)
    /\ Distinct(effective)
    /\ 0 \notin Ids(effective)
    /\ Ids(direct) \subseteq Ids(effective)

(* How many keys of a policy map are read: one more than there are peers.  *)
KeysReadOneShort(allowed) == Cardinality(allowed)
KeysRead(allowed) == Cardinality(allowed) + 1

(* The walk over the maps of the address filter: every key read is a host  *)
(* prefix of an approved peer not met before, and in the end all were met. *)
IpMaps(maps, allowed) ==
    LET read(m)  == {k \in DOMAIN m.keys : k <= KeysRead(allowed)}
        sites    == UNION {{<<i, k>> : k \in read(maps[i])} : i \in DOMAIN maps}
        hosts(s) == {Peer(maps[s[1]].family, a) : a \in maps[s[1]].keys[s[2]]}
    IN /\ Len(maps) = Cardinality({p.family : p \in allowed})
       /\ \A i, j \in DOMAIN maps : maps[i].mapName = maps[j].mapName => i = j
       /\ \A s \in sites : /\ Cardinality(hosts(s)) = 1
                           /\ hosts(s) \subseteq allowed
                           /\ \A t \in sites \ {s} : hosts(t) # hosts(s)
       /\ UNION {hosts(s) : s \in sites} = allowed

(* The interface filter refuses exactly the loopback interface. *)
InterfaceMaps(maps) == maps.keys = <<Loopback>> /\ maps.mode = 0

NativeMaps(p, allowed) ==
    IF p.name = "sd_fw" THEN IpMaps(p.maps, allowed) ELSE InterfaceMaps(p.maps)

(* A peer of each family that is not approved. *)
DenialControls(allowed) ==
    {Peer(f, CHOOSE a \in Addresses :
                /\ Peer(f, a) \notin allowed
                /\ \A b \in Addresses : b < a => Peer(f, b) \in allowed) : f \in Families}

(* The synthetic decisions asked of a program. *)
TestRuns(p, allowed) ==
    IF p.name = "sd_fw"
    THEN /\ \A peer \in allowed : Admits(p, peer, External)
         /\ \A peer \in DenialControls(allowed) : ~Admits(p, peer, External)
    ELSE \A peer \in DenialControls(allowed) :
            ~Admits(p, peer, Loopback) /\ Admits(p, peer, External)

(* The program's type and name say which of the native pair it is. *)
NativeProgram(p) == p.name \in {"sd_fw", "sd_restrictif"}

(* The attached programs of one direction; `programs' is what the kernel   *)
(* holds under each number.                                                *)
Filters(c) ==
    /\ ProgramSet(c.direct, c.effective)
    /\ \A id \in Ids(c.direct) : NativeProgram(c.programs[id])
    /\ \A i, j \in Ids(c.direct) : c.programs[i].name = c.programs[j].name => i = j
    /\ \A id \in Ids(c.direct) : /\ NativeMaps(c.programs[id], c.allowed)
                                 /\ TestRuns(c.programs[id], c.allowed)

(* What the manager says it was told: a list of prefixes with no repeats   *)
(* for the unit, exactly the approved peers, everything else denied; none  *)
(* for the slices above, whose prefixes it folds into the unit's map.      *)
IpPrefixes(list) == [ok |-> Distinct(list), set |-> Ids(list)]
CgroupProperties(declared, allowed, leaf) ==
    /\ IpPrefixes(declared.allow).ok
    /\ IpPrefixes(declared.allow).set = {[family |-> p.family, prefix |-> {p.addr}] : p \in allowed}
    /\ declared.denyAny = leaf
Declarations(c) ==
    /\ CgroupProperties(c.unit, c.allowed, TRUE)
    /\ \A i \in DOMAIN c.slices : CgroupProperties(c.slices[i], {}, FALSE)

(* The peers a map built from the declarations admits. *)
FoldedPeers(c) ==
    {p \in Peers : \/ ~c.unit.denyAny
                  \/ \E l \in {c.unit.allow} \cup {c.slices[i].allow : i \in DOMAIN c.slices} :
                       \E i \in DOMAIN l : l[i].family = p.family /\ p.addr \in l[i].prefix}

(* The kernel lets a packet through when every effective program does. *)
Reaches(c, peer, iface) ==
    \A id \in Ids(c.effective) \ {0} : Admits(c.programs[id], peer, iface)

-----------------------------------------------------------------------------
(* The system-call filter. *)

Bits == 0 .. 31
Statement(op, k) == <<[op |-> op, k |-> k, jt |-> 0, jf |-> 0]>>
Jump(op, k, jt, jf) == <<[op |-> op, k |-> k, jt |-> jt, jf |-> jf]>>

\* Verdicts, and words as the sets of their bits
ALLOW == "allow"
KILL == "kill"
ENOSYS == "enosys"
DENY == "eperm"
NativeArch == {0}
X32 == {30}
AfInet == {1}
AfInet6 == {1, 3}
SockStream == {0}
SockDgram == {1}
SockFlags == {11, 19}
IpprotoTcp == {1, 2}
IpprotoUdp == {0, 4}
CloneOrdinary == {8, 9, 10, 11, 14, 16, 18, 19, 20, 21, 24} \cup 0 .. 6

\* Numbers of the calls with a policy of their own, and of one call of each listed group
Nr == [socket |-> {0}, clone |-> {1}, prctl |-> {0, 1}, ioctl |-> {2},
       arch_prctl |-> {0, 2}, clone3 |-> {2, 3}, io_uring |-> {0, 2, 3},
       file |-> {1, 2}, memory |-> {0, 1, 2}, process |-> {3}, event |-> {0, 3},
       peer |-> {1, 3}]
FileCalls == <<Nr.file>>
MemoryCalls == <<Nr.memory>>
ProcessCalls == <<Nr.process>>
EventCalls == <<Nr.event>>
PeerCalls == <<Nr.peer>>

Conditional(nr, body) == Jump("jeq", nr, 0, Len(body)) \o body

(* An option in a list: compare, allow, and go on to the next. *)
Allowing(options) ==
    [i \in 1 .. 2 * Len(options) |->
        IF i % 2 = 1 THEN Jump("jeq", options[(i + 1) \div 2], 0, 1)[1]
                     ELSE Statement("ret", ALLOW)[1]]

ArgumentOptions(field, options) ==
    Statement("ld", field) \o Allowing(options) \o Statement("ret", DENY)

SocketPolicy ==
    Statement("ld", "arg0") \o
    Jump("jeq", AfInet, 2, 0) \o
    Jump("jeq", AfInet6, 1, 0) \o
    Statement("ret", DENY) \o
    Statement("ld", "arg1") \o
    Statement("and", Bits \ SockFlags) \o
    Jump("jeq", SockStream, 0, 5) \o
    Statement("ld", "arg2") \o
    Jump("jeq", {}, 2, 0) \o
    Jump("jeq", IpprotoTcp, 1, 0) \o
    Statement("ret", DENY) \o
    Statement("ret", ALLOW) \o
    Jump("jeq", SockDgram, 0, 5) \o
    Statement("ld", "arg2") \o
    Jump("jeq", {}, 2, 0) \o
    Jump("jeq", IpprotoUdp, 1, 0) \o
    Statement("ret", DENY) \o
    Statement("ret", ALLOW) \o
    Statement("ret", DENY)

ClonePolicy ==
    Statement("ld", "high0") \o
    Jump("jeq", {}, 1, 0) \o
    Statement("ret", DENY) \o
    Statement("ld", "arg0") \o
    Jump("jset", Bits \ CloneOrdinary, 0, 1) \o
    Statement("ret", DENY) \o
    Statement("ret", ALLOW)

\* One option of prctl, of ioctl and of arch_prctl stands for each list
PrctlOptions == <<{0}, {1}>>
IoctlOptions == <<{0, 1}>>
ArchPrctlOptions == <<{2}>>

FilterProgram ==
    Statement("ld", "arch") \o
    Jump("jeq", NativeArch, 1, 0) \o
    Statement("ret", KILL) \o
    Statement("ld", "nr") \o
    Jump("jset", X32, 0, 1) \o
    Statement("ret", KILL) \o
    Conditional(Nr.socket, SocketPolicy) \o
    Conditional(Nr.clone, ClonePolicy) \o
    Conditional(Nr.prctl, ArgumentOptions("arg0", PrctlOptions)) \o
    Conditional(Nr.ioctl, ArgumentOptions("arg1", IoctlOptions)) \o
    Conditional(Nr.arch_prctl, ArgumentOptions("arg0", ArchPrctlOptions)) \o
    Allowing(FileCalls \o MemoryCalls \o ProcessCalls \o EventCalls \o PeerCalls) \o
    Statement("ret", ENOSYS)

(* The kernel's machine: one accumulator, forward jumps, a returned verdict. *)
(* What instruction i at pc leads to, if `later' is what follows does.       *)
Execute(i, pc, acc, data, later) ==
    CASE i.op = "ret"  -> i.k
      [] i.op = "ld"   -> later[pc + 1][data[i.k]]
      [] i.op = "and"  -> later[pc + 1][acc \cap i.k]
      [] i.op = "jeq"  -> later[pc + 1 + (IF acc = i.k THEN i.jt ELSE i.jf)][acc]
      [] i.op = "jset" -> later[pc + 1 + (IF acc \cap i.k # {} THEN i.jt ELSE i.jf)][acc]
Interpret(data) ==
    LET exec[pc \in 1 .. Len(FilterProgram)] ==
            [acc \in SUBSET Bits |-> Execute(FilterProgram[pc], pc, acc, data, exec)]
    IN exec[1][{}]

(* What the filter is meant to say (the module's comments and its tests).  *)
Policy(d) ==
    LET kind == d.arg1 \ SockFlags IN
    CASE d.arch # NativeArch \/ X32 \cap d.nr # {} -> KILL
      [] d.arch = NativeArch /\ d.nr = Nr.socket ->
            IF /\ d.arg0 \in {AfInet, AfInet6}
               /\ \/ kind = SockStream /\ d.arg2 \in {{}, IpprotoTcp}
                  \/ kind = SockDgram /\ d.arg2 \in {{}, IpprotoUdp}
            THEN ALLOW ELSE DENY
      [] d.arch = NativeArch /\ d.nr = Nr.clone ->
            IF d.high0 = {} /\ d.arg0 \subseteq CloneOrdinary THEN ALLOW ELSE DENY
      [] d.arch = NativeArch /\ d.nr = Nr.prctl ->
            IF d.arg0 \in {{0}, {1}} THEN ALLOW ELSE DENY
      [] d.arch = NativeArch /\ d.nr = Nr.ioctl ->
            IF d.arg1 = {0, 1} THEN ALLOW ELSE DENY
      [] d.arch = NativeArch /\ d.nr = Nr.arch_prctl ->
            IF d.arg0 = {2} THEN ALLOW ELSE DENY
      [] d.arch = NativeArch /\ d.nr \in {Nr.file, Nr.memory, Nr.process, Nr.event, Nr.peer} ->
            ALLOW
      [] OTHER -> ENOSYS

-----------------------------------------------------------------------------

Fresh == [what |-> "none"]

CheckInit == tried = Fresh

InspectFilters(case) ==
    /\ tried = Fresh
    /\ tried' = [what |-> "filters", case |-> case, accepted |-> Filters(case)]

InspectDeclarations(case) ==
    /\ tried = Fresh
    /\ tried' = [what |-> "declared", case |-> case, accepted |-> Declarations(case)]

MakeSystemCall(data) ==
    /\ tried = Fresh
    /\ tried' = [what |-> "call", data |-> data, verdict |-> Interpret(data)]

Forget == tried # Fresh /\ tried' = Fresh

\* The cases of the inspection.
AttestedFilters ==
    /\ (tried.what = "declared" /\ tried.accepted) =>
        FoldedPeers(tried.case) = tried.case.allowed
    /\ (tried.what = "filters" /\ tried.accepted) =>
        LET c == tried.case IN
        /\ \A peer \in Peers, iface \in Interfaces :
              Reaches(c, peer, iface) => peer \in c.allowed /\ iface # Loopback
        /\ \A peer \in c.allowed : \A id \in {c.direct[i] : i \in DOMAIN c.direct} :
              Admits(c.programs[id], peer, External)

(* Filters the gate accepts let a packet of the tree through only to an    *)
(* approved peer and not over the loopback interface, whatever programs of *)
(* ancestors run beside them; the pair itself refuses no approved peer on  *)
(* another interface; and declarations it accepts make the manager build   *)
(* filters that admit the approved peers alone (native.rs filters,         *)
(* attest_properties).  Every system call gets from the emitted program,   *)
(* jump by jump, the verdict the policy gives it: foreign and x32 calls    *)
(* are killed, sockets are TCP or UDP over IP, clone makes no namespace,   *)
(* what is not listed does not exist (filter.rs filter_program).           *)
ConfinesExactly ==
    /\ AttestedFilters
    /\ tried.what = "call" => tried.verdict = Policy(tried.data)
=============================================================================
