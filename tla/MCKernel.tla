------------------------------ MODULE MCKernel ------------------------------
(***************************************************************************)
(* What rests on the kernel: the verdicts the connect hooks refuse by, the *)
(* load of the programs over what an earlier daemon left, the offsets read *)
(* from the kernel's type information, and the confinement of an           *)
(* application with the two decisions it rests on.  One of these parts is  *)
(* at work in a behaviour, the others wait in one initial state.           *)
(***************************************************************************)
EXTENDS KernelDeny, KernelLoad, Btf, Confinement, ConfineCheck

CONSTANT Parts      \* the parts a run looks at
VARIABLE part

\* KernelDeny: two programs and a link to the first.  At first the other program
\* and a name that is only the link are refused, then the first program for one
\* user, which is not compilable: an edit takes entries away and adds refusals.
MCTarget == [n \in Names |-> IF n = "link" THEN "app" ELSE n]
MCRules == [denies |-> {"tool", "link"}, uidScoped |-> {}]
MCRuleSets == {MCRules, [denies |-> {"app"}, uidScoped |-> {"app"}]}

\* KernelLoad: kernels that lack this or that, or keep a field elsewhere.
MCField(n, f, s, o) == [name |-> n, form |-> f, size |-> s, offset |-> o]
MCPid == MCField("pid", "int", 4, 8)
MCFull == [bpffs |-> TRUE, cgroup2 |-> TRUE, cookie |-> TRUE, fdLink |-> TRUE, tracefs |-> TRUE, btf |-> TRUE,
           execFormat |-> <<MCPid, MCField("filename", "data_loc", 4, 12)>>,
           exitFormat |-> <<MCPid, MCField("group_dead", "bool", 1, 16)>>]
MCKernels ==
  {MCFull,
   [MCFull EXCEPT !.cookie = FALSE, !.fdLink = FALSE, !.exitFormat = <<MCPid>>],
   [MCFull EXCEPT !.bpffs = FALSE, !.tracefs = FALSE, !.btf = FALSE],
   [MCFull EXCEPT !.cgroup2 = FALSE, !.execFormat = <<MCField("filename", "data_loc", 4, 65)>>,
                  !.exitFormat = <<MCField("group_dead", "bool", 1, 65)>>],
   [MCFull EXCEPT !.execFormat = <<MCField("filename", "rel_loc", 4, 8)>>,
                  !.exitFormat = <<MCField("group_dead", "bool", 1, 64)>>],
   [MCFull EXCEPT !.execFormat = <<MCPid>>, !.exitFormat = <<MCField("group_dead", "int", 4, 16)>>]}

\* Btf: every kind of type before task_struct, in lists of up to three.
MCType(k, n, v) == [kind |-> k, name |-> n, flag |-> 0, vlen |-> v,
                    members |-> [i \in 1..v |-> [name |-> 10 + i, offset |-> 4 * i, width |-> 0]]]
MCPlain == {MCType(Kinds[k], n, v) : k \in DOMAIN Kinds, n \in {5, 9}, v \in 0..2}
MCTask == {[kind |-> Kinds.STRUCT, name |-> 5, flag |-> f, vlen |-> Len(m), members |-> m] :
             f \in {0, 1},
             m \in {<<[name |-> a, offset |-> 4, width |-> w], [name |-> b, offset |-> 8, width |-> 3]>> :
                      a \in {11, 12, 13}, b \in {11, 12, 13}, w \in {0, 2}}}
MCTypeLists == {<<>>} \cup {<<t>> : t \in MCTask} \cup {<<a, t>> : a \in MCPlain, t \in MCTask}
                 \cup {<<a, b, t>> : a, b \in MCPlain, t \in {MCType(Kinds.STRUCT, 5, 2)}}
MCWanted == <<11, 12>>

\* ConfineCheck: maps, attachments, declarations and system calls.
MCPrefixes == {{0}, {1}, {2}, {0, 1}, Addresses}
MCKeySeqs == {<<>>} \cup {<<p>> : p \in MCPrefixes}
               \cup {s \in {<<p, q>> : p, q \in MCPrefixes} : s[1] # s[2]}
MCMaps == {[family |-> f, mapName |-> f, keys |-> k] : f \in Families, k \in MCKeySeqs}
MCAllowed == SUBSET {Peer(f, a) : f \in Families, a \in {0, 1}}
MCHost(f, A) == LET as == {p.addr : p \in {q \in A : q.family = f}} IN
    IF as = {} THEN <<>>
    ELSE <<[family |-> f, mapName |-> f,
            keys |-> IF as = {0, 1} THEN <<{0}, {1}>> ELSE <<as>>]>>
MCIp(maps) == [name |-> "sd_fw", maps |-> maps]
MCGoodIp(A) == MCIp(MCHost(4, A) \o MCHost(6, A))
MCInterface(keys, m) == [name |-> "sd_restrictif", maps |-> [keys |-> keys, mode |-> m]]
MCGoodInterface == MCInterface(<<Loopback>>, 0)
MCOther == [name |-> "observer", maps |-> <<>>]
MCCase(A, d, e, ip, iface) == [allowed |-> A, direct |-> d, effective |-> e,
    programs |-> [id \in 1 .. 3 |-> IF id = 1 THEN ip ELSE IF id = 2 THEN iface ELSE MCOther]]
MCAttached == {<<>>} \cup {<<a>> : a \in 0 .. 3} \cup {<<a, b>> : a, b \in 0 .. 3}
                \cup {<<a, b, c>> : a, b, c \in 0 .. 3}

\* The maps of the address filter, those of the interface filter and the attachments vary in turn.
MCInspect ==
    \/ \E A \in MCAllowed, m \in {<<>>} \cup {<<x>> : x \in MCMaps} \cup (MCMaps \X MCMaps) :
          InspectFilters(MCCase(A, <<1, 2>>, <<3, 1, 2>>, MCIp(m), MCGoodInterface))
    \/ \E A \in MCAllowed, m \in {0, 1},
          k \in {<<>>, <<Loopback>>, <<External>>, <<Loopback, External>>, <<External, Loopback>>} :
          InspectFilters(MCCase(A, <<2, 1>>, <<1, 2>>, MCGoodIp(A), MCInterface(k, m)))
    \/ \E A \in {{}, {Peer(4, 0)}}, d \in MCAttached, e \in MCAttached :
          InspectFilters(MCCase(A, d, e, MCGoodIp(A), MCGoodInterface))

MCLists == {<<>>} \cup {<<[family |-> f, prefix |-> p]>> : f \in Families, p \in MCPrefixes}
             \cup {<<[family |-> 4, prefix |-> p], [family |-> f, prefix |-> q]>> :
                    f \in Families, p \in MCPrefixes, q \in MCPrefixes}
MCDeclare ==
    \E A \in MCAllowed, u \in MCLists, s \in {<<>>, <<[family |-> 4, prefix |-> {2}]>>},
       d \in BOOLEAN, e \in BOOLEAN :
       InspectDeclarations([allowed |-> A, unit |-> [allow |-> u, denyAny |-> d],
                            slices |-> <<[allow |-> s, denyAny |-> e],
                                         [allow |-> <<>>, denyAny |-> FALSE]>>])

MCCall(arch, nr, a0, a1, a2, h) ==
    [arch |-> arch, nr |-> nr, arg0 |-> a0, arg1 |-> a1, arg2 |-> a2, high0 |-> h]
MCCalls ==
    {MCCall(NativeArch, Nr.socket, a0, kind \cup flags, a2, h) :
        a0 \in {AfInet, AfInet6, {0}, {4}}, kind \in {SockStream, SockDgram, {0, 1}, {}},
        flags \in SUBSET {11, 19, 20}, a2 \in {{}, IpprotoTcp, IpprotoUdp, {0}}, h \in {{}, {0}}}
    \cup {MCCall(NativeArch, Nr.clone, a0, {}, {}, h) :
        a0 \in SUBSET {0, 4, 6, 7, 8, 16, 17, 30}, h \in {{}, {0}, {31}}}
    \cup {MCCall(arch, Nr[n] \cup x, a0, a1, {}, {}) :
        arch \in {NativeArch, {1}, {0, 1}}, n \in DOMAIN Nr, x \in {{}, X32},
        a0 \in {{}, {0}, {1}, {0, 1}, {2}}, a1 \in {{}, {0}, {0, 1}}}

\* At rest.
DenyRests == DenyInit /\ groupDead = TRUE /\ rules = MCRules
LoadRests == KernelInit /\ kernel = MCFull /\ hooks["exec"] = {} /\ refused = FALSE
TreeRests == ConfInit /\ right = Pieces

MCInit ==
    /\ part \in Parts /\ BtfInit /\ CheckInit
    /\ \/ part = "deny" /\ DenyInit /\ rules = MCRules /\ LoadRests /\ TreeRests
       \/ part = "load" /\ DenyRests /\ KernelInit /\ TreeRests
       \/ part = "tree" /\ DenyRests /\ LoadRests /\ ConfInit
       \/ part \in {"btf", "decisions"} /\ DenyRests /\ LoadRests /\ TreeRests

MCNext ==
    /\ UNCHANGED part
    /\ \/ part = "deny" /\ DenyNext /\ UNCHANGED <<kernelVars, btfVars, confVars, checkVars>>
       \/ part = "load" /\ KernelNext /\ UNCHANGED <<denyVars, btfVars, confVars, checkVars>>
       \/ part = "btf" /\ blob = NoBlob /\ BtfNext /\ UNCHANGED <<denyVars, kernelVars, confVars, checkVars>>
       \/ part = "tree" /\ ConfNext /\ UNCHANGED <<denyVars, kernelVars, btfVars, checkVars>>
       \/ /\ part = "decisions"
          /\ \/ tried = Fresh /\ MCInspect
             \/ tried = Fresh /\ MCDeclare
             \/ tried = Fresh /\ \E c \in MCCalls : MakeSystemCall(c)
             \/ Forget
          /\ UNCHANGED <<denyVars, kernelVars, btfVars, confVars>>

MCSpec == MCInit /\ [][MCNext]_<<part, denyVars, kernelVars, btfVars, confVars, checkVars>>
=============================================================================
