--------------------------- MODULE SockAttribution ---------------------------
(***************************************************************************)
(* From a queued packet to the inode of the socket that sent it: the first *)
(* half of process_resolve::socket_owner.  UDP needs one inode compatible  *)
(* with the flow across both tables of /proc/net; TCP asks sock_diag and   *)
(* falls back to the tables.  The diagnostic socket is kept between        *)
(* lookups, so an answer that comes after its timeout could be taken for   *)
(* the answer to a later request.                                          *)
(*                                                                         *)
(* Sockets open and close between any two reads.                           *)
(***************************************************************************)
EXTENDS Naturals, FiniteSets, Sequences

CONSTANTS
    SockSet,       \* sockets that may be open: [inode, proto, table, local, remote, listen, uid]
    FlowSet,       \* flows packets arrive for: [proto, src, dst]
    SeqMax,        \* where the request counter wraps (u32::MAX)
    MaxLookups, MaxSockChanges   \* bounds of the model

VARIABLES
    up,          \* the sockets open now
    sockChanges, lookups,
    look,        \* the lookup under way
    diag         \* this thread's netlink socket: open, its next number, requests unanswered, answers unread

sockVars == <<up, sockChanges, lookups, look, diag>>

NoInode == 0
NoLook == [pc |-> "idle", flow |-> <<>>, uid |-> <<>>, sender |-> NoInode, rows |-> {}, udp |-> NoInode,
           swapped |-> FALSE, info |-> <<>>, result |-> NoInode]
ClosedDiag(seq) == [open |-> FALSE, seq |-> seq, asked |-> <<>>, ready |-> <<>>]

(***************************************************************************)
(* Matching.  An endpoint is an address and a port; an address of a v6     *)
(* table may be a mapped v4 one.                                           *)
(***************************************************************************)

Canonical(ip) == ip.addr
Unspecified(ip) == Canonical(ip) = "any"
EndpointEq(a, b) == a.port = b.port /\ Canonical(a.ip) = Canonical(b.ip)
EndpointIsZero(a) == a.port = 0 /\ Unspecified(a.ip)

\* Rows of a flow's protocol that can name a process, and whose owner is the packet's.
Rows(entries, proto, uid) ==
    {e \in entries : e.proto = proto /\ e.inode # NoInode /\ (uid # <<>> => e.uid = uid[1])}

\* A UDP socket that could have sent to this peer from this port.
UdpCompatible(e, flow) ==
    /\ \/ EndpointEq(e.local, flow.src)
       \/ e.local.port = flow.src.port /\ Unspecified(e.local.ip)
    /\ EndpointEq(e.remote, flow.dst) \/ EndpointIsZero(e.remote)

\* A connected TCP socket of exactly this flow; never a listener.
TcpExact(e, flow) ==
    /\ ~e.listen /\ ~EndpointIsZero(e.remote)
    /\ EndpointEq(e.local, flow.src) /\ EndpointEq(e.remote, flow.dst)

\* scan_table_entries: for UDP the one inode all compatible rows share, or none.
\* Faulty variant: the first compatible row wins.
ScanUdpFirst(entries, flow, uid) ==
    LET fits == {e.inode : e \in {r \in Rows(entries, "udp", uid) : UdpCompatible(r, flow)}} IN
    IF fits = {} THEN NoInode ELSE CHOOSE i \in fits : \A j \in fits : i <= j
ScanUdp(entries, flow, uid) ==
    LET fits == {e.inode : e \in {r \in Rows(entries, "udp", uid) : UdpCompatible(r, flow)}} IN
    IF \E i \in fits : fits = {i} THEN CHOOSE i \in fits : TRUE ELSE NoInode

ScanTcp(entries, flow, uid) ==
    LET fits == {e.inode : e \in {r \in Rows(entries, "tcp", uid) : TcpExact(r, flow)}} IN
    IF fits = {} THEN NoInode ELSE CHOOSE i \in fits : TRUE

\* The tables a flow's socket may be in: a dual-stack socket carries v4 flows.
TableNames(flow) == IF flow.src.ip.v4 THEN <<"v4", "v6">> ELSE <<"v6">>

RowsOf(table) == {s \in up : s.table = table}

\* The kernel's side: a connected tuple belongs to one socket, and only v4 flows
\* are sent from the v4 table.
ASSUME SockAssumption ==
    /\ SeqMax \in Nat \ {0}
    /\ \A f \in FlowSet : f.proto \in {"udp", "tcp"} /\ f.src.ip.v4 \in BOOLEAN
    /\ \A f \in FlowSet : \A s, t \in SockSet :
         s.proto = "tcp" /\ t.proto = "tcp" /\ TcpExact(s, f) /\ TcpExact(t, f) => s.inode = t.inode
    /\ \A f \in FlowSet : \A s \in SockSet :
         s.proto = "udp" /\ UdpCompatible(s, f) => s.table = "v6" \/ (s.table = "v4" /\ f.src.ip.v4)

(***************************************************************************)
(* sock_diag.                                                              *)
(***************************************************************************)

\* What the kernel finds for an exact request: the connected socket, or else a
\* listener of its port; for UDP any one compatible socket.
KernelFinds(flow) ==
    LET exact == {s \in up : s.proto = "tcp" /\ TcpExact(s, flow)}
        port == {s \in up : s.proto = "tcp" /\ s.listen /\ s.local.port = flow.src.port}
        udp == {s \in up : s.proto = "udp" /\ UdpCompatible(s, flow)} IN
    IF flow.proto = "udp" THEN udp ELSE IF exact # {} THEN exact ELSE port

\* parse_response: a TCP listener and inode zero are "not found".
Parsed(s) == IF s.inode = NoInode \/ (s.proto = "tcp" /\ s.listen) THEN <<>> ELSE <<s>>

NextSeq(seq) == IF seq = SeqMax THEN 1 ELSE seq + 1

\* What an answer made now would hold; for UDP the kernel may also miss.
Answers(flow) ==
    {Parsed(s) : s \in KernelFinds(flow)}
      \cup (IF KernelFinds(flow) = {} \/ flow.proto = "udp" THEN {<<>>} ELSE {})

\* query: UDP is asked a second time with the endpoints swapped.
AfterAsk(info) ==
    IF info = <<>> /\ look.flow.proto = "udp" /\ ~look.swapped
    THEN [[look EXCEPT !.swapped = TRUE] EXCEPT !.pc = "ask"]
    ELSE [[look EXCEPT !.info = info] EXCEPT !.pc = "asked"]

\* ask: send on this thread's socket, opening one if needed.
DiagSend ==
    /\ look.pc = "ask"
    /\ \E found \in Answers(look.flow) :
         diag' = [open |-> TRUE, seq |-> NextSeq(diag.seq), ready |-> diag.ready,
                  asked |-> Append(diag.asked, [seq |-> diag.seq, flow |-> look.flow, found |-> found])]
    /\ look' = [look EXCEPT !.pc = "recv"]
    /\ UNCHANGED <<up, sockChanges, lookups>>

KernelAnswers ==
    /\ diag.asked # <<>>
    /\ diag' = [[diag EXCEPT !.asked = Tail(@)] EXCEPT !.ready = Append(@, Head(diag.asked))]
    /\ UNCHANGED <<up, sockChanges, lookups, look>>

\* A socket that failed, timed out or answered something else is thrown away, and
\* what is queued on it with it.
Desynced(d) == ClosedDiag(d.seq)

\* The socket cannot be opened, or the send fails.
DiagSendFails ==
    /\ look.pc = "ask"
    /\ diag' = Desynced([diag EXCEPT !.seq = NextSeq(@)])
    /\ look' = AfterAsk(<<>>)
    /\ UNCHANGED <<up, sockChanges, lookups>>

\* exchange: the answer must carry this request's number.
DiagRecv ==
    LET reply == Head(diag.ready)
        mine == IF diag.seq = 1 THEN SeqMax ELSE diag.seq - 1
        taken == [diag EXCEPT !.ready = Tail(@)] IN
    /\ look.pc = "recv" /\ diag.ready # <<>>
    /\ \/ /\ reply.seq = mine
          /\ diag' = taken
          /\ look' = AfterAsk([i \in 1..Len(reply.found) |->
                        [inode |-> reply.found[i].inode, uid |-> reply.found[i].uid, flow |-> reply.flow]])
       \/ /\ reply.seq # mine
          /\ diag' = Desynced(taken)
          /\ look' = AfterAsk(<<>>)
    /\ UNCHANGED <<up, sockChanges, lookups>>

DiagTimesOut ==
    /\ look.pc = "recv" /\ diag.ready = <<>>
    /\ diag' = Desynced(diag)
    /\ look' = AfterAsk(<<>>)
    /\ UNCHANGED <<up, sockChanges, lookups>>

(***************************************************************************)
(* socket_owner, up to the inode.                                          *)
(***************************************************************************)

\* The packet's sender is one of the open sockets; its uid may not be reported.
LookupBegin(flow, s) ==
    /\ look.pc = "idle" /\ lookups < MaxLookups
    /\ s.proto = flow.proto
    /\ IF flow.proto = "udp" THEN UdpCompatible(s, flow) ELSE TcpExact(s, flow)
    /\ lookups' = lookups + 1
    /\ \E uid \in {<<>>, <<s.uid>>} :
         look' = [pc |-> IF flow.proto = "udp" THEN "table1" ELSE "ask",
                  flow |-> flow, uid |-> uid, sender |-> s.inode, rows |-> {}, udp |-> NoInode,
                  swapped |-> FALSE, info |-> <<>>, result |-> NoInode]
    /\ UNCHANGED <<up, sockChanges, diag>>

\* udp_inode_from_tables, table by table; one that cannot be read ends it.
ReadUdpTable(i) ==
    /\ look.pc = (IF i = 1 THEN "table1" ELSE "table2") /\ look.flow.proto = "udp"
    /\ i <= Len(TableNames(look.flow))
    /\ LET rows == look.rows \cup RowsOf(TableNames(look.flow)[i])
           inode == ScanUdp(rows, look.flow, look.uid) IN
       IF i < Len(TableNames(look.flow))
       THEN look' = [[look EXCEPT !.rows = rows] EXCEPT !.pc = "table2"]
       ELSE look' = [[[look EXCEPT !.rows = {}] EXCEPT !.udp = inode]
                       EXCEPT !.pc = IF inode = NoInode THEN "done" ELSE "ask"]
    /\ UNCHANGED <<up, sockChanges, lookups, diag>>

\* The 50 ms budget ends, or a UDP table cannot be read: the owner stays unknown.
BudgetExpires ==
    /\ look.pc \in {"table1", "table2"}
    /\ look' = [[[look EXCEPT !.rows = {}] EXCEPT !.result = NoInode] EXCEPT !.pc = "done"]
    /\ UNCHANGED <<up, sockChanges, lookups, diag>>

\* The diagnosed socket counts when its owner and, for UDP, its inode agree.
AcceptInfo ==
    LET ok == /\ look.info # <<>>
              /\ look.uid # <<>> => look.info[1].uid = look.uid[1]
              /\ look.udp # NoInode => look.info[1].inode = look.udp IN
    /\ look.pc = "asked"
    /\ look' = CASE look.udp # NoInode -> [[look EXCEPT !.result = look.udp] EXCEPT !.pc = "done"]
                 [] look.udp = NoInode /\ ok -> [[look EXCEPT !.result = look.info[1].inode] EXCEPT !.pc = "done"]
                 [] OTHER -> [[look EXCEPT !.info = <<>>] EXCEPT !.pc = "table1"]
    /\ UNCHANGED <<up, sockChanges, lookups, diag>>

\* proc_net_inode for TCP: the first table with the tuple; an unreadable one is skipped.
ReadTcpTable(i, readable) ==
    /\ look.pc = (IF i = 1 THEN "table1" ELSE "table2") /\ look.flow.proto = "tcp"
    /\ i <= Len(TableNames(look.flow))
    /\ LET inode == IF readable THEN ScanTcp(RowsOf(TableNames(look.flow)[i]), look.flow, look.uid)
                    ELSE NoInode IN
       look' = [[look EXCEPT !.result = inode]
                  EXCEPT !.pc = IF inode = NoInode /\ i < Len(TableNames(look.flow)) THEN "table2" ELSE "done"]
    /\ UNCHANGED <<up, sockChanges, lookups, diag>>

LookupEnds ==
    /\ look.pc = "done"
    /\ look' = NoLook
    /\ UNCHANGED <<up, sockChanges, lookups, diag>>

SockOpens(s) ==
    /\ sockChanges < MaxSockChanges /\ s \notin up
    /\ sockChanges' = sockChanges + 1 /\ up' = up \cup {s}
    /\ UNCHANGED <<lookups, look, diag>>

SockCloses(s) ==
    /\ sockChanges < MaxSockChanges /\ s \in up
    /\ sockChanges' = sockChanges + 1 /\ up' = up \ {s}
    /\ look' = IF look.sender = s.inode THEN [look EXCEPT !.sender = NoInode] ELSE look
    /\ UNCHANGED <<lookups, diag>>

SockInit == up = SockSet /\ sockChanges = 0 /\ lookups = 0 /\ look = NoLook /\ diag = ClosedDiag(1)

SockNext ==
    \/ \E f \in FlowSet, s \in up : LookupBegin(f, s)
    \/ \E i \in 1..2 : ReadUdpTable(i) \/ \E ok \in BOOLEAN : ReadTcpTable(i, ok)
    \/ BudgetExpires \/ DiagSend \/ DiagSendFails \/ KernelAnswers \/ DiagRecv \/ DiagTimesOut
    \/ AcceptInfo \/ LookupEnds
    \/ \E s \in SockSet : SockOpens(s) \/ SockCloses(s)

(***************************************************************************)
(* Properties.                                                             *)
(***************************************************************************)

\* socket_owner, sock_diag::ask: while the socket that sent the packet stays open, the
\* lookup names it or nothing, however other sockets open and close between its
\* reads and however late the kernel answers; "a late answer to a request that had
\* already timed out" is never taken for the answer to the one just made.
NotMisattributed ==
    /\ look.pc = "done" /\ look.sender # NoInode => look.result \in {NoInode, look.sender}
    /\ look.info # <<>> => look.info[1].flow = look.flow
==============================================================================
