------------------------------ MODULE MCDecide ------------------------------
(***************************************************************************)
(* What is decided of a packet, and on what: the walk of the rules, the    *)
(* answer a rejected packet gets and the names the DNS answers give, one   *)
(* of the three at work in a behaviour while the others rest.              *)
(***************************************************************************)
EXTENDS RuleEval, Refusal, DnsSnoop

-----------------------------------------------------------------------------
(* Rule lists: every set of at most MaxRules rules of a universe of shapes, *)
(* in the order sort_deterministic gives them.                              *)

CONSTANT MaxRules

\* x, h, u: an executable, a digest and a user that rules name; a process may
\* have others.  Rules differ in every predicate the walk tells apart; Reject
\* is left to the inbound and disabled ones, to keep the universe small.
Shapes ==
  [live : {TRUE}, action : {"Allow", "Deny"}, dir : {None}, exe : {None, "x"},
   hash : {None, "h"}, uid : {None, "u"}, host : {FALSE}, net : {None},
   port : {None, 1}, born : {1}]
LegacyShapes ==
  [live : {TRUE}, action : {"Allow", "Deny"}, dir : {None}, exe : {None},
   hash : {None}, uid : {None}, host : {TRUE}, net : {None}, port : {None},
   born : {1}]
OtherShapes ==
  [live : {TRUE, FALSE}, action : {"Allow", "Reject"}, dir : {None, "in"}, exe : {None},
   hash : {None}, uid : {None}, host : {FALSE}, net : {Addrs}, port : {1},
   born : {1}]
Universe == Shapes \cup LegacyShapes \cup OtherShapes

Sorted(s) == \A j \in 1..(Len(s) - 1) : Precedes(s[j], s[j + 1])

\* Two rules of one shape and rank differ in age only; born breaks the tie.
Aged(s) == [j \in 1..Len(s) |-> [s[j] EXCEPT !.born = j]]

MCRuleLists ==
  {s \in {Aged(t) : t \in UNION {[1..n -> Universe] : n \in 1..MaxRules}} : Sorted(s)}

MCProcs == {q \in Process : q.exe # "y" /\ q.hash # "g" /\ q.uid # "v"}
MCConns == {c \in Connection : c.dir = "out" \/ c.port = 1}

\* The walk at rest.
WalkRests ==
  /\ rules = <<>> /\ conn = (CHOOSE c \in Conns : TRUE) /\ proc = (CHOOSE q \in Procs : TRUE)
  /\ i = 1 /\ undecided = 0 /\ genericAllow = 0 /\ winner = 0
  /\ maybeAllow = FALSE /\ maybeClosed = FALSE /\ pc = "done"

-----------------------------------------------------------------------------
(* Packets to refuse *)

MCExt(k, s, f) == [kind |-> k, size |-> s, fragOffset |-> f]
MCHeaders == {MCExt("options", 8, 0), MCExt("options", 16, 0), MCExt("auth", 24, 0), MCExt("auth", 12, 0),
              MCExt("fragment", 8, 0), MCExt("fragment", 8, 1)}
MCChains == {<<>>} \cup {<<a>> : a \in MCHeaders} \cup {<<a, b>> : a, b \in MCHeaders}
              \cup {<<MCExt("options", 8, 0), MCExt("auth", 12, 0), b>> : b \in MCHeaders}

MCSyn == [dir |-> "out", version |-> 4, src |-> "here", dst |-> "there", options |-> 0, exts |-> <<>>,
           upper |-> "tcp", tcpOptions |-> 0, flags |-> {"SYN"}, seq |-> 5, ack |-> 0, len |-> 0, cut |-> 0,
           pseudo |-> <<1, 3>>, payload |-> <<2>>]
MCTcp == {[MCSyn EXCEPT !.flags = f, !.seq = s, !.ack = a, !.len = l, !.cut = c, !.tcpOptions = o] :
            f \in {{"SYN"}, {"SYN", "ACK"}, {"ACK"}, {"ACK", "FIN"}, {"RST"}, {"RST", "ACK"}},
            s \in {0, 6, 7}, a \in {0, 7}, l \in {0, 2}, c \in {0, 1, 17}, o \in {0, 4}}
MCV4 == {[MCSyn EXCEPT !.upper = u, !.options = o, !.cut = c, !.src = a, !.dst = d, !.payload = b] :
            u \in {"tcp", "udp", "icmp"}, o \in {-4, 0, 4}, c \in {0, 1, 4, 8}, a \in {"here", "any"},
            d \in {"there", "group"}, b \in {<<>>, <<3>>, <<3, 3, 3>>}}
MCV6 == {[MCSyn EXCEPT !.version = 6, !.exts = e, !.upper = u, !.cut = c, !.payload = <<3, 1, 2>>] :
            e \in MCChains, u \in {"tcp", "udp", "icmp"}, c \in {0, 3, 5, 25}}
MCIn == {[MCSyn EXCEPT !.dir = "in", !.upper = u, !.src = "there", !.dst = d] :
            u \in {"tcp", "udp", "icmp"}, d \in {"here", "group"}}
MCPackets == MCTcp \cup MCV4 \cup MCV6 \cup MCIn

\* An answer to a local program does not touch the budget: every such packet is
\* tried once, on a fresh daemon, and one of them among the others later.
RefusalTries ==
  \/ /\ sent.packet \in MCIn \cup {MCSyn, NoAnswer} /\ Tick
  \/ /\ sent.packet \in MCIn \cup {MCSyn} /\ \E p \in MCIn \cup {MCSyn} : Reject(p)
  \/ /\ sent.packet = NoAnswer /\ now = 0 /\ \E p \in MCPackets : Reject(p)

-----------------------------------------------------------------------------
(* DNS datagrams and responses *)

MCUdp == [version |-> 4, options |-> 0, proto |-> "udp", fragOffset |-> 0, srcPort |-> 53, qr |-> TRUE,
           skbLen |-> 100, udpLen |-> 80]
MCLens == (0..120) \cup (180..200) \cup (500..600)
MCWith(l, u, v, o) == [MCUdp EXCEPT !.skbLen = l, !.udpLen = u, !.version = v, !.options = o]
MCDatagrams ==
  {MCWith(l, u, v, o) : l \in MCLens, u \in {7, 8, 12, 20, 21, 71, 72, 73, 136, 519, 520, 600},
                        v \in {4}, o \in {-4, 0, 4, 40}}
    \cup {MCWith(l, u, 6, 0) : l \in MCLens, u \in 18..100}
    \cup {[MCWith(l, 40, 4, 0) EXCEPT !.proto = p, !.fragOffset = f, !.srcPort = s, !.qr = q] :
            l \in {39, 40, 41, 200}, p \in {"udp", "tcp"}, f \in {0, 1}, s \in {53, 80}, q \in BOOLEAN}

MCA == <<<<3>>>>
MCBA == <<<<4>>, <<3>>>>
MCCBA == <<<<3, 4>>, <<4>>, <<3>>>>
MCLong == <<<<4, 4>>, <<4, 4>>, <<4, 4>>>>
MCDCBA == <<<<5>>, <<4>>, <<4>>, <<3>>>>
MCEDCBA == <<<<6>>>> \o MCDCBA
MCAnswers == {[owner |-> n, type |-> t.type, class |-> t.class, data |-> t.data] :
                n \in {MCA, MCBA, MCCBA, MCLong},
                t \in {[type |-> TypeA, class |-> ClassIn, data |-> <<1>>],
                       [type |-> TypeAAAA, class |-> ClassIn, data |-> <<2, 9>>],
                       [type |-> 5, class |-> ClassIn, data |-> <<9, 0>>],
                       [type |-> TypeA, class |-> 3, data |-> <<1>>]}}
MCResponses ==
  {[questions |-> q, answers |-> a, rcode |-> 0, compress |-> z] :
     q \in {<<MCA>>, <<MCBA>>, <<MCCBA>>, <<>>},
     a \in {<<x>> : x \in MCAnswers} \cup {<<x, y>> : x, y \in MCAnswers}
             \cup {<<x, x, y>> : x, y \in MCAnswers},
     z \in BOOLEAN}
  \cup {[questions |-> <<MCA, MCBA, MCA>>, answers |-> <<x>>, rcode |-> 0, compress |-> TRUE] : x \in MCAnswers}
  \cup {[questions |-> <<MCA>>, answers |-> <<x>>, rcode |-> 3, compress |-> TRUE] : x \in MCAnswers}
  \cup {[questions |-> <<q>>, rcode |-> 0, compress |-> z,
         answers |-> <<[owner |-> n, type |-> TypeA, class |-> ClassIn, data |-> <<1>>]>>] :
           q \in {MCA, MCEDCBA}, n \in {MCA, MCDCBA}, z \in BOOLEAN}

\* The packets and the responses are tried one at a time: neither program keeps
\* state between two of them but the ring, which is filled with one response.
MCRepeat == [questions |-> <<MCBA>>, compress |-> TRUE, rcode |-> 0,
             answers |-> <<[owner |-> MCBA, type |-> TypeA, class |-> ClassIn, data |-> <<1>>]>>]
DnsTries ==
  \/ /\ ring = <<>> /\ told.record = NoName /\ capture.packet = NoName
     /\ \/ \E d \in Datagrams : Ingress(d)
        \/ \E r \in Responses : \E n \in 0..Len(Body(r)) : PublishPayload(r, n)
  \/ /\ ring # <<>> /\ ring[1].response = MCRepeat /\ PublishPayload(MCRepeat, 7)
  \/ Consume

-----------------------------------------------------------------------------
VARIABLE part

MCInit ==
  /\ DnsInit /\ RefusalInit
  /\ \/ part = "rules" /\ sockets = Sockets /\ Init
     \/ part = "refusal" /\ WalkRests
     \/ part = "dns" /\ sockets = Sockets /\ WalkRests

MCNext ==
  /\ UNCHANGED part
  /\ \/ part = "rules" /\ Next /\ UNCHANGED <<refusalVars, dnsVars>>
     \/ part = "refusal" /\ RefusalTries /\ UNCHANGED <<vars, dnsVars>>
     \/ part = "dns" /\ DnsTries /\ UNCHANGED <<vars, refusalVars>>

MCSpec == MCInit /\ [][MCNext]_<<part, vars, refusalVars, dnsVars>>
=============================================================================
