------------------------------ MODULE Refusal ------------------------------
(***************************************************************************)
(* What the worker does with a packet a rule rejects: parse the queued     *)
(* bytes (packet.rs), and forge the answer the peer would have sent        *)
(* (reject.rs): a TCP reset or an ICMP port-unreachable.  The header chain *)
(* is walked twice, by the parser and again to find the transport header.  *)
(* A packet is the layout its sender chose; the daemon sees the lengths as *)
(* the wire encodes them, and at most Cap(p) bytes of it.                  *)
(***************************************************************************)
EXTENDS Integers, SequencesExt

CONSTANTS
  Packets,        \* the packets that may be queued
  W,              \* size of the TCP sequence space (2^32 in the code)
  B,              \* values of a byte (256 in the code)
  MaxExtHeaders,  \* MAX_EXT_HEADERS
  TicksPerToken,  \* ticks of the clock that earn one token
  Burst,          \* INBOUND_REJECT_BURST
  MaxTime         \* bound on the clock

ASSUME RefusalAssumption ==
  /\ {W, B, MaxExtHeaders, TicksPerToken, Burst, MaxTime} \subseteq Nat \ {0}

\* A packet as its sender lays it out; cut is what the queue leaves away of it.
Bytes == Seq(0..(B - 1))
ExtHeaders == [kind : {"options", "auth", "fragment"}, size : Nat, fragOffset : Nat]
Layouts ==
  [dir : {"in", "out"}, version : {4, 6}, src : {"here", "there", "any", "group"},
   dst : {"here", "there", "any", "group"}, options : Int, exts : Seq(ExtHeaders),
   upper : {"tcp", "udp", "icmp"}, tcpOptions : Nat, flags : SUBSET {"SYN", "ACK", "FIN", "RST"},
   seq : Nat, ack : Nat, len : Nat, cut : Nat, pseudo : Bytes, payload : Bytes]

\* The units in which the length byte of each kind of header counts (RFC 8200, RFC 4302).
Sizable(h) ==
  CASE h.kind = "auth" -> h.size % 4 = 0 [] h.kind = "fragment" -> h.size = 8 [] OTHER -> h.size % 8 = 0

\* Only IPv6 chains headers, and every segment acknowledges but the first of a
\* connection and resets (RFC 9293).
ASSUME PacketAssumption ==
  \A p \in Packets :
    /\ p \in Layouts
    /\ p.version = 4 => p.exts = <<>>
    /\ \A j \in DOMAIN p.exts : Sizable(p.exts[j])
    /\ p.upper = "tcp" /\ p.flags \cap {"ACK", "RST"} = {} => p.flags \cap {"SYN", "FIN"} \in {{"SYN"}, {"FIN"}}

VARIABLES
  now,      \* the monotonic clock
  tokens,   \* Budget.tokens, in ticks: TicksPerToken of them make a token
  last,     \* Budget.last
  sockets,  \* the raw sockets that could be opened
  offBox,   \* refusals handed to the kernel for another host, per tick
  sent      \* the last packet handled, its outcome and the forged answer

refusalVars == <<now, tokens, last, sockets, offBox, sent>>

Sockets == {"v4", "v6", "icmp4", "icmp6"}
NoAnswer == [kind |-> "none"]

-----------------------------------------------------------------------------
(* The sender's layout.                                                    *)

V4Header == 20
V6Header == 40
TcpHeader == 20

\* Where header number i of the chain starts; number Len + 1 is the transport header.
TrueOffset(p, i) ==
  IF p.version = 4 THEN V4Header + p.options
  ELSE LET start[j \in 1..(Len(p.exts) + 1)] == IF j = 1 THEN V6Header ELSE start[j - 1] + p.exts[j - 1].size
       IN start[i]

TrueL4(p) == TrueOffset(p, Len(p.exts) + 1)

UpperSize(p) == (IF p.upper = "tcp" THEN TcpHeader + p.tcpOptions ELSE 8) + p.len

\* The bytes the queue hands over.
Cap(p) == TrueL4(p) + UpperSize(p) - p.cut

\* What the sender writes in the length byte: 8-octet units beyond the first
\* 8 octets, or for the authentication header 4-octet units less two.
LengthByte(h) == IF h.kind = "auth" THEN h.size \div 4 - 2 ELSE h.size \div 8 - 1

-----------------------------------------------------------------------------
(* The parser.                                                             *)

\* The length the walks compute from that byte.
DecodedLen(h) ==
  CASE h.kind = "auth" -> (LengthByte(h) + 2) * 4
    [] h.kind = "fragment" -> 8
    [] OTHER -> (LengthByte(h) + 1) * 8

Lost == 0

\* Where a walk looks for header i; once it has missed a header it is lost.
WalkOffset(p, i) ==
  LET off[j \in 1..(Len(p.exts) + 1)] ==
        IF j = 1 THEN V6Header
        ELSE IF off[j - 1] # TrueOffset(p, j - 1) THEN Lost
        ELSE off[j - 1] + DecodedLen(p.exts[j - 1])
  IN off[i]

\* Headers up to number n lie within the captured bytes.
Fits(p, n) == \A i \in 1..n : WalkOffset(p, i) + DecodedLen(p.exts[i]) <= Cap(p)

Unparsed == [proto |-> "error", off |-> Lost]

\* finalize: the ports are the first four bytes of the transport header.
Finalize(p, off) ==
  IF p.upper \in {"tcp", "udp"} /\ Cap(p) < off + 4 THEN Unparsed
  ELSE [proto |-> p.upper, off |-> off]

ParseV4(p) ==
  LET ihl == V4Header + p.options
  IN IF Cap(p) < V4Header \/ ihl < V4Header \/ Cap(p) < ihl THEN Unparsed ELSE Finalize(p, ihl)

\* A later fragment has no transport header: it ends the walk with no ports.
LaterFragments(p) == {i \in DOMAIN p.exts : p.exts[i].kind = "fragment" /\ p.exts[i].fragOffset # 0}

ParseV6(p) ==
  LET later == LaterFragments(p) \cap 1..(MaxExtHeaders + 1)
      n == Len(p.exts)
  IN IF Cap(p) < V6Header THEN Unparsed
     ELSE IF later # {}
       THEN IF Fits(p, Min(later)) THEN [proto |-> "other", off |-> Lost] ELSE Unparsed
     ELSE IF n > MaxExtHeaders \/ ~Fits(p, n) THEN Unparsed
     ELSE Finalize(p, WalkOffset(p, n + 1))

Parse(p) == IF p.version = 4 THEN ParseV4(p) ELSE ParseV6(p)

-----------------------------------------------------------------------------
(* The answer.                                                             *)

\* l4_offset: the second walk, which does not look at fragment offsets.
L4Offset(p) ==
  IF p.version = 4
    THEN IF Cap(p) < V4Header \/ p.options < 0 \/ Cap(p) < V4Header + p.options
           THEN Lost ELSE V4Header + p.options
    ELSE LET n == Len(p.exts)
         IN IF Cap(p) < V6Header \/ n > MaxExtHeaders \/ ~Fits(p, n)
              THEN Lost ELSE WalkOffset(p, n + 1)

\* (fault) the SYN is not counted.
RstWithoutSyn(p) ==
  IF "ACK" \in p.flags THEN [seq |-> p.ack, ack |-> 0, ackFlag |-> FALSE]
  ELSE [seq |-> 0, ack |-> (p.seq + p.len) % W, ackFlag |-> TRUE]

\* rst_fields: an acknowledging segment is answered at its acknowledgement
\* number; any other is acknowledged, SYN and FIN counting as one octet each.
RstFields(p) ==
  LET off == L4Offset(p)
      tcpLen == Cap(p) - off
      dataOffset == Min({TcpHeader + p.tcpOptions, tcpLen})
      octets == tcpLen - dataOffset + Cardinality(p.flags \cap {"SYN", "FIN"})
  IN IF "ACK" \in p.flags
       THEN [seq |-> p.ack, ack |-> 0, ackFlag |-> FALSE]
       ELSE [seq |-> 0, ack |-> (p.seq + octets) % W, ackFlag |-> TRUE]

MayReset(p) ==
  /\ L4Offset(p) # Lost
  /\ Cap(p) - L4Offset(p) >= TcpHeader
  /\ "RST" \notin p.flags

\* checksum16: the one's-complement sum of the concatenated parts.  A byte
\* left over at the end of one part is the high half of the next word.
AddByte(acc, byte) ==
  IF acc.pending = -1 THEN [acc EXCEPT !.pending = byte]
  ELSE [sum |-> acc.sum + acc.pending * B + byte, pending |-> -1]

\* The carries go round; twice is enough for B^2 words.
EndAround(sum) == (sum % (B * B)) + (sum \div (B * B))

AddPart(acc, part) ==
  LET upTo[n \in 0..Len(part)] == IF n = 0 THEN acc ELSE AddByte(upTo[n - 1], part[n])
  IN upTo[Len(part)]

Sum16(parts) ==
  LET upTo[n \in 0..Len(parts)] == IF n = 0 THEN [sum |-> 0, pending |-> -1] ELSE AddPart(upTo[n - 1], parts[n])
      acc == upTo[Len(parts)]
      sum == IF acc.pending = -1 THEN acc.sum ELSE acc.sum + acc.pending * B
  IN EndAround(EndAround(sum))

Checksum16(parts) == B * B - 1 - Sum16(parts)

\* An answer goes from the packet's destination to its source, ports swapped.
Envelope(p, kind, fields, quote, body, sum) ==
  [version |-> p.version, from |-> p.dst, to |-> p.src, kind |-> kind, fields |-> fields, quote |-> quote,
   body |-> body, sum |-> sum]

BuildTcpRst(p) == Envelope(p, "rst", RstFields(p), 0, <<>>, Checksum16(<<p.pseudo>>))

\* ICMPv4 quotes the header and 8 bytes and has no pseudo-header; ICMPv6
\* quotes all that fits and has one.
QuoteLen(p) == IF p.version = 4 THEN L4Offset(p) + 8 ELSE Cap(p)
CanQuote(p) == p.version = 6 \/ (L4Offset(p) # Lost /\ Cap(p) >= QuoteLen(p))

BuildIcmpPortUnreachable(p) ==
  Envelope(p, "unreachable", NoAnswer, QuoteLen(p), p.payload,
           Checksum16(IF p.version = 4 THEN <<p.payload>> ELSE <<p.pseudo, p.payload>>))

\* unicast_addressable: no group, broadcast or unspecified address, mapped or not.
UnicastAddressable(a) == a \in {"here", "there"}

\* send_raw: the kernel takes the packet or refuses it.
SendRaw(answer) ==
  {[outcome |-> "Sent", answer |-> answer], [outcome |-> "SendFailed", answer |-> NoAnswer]}

\* emit: the socket may be missing.
Emit(socket, answer) ==
  IF socket \in sockets THEN SendRaw(answer) ELSE {[outcome |-> "Unavailable", answer |-> NoAnswer]}

Unsupported == {[outcome |-> "Unsupported", answer |-> NoAnswer]}

RejectTcp(p) ==
  IF MayReset(p) THEN Emit(IF p.version = 4 THEN "v4" ELSE "v6", BuildTcpRst(p)) ELSE Unsupported

RejectUdp(p) ==
  IF CanQuote(p) THEN Emit(IF p.version = 4 THEN "icmp4" ELSE "icmp6", BuildIcmpPortUnreachable(p))
  ELSE Unsupported

Answers(p, proto) ==
  CASE proto = "tcp" -> RejectTcp(p) [] proto = "udp" -> RejectUdp(p) [] OTHER -> Unsupported

-----------------------------------------------------------------------------
(* The budget for refusals that leave the machine.                         *)

Refilled == Min({tokens + (now - last), Burst * TicksPerToken})

\* (fault) a successful take does not move the time of the last refill.
TakeKeepingLast ==
  /\ last' = IF Refilled >= TicksPerToken THEN last ELSE now
  /\ tokens' = IF Refilled >= TicksPerToken THEN Refilled - TicksPerToken ELSE Refilled

\* take_at: refill by the elapsed time, then spend one token if there is one.
TakeAt ==
  /\ last' = now
  /\ tokens' = IF Refilled >= TicksPerToken THEN Refilled - TicksPerToken ELSE Refilled

\* Rejecter::open: whatever could not be opened leaves that kind drop-only.
Open == sockets \in SUBSET Sockets

RefusalInit ==
  /\ now = 0 /\ last = 0 /\ tokens = Burst * TicksPerToken
  /\ Open
  /\ offBox = [t \in 0..MaxTime |-> 0]
  /\ sent = [outcome |-> "none", answer |-> NoAnswer, packet |-> NoAnswer]

Tick ==
  /\ now < MaxTime /\ now' = now + 1
  /\ UNCHANGED <<tokens, last, sockets, offBox, sent>>

\* reject, on a packet the worker parsed and a rule rejected.  An unanswerable
\* protocol has spent its token by the time it is found to be one.
Reject(p) ==
  LET conn == Parse(p)
      inbound == p.dir = "in"
      addressable == UnicastAddressable(p.src) /\ UnicastAddressable(p.dst)
  IN /\ conn.proto # "error"
     /\ \/ /\ ~addressable
           /\ sent' = [outcome |-> "Unsupported", answer |-> NoAnswer, packet |-> p]
           /\ UNCHANGED <<tokens, last, offBox>>
        \/ /\ addressable /\ inbound /\ TakeAt /\ Refilled < TicksPerToken
           /\ sent' = [outcome |-> "RateLimited", answer |-> NoAnswer, packet |-> p]
           /\ UNCHANGED offBox
        \/ /\ addressable
           /\ IF inbound THEN TakeAt /\ Refilled >= TicksPerToken ELSE UNCHANGED <<tokens, last>>
           /\ \E r \in Answers(p, conn.proto) :
                /\ sent' = [outcome |-> r.outcome, answer |-> r.answer, packet |-> p]
                /\ offBox' = IF inbound /\ r.outcome = "Sent" THEN [offBox EXCEPT ![now] = @ + 1] ELSE offBox
     /\ UNCHANGED <<now, sockets>>

RefusalNext == Tick \/ \E p \in Packets : Reject(p)

-----------------------------------------------------------------------------
(* Properties.                                                             *)

\* What the sender's TCP accepts as a reset: while it waits for its SYN to be
\* answered, an acknowledgement of something it sent; later, exactly the
\* sequence number it expects next, which it announced in the segment.
AcceptedBySender(p, f) ==
  IF "ACK" \in p.flags THEN f.seq = p.ack
  ELSE f.ackFlag /\ \E k \in 1..(p.len + 1) : f.ack = (p.seq + k) % W

\* A forged refusal does what Reject promises: the sender of the packet takes
\* it for its own connection.  It comes from the address dialled, its checksum
\* verifies, a reset is one the sender's TCP accepts, an unreachable quotes the
\* ports; and no reset answers a reset, a later fragment or a group address.
\* Both walks over the header chain must have found the header the sender wrote
\* (reject.rs: rst_fields "getting this wrong means the app's stack silently
\* discards the RST").
RefusalIsForItsSender ==
  LET p == sent.packet
      r == sent.answer
  IN sent.outcome = "Sent" =>
       /\ r.from = p.dst /\ r.to = p.src /\ {p.src, p.dst} \subseteq {"here", "there"}
       /\ Parse(p).off = TrueL4(p) /\ LaterFragments(p) = {}
       /\ Sum16((IF r.kind = "unreachable" /\ p.version = 4 THEN <<>> ELSE <<p.pseudo>>)
                  \o <<r.body>>) + r.sum = B * B - 1
       /\ r.kind = "rst" => "RST" \notin p.flags /\ AcceptedBySender(p, r.fields)
       /\ r.kind = "unreachable" => r.quote >= TrueL4(p) + 4

\* The refusals of ticks 0..n-1, for every n (a recursive function, so that facts
\* about it can be proved).
SentBefore(perTick) ==
  LET total[n \in 0..(MaxTime + 1)] == IF n = 0 THEN 0 ELSE total[n - 1] + perTick[n - 1]
  IN total

\* The daemon cannot be used to flood a third party: in any window of time it
\* sends other hosts at most a full bucket and what the window itself earns.
\* Windows that start and end with a refusal are the tight ones.
OffBoxBounded ==
  LET busy == {t \in 0..MaxTime : offBox[t] > 0} IN
  \A s, e \in busy :
    s <= e => (SentBefore(offBox)[e + 1] - SentBefore(offBox)[s]) * TicksPerToken <= Burst * TicksPerToken + (e - s)

=============================================================================
