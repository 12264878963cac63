------------------------------ MODULE DnsSnoop ------------------------------
(***************************************************************************)
(* The passive DNS feed: the ingress program finds responses among the     *)
(* packets and copies their payload into a ring (cfc-ebpf main.rs, net.rs);*)
(* the daemon's consumer parses them (dns.rs) and tells the hostname cache *)
(* which address belongs to which name.  The copy is modelled in bytes at  *)
(* its real sizes.  The parser works on tokens: a length, a letter and a   *)
(* type are one token each, and offsets count from the end of the header.  *)
(***************************************************************************)
EXTENDS Integers, SequencesExt

CONSTANTS
  Datagrams,     \* packets whose bytes the program may be shown
  Responses,     \* messages a resolver may send
  RingSlots,     \* records DNS_PACKETS holds
  MaxLabels, MaxLabelJumps, MaxNameLen, MaxQuestions, MaxAnswers

\* The length nibble of an IPv4 header counts four-byte words, the five of the
\* fixed part included.
ASSUME DnsAssumption ==
  \A d \in Datagrams : d.skbLen \in Nat /\ d.udpLen \in Nat /\ d.options \in -20..40

VARIABLES
  capture,   \* the last packet shown to the program and what it copied
  ring,      \* DNS_PACKETS: responses, each with the prefix that was copied
  told       \* the last record consumed and the answers the cache was told

dnsVars == <<capture, ring, told>>

-----------------------------------------------------------------------------
(* The ingress program, in bytes.                                          *)

ScratchLen == 80                \* PKT_SCRATCH_LEN
BufLen == 512                   \* DNS_BUF_LEN
HeaderLen == 12                 \* DNS_HEADER_LEN
MinPacket == 20 + 8 + HeaderLen \* MIN_DNS_PACKET

Nowhere == -1

\* load_at: the helper copies N bytes exactly, or fails at the packet's end.
CanLoad(d, offset, n) == offset + n <= d.skbLen

LargestOf(S) == IF S = {} THEN Nowhere ELSE Max(S)

\* load_prefix: the first rung of a descending ladder that fits.
PrefixRungs == {MinPacket, 48, 56, 64, 72, ScratchLen}
LoadPrefix(d) == LargestOf({n \in PrefixRungs : n <= d.skbLen /\ CanLoad(d, 0, n)})

\* udp_payload_from_l3 over the copied prefix: where the payload starts, or
\* Nowhere.  An IPv6 extension header is not UDP to this program.
UdpPayload(d, valid) ==
  LET l4 == IF d.version = 4 THEN 20 + d.options ELSE 40
  IN IF /\ d.proto = "udp"
        /\ d.version = 4 => d.options >= 0 /\ d.fragOffset = 0
        /\ l4 + 6 <= valid /\ d.udpLen >= 8 /\ l4 + 8 <= valid
       THEN l4 + 8 ELSE Nowhere

\* copy_payload: a coarse pass, a fine pass behind it, and eight bytes read so
\* as to end where the payload ends.  The set of offsets written.
CoarseRungs == {64 * k : k \in 1..7}
FineRungs == {8 * k : k \in 1..7}

CopyPayload(d, offset, len) ==
  LET whole == len >= BufLen /\ CanLoad(d, offset, BufLen)
      coarse == Max({0} \cup {n \in CoarseRungs : n <= len /\ CanLoad(d, offset, n)})
      fine == Max({0} \cup {n \in FineRungs : n <= len - coarse /\ CanLoad(d, offset + coarse, n)})
      tail == coarse + fine < len /\ CanLoad(d, offset + len - 8, 8)
  IN IF whole THEN [total |-> BufLen, written |-> 0..(BufLen - 1)]
     ELSE [total |-> IF tail THEN len ELSE coarse + fine,
           written |-> 0..(coarse + fine - 1) \cup IF tail THEN (len - 8)..(len - 1) ELSE {}]

NotPublished == [total |-> 0, written |-> {}]

\* try_dns.
TryDns(d) ==
  LET copied == LoadPrefix(d)
      offset == UdpPayload(d, copied)
      len == Min({d.udpLen - 8, d.skbLen - offset, BufLen})
  IN IF /\ d.skbLen >= MinPacket
        /\ copied # Nowhere /\ offset # Nowhere /\ d.srcPort = 53
        /\ len >= HeaderLen
        /\ offset + 3 <= copied /\ d.qr
       THEN LET c == CopyPayload(d, offset, len) IN IF c.total >= HeaderLen THEN c ELSE NotPublished
       ELSE NotPublished

-----------------------------------------------------------------------------
(* The resolver's encoder (external): names as labels, a suffix already    *)
(* written replaced by a pointer to it.                                    *)

LabelLens == 1..63          \* MAX_LABEL_LEN
End == 0
Ptr == 192                  \* PTR_MASK
TypeA == 1
TypeAAAA == 28
ClassIn == 1

Label == {l \in Seq(Nat) : Len(l) \in LabelLens}
Response ==
  [questions : Seq(Seq(Label)), rcode : Nat, compress : BOOLEAN,
   answers : Seq([owner : Seq(Label), type : Nat, class : Nat, data : Seq(Nat)])]

ASSUME ParserAssumption ==
  /\ \A r \in Responses : r \in Response
  /\ MaxLabels \in Nat /\ MaxLabelJumps \in Nat /\ MaxQuestions \in Nat /\ MaxAnswers \in Nat

SuffixFrom(name, k) == SubSeq(name, k, Len(name))

\* The first labels of a name, spelled out after what was written before.
Spelled(before, name) ==
  LET out[k \in 0..Len(name)] == IF k = 0 THEN before ELSE out[k - 1] \o <<Len(name[k])>> \o name[k]
  IN out

\* Every suffix spelled out is remembered, with its offset and the pointers a
\* reader follows to its end.
PutName(enc, name, compress) ==
  LET n == Len(name)
      known(k) == {e \in enc.dict : compress /\ k <= n /\ e.name = SuffixFrom(name, k)}
      cut == Min({k \in 1..(n + 1) : k = n + 1 \/ known(k) # {}})
      target == CHOOSE e \in known(cut) : TRUE
      out == Spelled(enc.out, name)
      jumps == IF cut = n + 1 THEN 0 ELSE target.jumps + 1
  IN [out |-> out[cut - 1] \o IF cut = n + 1 THEN <<End>> ELSE <<Ptr, target.off>>,
      dict |-> enc.dict \cup
                 {[name |-> SuffixFrom(name, k), off |-> Len(out[k - 1]), jumps |-> jumps] : k \in 1..(cut - 1)},
      spelled |-> cut - 1, jumps |-> jumps]

\* The questions, then the answers: a name and what follows it.
Part(r, i) ==
  IF i <= Len(r.questions) THEN [name |-> r.questions[i], rest |-> <<TypeA, ClassIn>>]
  ELSE LET a == r.answers[i - Len(r.questions)]
       IN [name |-> a.owner, rest |-> <<a.type, a.class, Len(a.data)>> \o a.data]

PutPart(enc, part, compress) ==
  LET e == PutName(enc, part.name, compress)
  IN [out |-> e.out \o part.rest, dict |-> e.dict, spelled |-> e.spelled, jumps |-> e.jumps]

Parts(r) == Len(r.questions) + Len(r.answers)

\* The body as it grows, part after part.
Encodings(r) ==
  LET enc[i \in 0..Parts(r)] ==
        IF i = 0 THEN [out |-> <<>>, dict |-> {}, spelled |-> 0, jumps |-> 0]
        ELSE PutPart(enc[i - 1], Part(r, i), r.compress)
  IN enc

Body(r) == Encodings(r)[Parts(r)].out

-----------------------------------------------------------------------------
(* The parser, on tokens.                                                  *)

\* DnsCursor: nothing is read past the record's length.
At(c, off) == IF off < Len(c) THEN c[off + 1] ELSE Nowhere

\* One turn of skip_name's loop; rest says where the labels left lead from any
\* offset.
SkipLabel(c, off, rest) ==
  LET b == At(c, off)
  IN IF b = End THEN off + 1
     ELSE IF b = Ptr /\ At(c, off + 1) # Nowhere THEN off + 2
     ELSE IF b \in LabelLens THEN rest[off + 1 + b]
     ELSE Nowhere

Skips(c) ==
  LET f[left \in 0..MaxLabels] ==
        [off \in Nat |-> IF left = 0 THEN Nowhere ELSE SkipLabel(c, off, f[left - 1])]
  IN f
SkipName(c, off) == Skips(c)[MaxLabels][off]

SkipQuestion(c, off) ==
  LET o == SkipName(c, off)
  IN IF o = Nowhere \/ At(c, o + 1) = Nowhere THEN Nowhere ELSE o + 2

SkipQuestions(c, qdcount) ==
  LET f[i \in 0..qdcount] ==
        IF i = 0 THEN 0 ELSE IF f[i - 1] = Nowhere THEN Nowhere ELSE SkipQuestion(c, f[i - 1])
  IN IF qdcount > MaxQuestions THEN Nowhere ELSE f[qdcount]

NoName == [labels |-> <<>>, jumps |-> 0, next |-> Nowhere]
NameLen(labels) == SumFunctionOnSet([i \in DOMAIN labels |-> Len(labels[i]) + 1], DOMAIN labels) - 1

\* One turn of read_name's loop: pointers go backwards only, and what follows
\* the name follows its first pointer.
ReadLabel(c, off, rest) ==
  LET b == At(c, off)
      target == At(c, off + 1)
      beyond == rest[IF b = Ptr THEN target ELSE off + 1 + b]
  IN IF b = End THEN [labels |-> <<>>, jumps |-> 0, next |-> off + 1]
     ELSE IF b = Ptr /\ target # Nowhere /\ target < off /\ beyond.next # Nowhere
       THEN [labels |-> beyond.labels, jumps |-> beyond.jumps + 1, next |-> off + 2]
     ELSE IF b \in LabelLens /\ off + b < Len(c) /\ beyond.next # Nowhere
       THEN [labels |-> <<SubSeq(c, off + 2, off + 1 + b)>> \o beyond.labels,
             jumps |-> beyond.jumps, next |-> beyond.next]
     ELSE NoName

Reads(c) ==
  LET f[left \in 0..MaxLabels] ==
        [off \in Nat |-> IF left = 0 THEN NoName ELSE ReadLabel(c, off, f[left - 1])]
  IN f

\* read_name: labels and jumps count against one limit, jumps against a second,
\* the name's bytes against a third.
ReadName(c, off) ==
  LET name == Reads(c)[MaxLabels][off]
  IN IF name.jumps <= MaxLabelJumps /\ NameLen(name.labels) <= MaxNameLen THEN name ELSE NoName

NoRecord == [next |-> Nowhere, told |-> <<>>]

\* parse_answer_at: an address record is reported, any other stepped over.  The
\* consumer leaves out those of the root.
AnswerAfter(c, n) ==
  LET rdlength == At(c, n.next + 2)
      rdata == n.next + 3
      address == /\ At(c, n.next + 1) = ClassIn /\ n.labels # <<>>
                 /\ <<At(c, n.next), rdlength>> \in {<<TypeA, 1>>, <<TypeAAAA, 2>>}
  IN IF n.next = Nowhere \/ rdlength = Nowhere \/ rdata + rdlength > Len(c) THEN NoRecord
     ELSE [next |-> rdata + rdlength,
           told |-> IF address THEN <<[name |-> n.labels, ip |-> SubSeq(c, rdata + 1, rdata + rdlength)]>>
                    ELSE <<>>]

\* (fault) a compressed name is taken to end where the name it points to does.
RecordAfterTarget(c, off) ==
  LET target == At(c, off + 1)
  IN AnswerAfter(c, ReadName(c, IF At(c, off) = Ptr /\ target # Nowhere THEN target ELSE off))

ParseAnswerAt(c, off) == AnswerAfter(c, ReadName(c, off))

\* parse_header: only a response without error that announces answers is read.
HeaderUsable(r) == r.rcode = 0 /\ r.answers # <<>>

\* for_each_answer: stops at the first record it cannot read.
ForEachAnswer(r, c) ==
  LET limit == Min({MaxAnswers, Len(r.answers)})
      step(s, a) == [next |-> a.next, told |-> s.told \o a.told]
      walk[i \in 0..limit] ==
        IF i = 0 THEN [next |-> SkipQuestions(c, Len(r.questions)), told |-> <<>>]
        ELSE IF walk[i - 1].next = Nowhere THEN walk[i - 1]
        ELSE step(walk[i - 1], ParseAnswerAt(c, walk[i - 1].next))
  IN IF HeaderUsable(r) THEN walk[limit].told ELSE <<>>

-----------------------------------------------------------------------------
DnsInit ==
  /\ capture = [packet |-> NoName, copy |-> NotPublished]
  /\ ring = <<>>
  /\ told = [record |-> NoName, answers |-> <<>>]

\* cfc_dns_ingress on a packet: the bytes it publishes.
Ingress(d) ==
  /\ capture' = [packet |-> d, copy |-> TryDns(d)]
  /\ UNCHANGED <<ring, told>>

\* The same program, seen as the prefix of a response that reaches the ring;
\* a full ring drops it.
PublishPayload(r, n) ==
  /\ ring' = IF Len(ring) < RingSlots THEN Append(ring, [response |-> r, prefix |-> n]) ELSE ring
  /\ UNCHANGED <<capture, told>>

\* The consumer takes one record and hands the cache each answer.
Consume ==
  /\ ring # <<>>
  /\ LET h == Head(ring)
     IN told' = [record |-> h, answers |-> ForEachAnswer(h.response, SubSeq(Body(h.response), 1, h.prefix))]
  /\ ring' = Tail(ring)
  /\ UNCHANGED capture

DnsNext ==
  \/ \E d \in Datagrams : Ingress(d)
  \/ \E r \in Responses : \E n \in 0..Len(Body(r)) : PublishPayload(r, n)
  \/ Consume

-----------------------------------------------------------------------------
(* Properties.                                                             *)

\* What a packet carries, seen from its sender.
IsResponse(d) ==
  /\ d.proto = "udp" /\ d.srcPort = 53 /\ d.qr
  /\ d.version = 4 => d.fragOffset = 0 /\ d.options >= 0
Carried(d) == Min({d.udpLen - 8, d.skbLen - (IF d.version = 4 THEN 28 + d.options ELSE 48), BufLen})

\* Every byte up to the buffer's size was copied and no other is counted;
\* nothing but a response with a whole header is published.
CaptureExact ==
  capture.packet # NoName =>
    LET d == capture.packet
        len == Carried(d)
    IN capture.copy =
         IF IsResponse(d) /\ len >= HeaderLen THEN [total |-> len, written |-> 0..(len - 1)]
         ELSE NotPublished

AddressOf(a) ==
  a.class = ClassIn /\ <<a.type, Len(a.data)>> \in {<<TypeA, 1>>, <<TypeAAAA, 2>>} /\ a.owner # <<>>

\* The addresses of the first records, for each number of them.
Addresses(r) ==
  LET s[n \in 0..Len(r.answers)] ==
        IF n = 0 THEN <<>>
        ELSE s[n - 1] \o IF AddressOf(r.answers[n])
                           THEN <<[name |-> r.answers[n].owner, ip |-> r.answers[n].data]>> ELSE <<>>
  IN s

\* Part i arrived whole; its name is within the limits of a reader that steps
\* over it, or of one that wants it.
Whole(r, prefix, i) == Len(Encodings(r)[i].out) <= prefix
Skippable(r, i) == Encodings(r)[i].spelled < MaxLabels
Readable(r, i) ==
  LET name == Part(r, i).name
      jumps == Encodings(r)[i].jumps
  IN Len(name) + jumps < MaxLabels /\ jumps <= MaxLabelJumps /\ NameLen(name) <= MaxNameLen

ReadExact ==
  told.record # NoName =>
    LET r == told.record.response
        asked == Len(r.questions)
        reached == {n \in 0..Min({MaxAnswers, Len(r.answers)}) :
                      /\ Whole(r, told.record.prefix, asked + n)
                      /\ \A i \in 1..asked : Skippable(r, i)
                      /\ \A i \in 1..n : Readable(r, asked + i)}
    IN told.answers =
         IF r.rcode # 0 \/ asked > MaxQuestions \/ reached = {} THEN <<>>
         ELSE Addresses(r)[Max(reached)]

\* The cache is told what the resolver said.  The kernel side copies exactly
\* the bytes of a response (main.rs: a rounded-down copy loses the last
\* answer, an over-long one hands the daemon stale ring memory); and whatever
\* compression the message uses and wherever it was cut, the names and
\* addresses read are those of its own address records, in order, down to the
\* last one that arrived whole and within the parser's limits.
AnswersAsSent == CaptureExact /\ ReadExact
=============================================================================
