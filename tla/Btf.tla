-------------------------------- MODULE Btf --------------------------------
(***************************************************************************)
(* Where task_struct keeps real_parent and tgid: the daemon walks the      *)
(* kernel's own type information (ebpf/btf.rs) and patches the offsets     *)
(* into the exec program, which takes 0 for "unresolved".  Sizes are in    *)
(* 32-bit words.  A type is a header of three words and a tail whose       *)
(* length depends on its kind; a wrong length for any kind that comes      *)
(* before task_struct sends the walk into the middle of another type.      *)
(***************************************************************************)
EXTENDS Integers, Sequences, FiniteSetsExt

CONSTANTS
  TypeLists,    \* the type sections a kernel may publish: sequences of types
  Task,         \* the name of task_struct
  Wanted,       \* real_parent and tgid
  VlenBase,     \* 2^16: how many values the count of a type's members has
  BitfieldBase  \* 2^24: the bits above hold a bitfield's width

VARIABLES blob, found    \* the file read last, and the offsets taken from it

btfVars == <<blob, found>>

Kinds == [INT |-> 1, PTR |-> 2, ARRAY |-> 3, STRUCT |-> 4, KIND_UNION |-> 5, ENUM |-> 6, FWD |-> 7,
          FUNC_PROTO |-> 13, VAR |-> 14, DATASEC |-> 15, DECL_TAG |-> 17, TYPE_TAG |-> 18, ENUM64 |-> 19]

\* What a kernel can publish: names are offsets into its table of strings, and
\* counts and offsets fit their fields.
BtfMembers == [name : Nat, offset : Nat, width : Nat]
BtfTypes == [kind : Nat, name : Nat, flag : {0, 1}, vlen : 0..(VlenBase - 1), members : Seq(BtfMembers)]

ASSUME BtfAssumption ==
  /\ Task \in Nat /\ VlenBase \in Nat \ {0} /\ BitfieldBase \in Nat \ {0}
  /\ \A types \in TypeLists :
       /\ types \in Seq(BtfTypes)
       /\ \A i \in DOMAIN types : types[i].kind \in {Kinds.STRUCT, Kinds.KIND_UNION} =>
            /\ Len(types[i].members) = types[i].vlen
            /\ types[i].flag = 1 =>
                 \A j \in DOMAIN types[i].members : 8 * types[i].members[j].offset < BitfieldBase

-----------------------------------------------------------------------------
(* The kernel's encoding (external), after its documentation.              *)

Info(kind, vlen, flag) == (kind * VlenBase + vlen) * 2 + flag

TailWords(t) ==
  CASE t.kind \in {Kinds.INT, Kinds.VAR, Kinds.DECL_TAG} -> 1
    [] t.kind = Kinds.ARRAY -> 3
    [] t.kind \in {Kinds.ENUM, Kinds.FUNC_PROTO} -> 2 * t.vlen
    [] t.kind \in {Kinds.DATASEC, Kinds.ENUM64} -> 3 * t.vlen
    [] OTHER -> 0

\* A member's offset in bits; with the flag its width is stored above it.
RawOffset(t, m) == 8 * m.offset + IF t.flag = 1 THEN m.width * BitfieldBase ELSE 0

\* A member is three words: its name, its type and its offset.
MemberWord(t, i) ==
  LET m == t.members[(i + 2) \div 3] IN
  CASE i % 3 = 1 -> m.name [] i % 3 = 2 -> 1 [] OTHER -> RawOffset(t, m)

\* The tail of a type that has no members is filled with words that would read
\* as a struct of that name.
TypeTail(t) ==
  IF t.kind \in {Kinds.STRUCT, Kinds.KIND_UNION}
    THEN [i \in 1..(3 * t.vlen) |-> MemberWord(t, i)]
    ELSE [i \in 1..TailWords(t) |-> IF i % 2 = 1 THEN Task ELSE Info(Kinds.STRUCT, 0, 0)]

TypeWords(t) == <<t.name, Info(t.kind, t.vlen, t.flag), 1>> \o TypeTail(t)

Words(types) ==
  LET upTo[n \in 0..Len(types)] == IF n = 0 THEN <<>> ELSE upTo[n - 1] \o TypeWords(types[n])
  IN upTo[Len(types)]

-----------------------------------------------------------------------------
(* The walk.                                                               *)

Unresolved == [real_parent |-> 0, tgid |-> 0]

\* TypeHeader::parse
HeaderAt(w, c) ==
  LET info == w[c + 2] \div 2
  IN [name |-> w[c + 1], kind |-> info \div VlenBase, vlen |-> info % VlenBase, flag |-> w[c + 2] % 2]

\* (fault) 64-bit enumerators are taken to be as long as the others.
TailLenOldEnums(h) ==
  CASE h.kind \in {Kinds.INT, Kinds.VAR, Kinds.DECL_TAG} -> 1
    [] h.kind = Kinds.ARRAY -> 3
    [] h.kind \in {Kinds.STRUCT, Kinds.KIND_UNION, Kinds.DATASEC} -> 3 * h.vlen
    [] h.kind \in {Kinds.ENUM, Kinds.FUNC_PROTO, Kinds.ENUM64} -> 2 * h.vlen
    [] OTHER -> 0

\* TypeHeader::tail_len
TailLen(h) ==
  CASE h.kind \in {Kinds.INT, Kinds.VAR, Kinds.DECL_TAG} -> 1
    [] h.kind = Kinds.ARRAY -> 3
    [] h.kind \in {Kinds.STRUCT, Kinds.KIND_UNION} -> 3 * h.vlen
    [] h.kind \in {Kinds.ENUM, Kinds.FUNC_PROTO} -> 2 * h.vlen
    [] h.kind \in {Kinds.DATASEC, Kinds.ENUM64} -> 3 * h.vlen
    [] OTHER -> 0

\* The first member of that name, in bytes.
MemberOffset(w, body, h, name) ==
  LET raw(i) == w[body + 3 * i + 3]
      hits == {i \in 0..(h.vlen - 1) : w[body + 3 * i + 1] = name}
  IN IF hits = {} THEN 0 ELSE (IF h.flag = 1 THEN raw(Min(hits)) % BitfieldBase ELSE raw(Min(hits))) \div 8

\* member_offsets: every error and every absent member leaves the offset at 0.
MemberOffsets(w) ==
  LET walk[c \in 0..Len(w)] ==
        IF c + 2 > Len(w) THEN Unresolved
        ELSE LET h == HeaderAt(w, c)
                 next == c + 3 + TailLen(h)
             IN IF next > Len(w) THEN Unresolved
                ELSE IF h.kind = Kinds.STRUCT /\ h.name = Task
                  THEN [real_parent |-> MemberOffset(w, c + 3, h, Wanted[1]),
                        tgid |-> MemberOffset(w, c + 3, h, Wanted[2])]
                ELSE walk[next]
  IN walk[0]

\* task_struct_offsets_from on the whole file or on one cut short, whose type
\* section is then incomplete: Header::section refuses it.
TaskStructOffsetsFrom(types, whole) == IF whole THEN MemberOffsets(Words(types)) ELSE Unresolved

NoBlob == [types |-> <<>>, whole |-> FALSE]
BtfInit == blob = NoBlob /\ found = Unresolved

ResolveOffsets(types, whole) ==
  /\ blob' = [types |-> types, whole |-> whole]
  /\ found' = TaskStructOffsetsFrom(types, whole)

BtfNext == \E types \in TypeLists, whole \in BOOLEAN : ResolveOffsets(types, whole)

-----------------------------------------------------------------------------
\* What the kernel declares: the members of the first struct of that name.
Declared(types, name) ==
  LET structs == {i \in DOMAIN types : types[i].kind = Kinds.STRUCT /\ types[i].name = Task}
      members == types[Min(structs)].members
      hits == {j \in DOMAIN members : members[j].name = name}
  IN IF structs = {} \/ hits = {} THEN 0 ELSE members[Min(hits)].offset

\* The offsets patched into the exec program are those the kernel declares,
\* whatever types precede task_struct in a whole file; from one cut short none
\* are taken.  A parent read at a wrong offset would name another process
\* (btf.rs, and current_ppid in cfc-ebpf).
ParentFieldsRight ==
  found = IF blob.whole
            THEN [real_parent |-> Declared(blob.types, Wanted[1]), tgid |-> Declared(blob.types, Wanted[2])]
            ELSE Unresolved
=============================================================================
