------------------------------ MODULE RuleEval ------------------------------
(***************************************************************************)
(* Which rule decides a flow: RuleSet::lookup (cfc-core/src/rule.rs), the  *)
(* decision the daemon makes of it (Engine::peek) and the process-wide     *)
(* answer it installs in the kernel (Engine::process_wide_action,          *)
(* compilable_exe_paths), both in cfc-daemon/src/decision.rs.              *)
(*                                                                         *)
(* The walk is a state machine, one step per rule, over a rule list, a     *)
(* connection and a process that do not change meanwhile (lookup holds the *)
(* rules lock).  What it must answer is stated without the walk, below.    *)
(*                                                                         *)
(* Abstractions.  live is `enabled && !is_expired(now)`.  addr and net     *)
(* stand for the src_net and dst_net predicates, port for the equality     *)
(* predicates src_port, dst_port and protocol: each kind only narrows what *)
(* a rule is about.  born stands for the created_at, id tie-break.         *)
(* parent_exe is left out: every writer refuses it.                        *)
(***************************************************************************)
EXTENDS Integers, Sequences

CONSTANTS
  Exes, Hashes, Uids,   \* identities of processes
  Addrs, Ports,         \* what a connection is about
  None,                 \* Option::None
  Births,               \* creation order of rules
  RuleLists, Conns, Procs  \* the lists and flows the instance explores

Actions    == {"Allow", "Deny", "Reject"}
Directions == {"in", "out"}
Opt(S)     == S \cup {None}

Rule == [live : BOOLEAN, action : Actions, dir : Opt(Directions),
         exe : Opt(Exes), hash : Opt(Hashes), uid : Opt(Uids),
         host : BOOLEAN, net : Opt(SUBSET Addrs), port : Opt(Ports),
         born : Births]
Connection == [dir : Directions, addr : Addrs, port : Ports]
Process    == [exe : Opt(Exes), hash : Opt(Hashes), uid : Opt(Uids)]

ASSUME RuleEvalAssumption ==
  /\ None \notin Exes /\ None \notin Hashes /\ None \notin Uids
  /\ (\A S \in SUBSET Addrs : S # None) /\ None \notin Ports /\ None \notin Directions
  /\ Births \subseteq Nat
  /\ RuleLists \subseteq Seq(Rule)
  /\ Conns \subseteq Connection /\ Procs \subseteq Process

VARIABLES
  rules, conn, proc,  \* lookup's arguments
  i,                  \* the rule it looks at next
  undecided,          \* the rule reported if the outcome is open, or 0
  maybeAllow, maybeClosed,
  genericAllow,       \* the first definite Allow naming no program, or 0
  winner,             \* the rule that ended the walk, or 0
  pc

args == <<rules, conn, proc>>
vars == <<args, i, undecided, maybeAllow, maybeClosed, genericAllow, winner, pc>>

-----------------------------------------------------------------------------
(* Rules *)

NamesProgram(r) == r.exe # None \/ r.hash # None

IsGenericAllow(r)   == r.action = "Allow" /\ ~NamesProgram(r)
IsProgramRefusal(r) == r.action # "Allow" /\ NamesProgram(r)

ConstrainsDestination(r) == r.host \/ r.net # None \/ r.port # None \/ r.dir = "in"

Count(b) == IF b THEN 1 ELSE 0

\* A /0 network narrows nothing.
Specificity(r) ==
  Count(r.net # None /\ r.net # Addrs) + Count(r.port # None) + Count(r.exe # None)
  + Count(r.hash # None) + Count(r.uid # None) + Count(r.host)

ActionRank(a) == IF a = "Deny" THEN 0 ELSE IF a = "Reject" THEN 1 ELSE 2

\* The order of sort_deterministic.
Precedes(r, s) ==
  \/ Specificity(r) > Specificity(s)
  \/ /\ Specificity(r) = Specificity(s)
     /\ \/ ActionRank(r.action) < ActionRank(s.action)
        \/ ActionRank(r.action) = ActionRank(s.action) /\ r.born < s.born

\* A known predicate excludes the rule before a missing one makes it unsure.
\* Faulty variant: a missing digest reads as a digest that does not match.
UndecidableWithoutDigest(r, p) ==
  /\ r.exe # None /\ p.exe # None => r.exe = p.exe
  /\ r.uid # None /\ p.uid # None => r.uid = p.uid
  /\ \/ r.exe # None /\ p.exe = None
     \/ r.uid # None /\ p.uid = None
UndecidableFor(r, p) ==
  /\ r.exe # None /\ p.exe # None => r.exe = p.exe
  /\ r.hash # None /\ p.hash # None => r.hash = p.hash
  /\ r.uid # None /\ p.uid # None => r.uid = p.uid
  /\ \/ r.exe # None /\ p.exe = None
     \/ r.hash # None /\ p.hash = None
     \/ r.uid # None /\ p.uid = None

\* An unidentified process satisfies no predicate about its identity.
MatchesProcess(r, p) ==
  /\ r.exe # None => r.exe = p.exe
  /\ r.hash # None => r.hash = p.hash
  /\ r.uid # None => r.uid = p.uid

\* No direction means outbound.
MatchesKnownConnection(r, c) ==
  /\ c.dir = IF r.dir = None THEN "out" ELSE r.dir
  /\ r.net # None => c.addr \in r.net
  /\ r.port # None => c.port = r.port

-----------------------------------------------------------------------------
(* The walk *)

Init ==
  /\ rules \in RuleLists /\ conn \in Conns /\ proc \in Procs
  /\ i = 1 /\ undecided = 0 /\ genericAllow = 0 /\ winner = 0
  /\ maybeAllow = FALSE /\ maybeClosed = FALSE
  /\ pc = "walk"

\* rules[i] can change the answer: it is live, not outranked by a held
\* generic Allow, about this connection, and not about another process.
\* Faulty variant: an undecided rule is dropped like one that does not match.
ConsidersMatching(r) ==
  /\ r.live
  /\ genericAllow # 0 => NamesProgram(r)
  /\ MatchesKnownConnection(r, conn)
  /\ MatchesProcess(r, proc)
Considers(r) ==
  /\ r.live
  /\ genericAllow # 0 => NamesProgram(r)
  /\ MatchesKnownConnection(r, conn)
  /\ UndecidableFor(r, proc) \/ MatchesProcess(r, proc)

Unsure(r) == UndecidableFor(r, proc) \/ r.host

AtRule == pc = "walk" /\ i <= Len(rules)

SkipRule ==
  /\ AtRule /\ ~Considers(rules[i])
  /\ i' = i + 1
  /\ UNCHANGED <<args, undecided, maybeAllow, maybeClosed, genericAllow, winner, pc>>

\* A legacy hostname rule takes the reported slot from an identity one.
PassUndecided ==
  /\ AtRule /\ Considers(rules[i]) /\ Unsure(rules[i])
  /\ undecided' = IF undecided = 0 \/ (rules[i].host /\ ~rules[undecided].host)
                  THEN i ELSE undecided
  /\ maybeAllow'  = (maybeAllow \/ rules[i].action = "Allow")
  /\ maybeClosed' = (maybeClosed \/ rules[i].action # "Allow")
  /\ i' = i + 1
  /\ UNCHANGED <<args, genericAllow, winner, pc>>

HoldGenericAllow ==
  /\ AtRule /\ Considers(rules[i]) /\ ~Unsure(rules[i])
  /\ genericAllow = 0 /\ IsGenericAllow(rules[i])
  /\ genericAllow' = i
  /\ i' = i + 1
  /\ UNCHANGED <<args, undecided, maybeAllow, maybeClosed, winner, pc>>

RuleWins ==
  /\ AtRule /\ Considers(rules[i]) /\ ~Unsure(rules[i])
  /\ ~(genericAllow = 0 /\ IsGenericAllow(rules[i]))
  /\ winner' = i
  /\ pc' = "done"
  /\ UNCHANGED <<args, i, undecided, maybeAllow, maybeClosed, genericAllow>>

EndOfList ==
  /\ pc = "walk" /\ i > Len(rules)
  /\ pc' = "done"
  /\ UNCHANGED <<args, i, undecided, maybeAllow, maybeClosed, genericAllow, winner>>

Next == SkipRule \/ PassUndecided \/ HoldGenericAllow \/ RuleWins \/ EndOfList

Spec == Init /\ [][Next]_vars

-----------------------------------------------------------------------------
(* What the walk answers once it is done: the index of the rule, or 0 *)

Definite == IF winner # 0 THEN winner ELSE genericAllow

\* Faulty variant: an Allow answers whatever was passed on the way.
SettledForAllow ==
  IF rules[Definite].action = "Allow" THEN TRUE ELSE ~maybeAllow
Settled ==
  IF rules[Definite].action = "Allow" THEN ~maybeClosed ELSE ~maybeAllow

\* Match::Rule, and the rule of Match::Undecidable.
MatchedRule   == IF Definite # 0 /\ (undecided = 0 \/ Settled) THEN Definite ELSE 0
UndecidedRule == IF MatchedRule = 0 THEN undecided ELSE 0

\* Engine::peek, in the words PromptFlow uses for it.
Peek ==
  IF MatchedRule # 0
    THEN IF rules[MatchedRule].action = "Allow" THEN "RuleAllow" ELSE "RuleRefuse"
  ELSE IF UndecidedRule = 0 THEN "Ask"
  ELSE IF rules[UndecidedRule].host THEN "PolicyRefuse" ELSE "AskUndecided"

-----------------------------------------------------------------------------
(* The process-wide answer *)

\* An inbound rule says nothing about connect().
Outward(r) == r.live /\ r.dir # "in"

\* The rule that ends process_wide_action's walk: the first whose process
\* half cannot be decided, or that applies and is not a generic Allow.
Ends(r, p) ==
  Outward(r) /\ (UndecidableFor(r, p) \/ (MatchesProcess(r, p) /\ ~IsGenericAllow(r)))

SawGenericAllow(rs, p, k) ==
  \E j \in 1..(k - 1) : Outward(rs[j]) /\ MatchesProcess(rs[j], p) /\ IsGenericAllow(rs[j])

\* denies_process_wide: the walk ends at an unconditional refusal.
\* Faulty variant: a refusal below a generic Allow need not name the program.
DeniesBelowAnyAllow(rs, p) ==
  \E k \in 1..Len(rs) :
    /\ Ends(rs[k], p) /\ \A j \in 1..(k - 1) : ~Ends(rs[j], p)
    /\ ~UndecidableFor(rs[k], p)
    /\ ~ConstrainsDestination(rs[k])
    /\ rs[k].action # "Allow"
DeniesProcessWide(rs, p) ==
  \E k \in 1..Len(rs) :
    /\ Ends(rs[k], p) /\ \A j \in 1..(k - 1) : ~Ends(rs[j], p)
    /\ ~UndecidableFor(rs[k], p)
    /\ SawGenericAllow(rs, p, k) => IsProgramRefusal(rs[k])
    /\ ~ConstrainsDestination(rs[k])
    /\ rs[k].action # "Allow"

\* compilable_exe_paths: nothing when a live rule about a user names no
\* executable; else the named executables no live rule ties to a user.
CompilableExePaths(rs) ==
  {x \in Exes :
     /\ \E j \in 1..Len(rs) : rs[j].live /\ rs[j].exe = x
     /\ \A j \in 1..Len(rs) :
          rs[j].live /\ rs[j].uid # None => rs[j].exe # None /\ rs[j].exe # x}

\* The process compile_rules judges an executable by.
OnlyExe(x) == [exe |-> x, hash |-> None, uid |-> None]

\* The executables compiled into the kernel's table.
CompiledExes(rs) == {x \in CompilableExePaths(rs) : DeniesProcessWide(rs, OnlyExe(x))}

-----------------------------------------------------------------------------
(* Properties *)

TypeOK ==
  /\ rules \in Seq(Rule) /\ conn \in Connection /\ proc \in Process
  /\ i \in 1..(Len(rules) + 1)
  /\ undecided \in 0..Len(rules) /\ genericAllow \in 0..Len(rules)
  /\ winner \in 0..Len(rules)
  /\ maybeAllow \in BOOLEAN /\ maybeClosed \in BOOLEAN
  /\ pc \in {"walk", "done"}

\* What the process may turn out to be, and, of a legacy hostname rule, that
\* the flow is about that name (its index is in names).
Completions(p) ==
  {q \in [exe : Exes, hash : Hashes, uid : Uids] :
     /\ p.exe # None => q.exe = p.exe
     /\ p.hash # None => q.hash = p.hash
     /\ p.uid # None => q.uid = p.uid}

Applies(j, q, names) ==
  /\ rules[j].live
  /\ MatchesKnownConnection(rules[j], conn) /\ MatchesProcess(rules[j], q)
  /\ rules[j].host => j \in names

\* The precedence contract for a fully known flow.  Rank decides, except that
\* below an applying generic Allow only rules naming a program count, and the
\* first of those takes over.
Overrides(j, q, names) ==
  /\ Applies(j, q, names) /\ ~IsGenericAllow(rules[j])
  /\ \/ NamesProgram(rules[j])
     \/ \A k \in 1..(j - 1) : ~(Applies(k, q, names) /\ IsGenericAllow(rules[k]))

Governs(j, q, names) ==
  \/ Overrides(j, q, names) /\ \A k \in 1..(j - 1) : ~Overrides(k, q, names)
  \/ /\ Applies(j, q, names) /\ IsGenericAllow(rules[j])
     /\ \A k \in 1..Len(rules) : ~Overrides(k, q, names)
     /\ \A k \in 1..(j - 1) : ~(Applies(k, q, names) /\ IsGenericAllow(rules[k]))

\* An answer never rests on what is not known: when lookup returns a rule, the
\* rule that governs the flow once the identity and the names are settled
\* allows exactly when the returned one does, however they are settled.
AnswerSurvivesIdentity ==
  pc = "done" /\ MatchedRule # 0 =>
    \A q \in Completions(proc), names \in SUBSET (1..Len(rules)),
       g \in 1..Len(rules) :
      Governs(g, q, names) =>
        (rules[g].action = "Allow") = (rules[MatchedRule].action = "Allow")

\* A flow reported as about no rule really is: no live rule applies to it
\* however its identity is settled.  Pause and the loopback allowance rest
\* on this.
AskMeansNoRule ==
  pc = "done" /\ Peek = "Ask" =>
    \A q \in Completions(proc), names \in SUBSET (1..Len(rules)),
       j \in 1..Len(rules) : ~Applies(j, q, names)

\* A program the kernel refuses at connect() is one the packet path refuses
\* too, wherever it connects: the two layers never disagree.
KernelRefusalAgrees ==
  pc = "done" /\ conn.dir = "out" /\ DeniesProcessWide(rules, proc)
    => Peek \in {"RuleRefuse", "PolicyRefuse"}

\* The same for the table of executables, judged without a user or a digest:
\* it refuses only processes the packet path would refuse, whoever runs them.
ExeTableAgrees ==
  pc = "done" /\ conn.dir = "out" /\ proc.exe \in CompiledExes(rules)
    => Peek \in {"RuleRefuse", "PolicyRefuse"}
=============================================================================
