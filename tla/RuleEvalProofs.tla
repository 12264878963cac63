--------------------------- MODULE RuleEvalProofs ---------------------------
(* Proofs about rule lookup, for rule lists of every length, every           *)
(* connection and every partly known process, about the answers forged for   *)
(* rejected packets and the budget of those that leave the machine, and      *)
(* about the DNS feed: the copy of responses and what the parser makes of    *)
(* it, however their names are compressed and wherever they are cut.         *)
EXTENDS RuleEval, Refusal, DnsSnoop, ListProofs, TLAPS

-----------------------------------------------------------------------------
(* What the walk knows after the first rules *)

\* The rule may apply to the flow; it surely does.
May(j)  == /\ rules[j].live /\ MatchesKnownConnection(rules[j], conn)
           /\ UndecidableFor(rules[j], proc) \/ MatchesProcess(rules[j], proc)
Sure(j) == May(j) /\ ~Unsure(rules[j])

\* A sure generic Allow ranks above j.
HeldAbove(j) == \E k \in 1..(j - 1) : Sure(k) /\ IsGenericAllow(rules[k])

\* The walk looks at j; j ends it; j leaves the outcome open.
Looked(j) == NamesProgram(rules[j]) \/ ~HeldAbove(j)
Stops(j)  == Sure(j) /\ ~IsGenericAllow(rules[j]) /\ Looked(j)
Opens(j)  == May(j) /\ Unsure(rules[j]) /\ Looked(j)

\* Once j rules have been passed: none of them ended the walk, and the locals
\* record exactly the open ones and the first sure generic Allow.
Passed ==
  /\ \A j \in 1..(i - 1) : ~Stops(j)
  /\ genericAllow = 0 => ~HeldAbove(i)
  /\ genericAllow # 0 => /\ genericAllow < i /\ Sure(genericAllow)
                         /\ IsGenericAllow(rules[genericAllow])
  /\ \A j \in 1..(i - 1) : Opens(j) /\ rules[j].action = "Allow" => maybeAllow
  /\ \A j \in 1..(i - 1) : Opens(j) /\ rules[j].action # "Allow" => maybeClosed
  /\ maybeAllow \/ maybeClosed => undecided # 0
  /\ undecided # 0 => undecided < i /\ Opens(undecided)
  /\ \A j \in 1..(i - 1) :
       Opens(j) /\ rules[j].host => undecided # 0 /\ rules[undecided].host

Ended ==
  /\ pc = "walk" => winner = 0
  /\ winner # 0 => winner = i /\ Stops(i)
  /\ pc = "done" /\ winner = 0 => i = Len(rules) + 1

WalkInv == TypeOK /\ Passed /\ Ended

-----------------------------------------------------------------------------
(* The walk keeps that knowledge *)

\* A rule whose process half matches is not undecidable.
LEMMA MatchIsDecided ==
  ASSUME NEW r, NEW p, MatchesProcess(r, p)
  PROVE  ~UndecidableFor(r, p)
  BY DEF MatchesProcess, UndecidableFor

\* The walk considers rules[i] exactly when it may apply and is looked at.
LEMMA ConsidersMeans ==
  ASSUME WalkInv, AtRule
  PROVE  Considers(rules[i]) <=> May(i) /\ Looked(i)
<1>1. genericAllow # 0 <=> HeldAbove(i)
  <2>1. i \in Nat /\ genericAllow \in Nat
    BY DEF WalkInv, TypeOK
  <2>2. genericAllow # 0 => HeldAbove(i)
    BY <2>1 DEF WalkInv, Passed, HeldAbove
  <2>3. genericAllow = 0 => ~HeldAbove(i)
    BY DEF WalkInv, Passed
  <2> QED
    BY <2>2, <2>3
<1> QED
  BY <1>1 DEF Considers, May, Looked

\* No step changes what is known of a rule: lookup's arguments are fixed.
LEMMA Fixed ==
  ASSUME [Next]_vars
  PROVE  /\ rules' = rules /\ conn' = conn /\ proc' = proc
         /\ \A j : Sure(j)' = Sure(j)
         /\ \A j : HeldAbove(j)' = HeldAbove(j)
         /\ \A j : Stops(j)' = Stops(j)
         /\ \A j : Opens(j)' = Opens(j)
<1>1. rules' = rules /\ conn' = conn /\ proc' = proc
  BY DEF Next, vars, args, SkipRule, PassUndecided, HoldGenericAllow, RuleWins, EndOfList
<1>2. ASSUME NEW j PROVE May(j)' = May(j) /\ Sure(j)' = Sure(j)
  BY <1>1 DEF May, Sure, Unsure
<1>3. ASSUME NEW j PROVE HeldAbove(j)' = HeldAbove(j)
  BY <1>1, <1>2 DEF HeldAbove
<1>4. ASSUME NEW j PROVE Stops(j)' = Stops(j) /\ Opens(j)' = Opens(j)
  BY <1>1, <1>2, <1>3 DEF Stops, Opens, Looked, Unsure
<1> QED
  BY <1>1, <1>2, <1>3, <1>4

LEMMA WalkInit ==
  Init => WalkInv
<1> SUFFICES ASSUME Init PROVE WalkInv
  OBVIOUS
<1>1. TypeOK
  <2>1. rules \in Seq(Rule) /\ conn \in Connection /\ proc \in Process
    BY RuleEvalAssumption, Zenon DEF Init
  <2>2. Len(rules) \in Nat
    BY <2>1
  <2>3. /\ i \in 1..(Len(rules) + 1) /\ undecided \in 0..Len(rules)
        /\ genericAllow \in 0..Len(rules) /\ winner \in 0..Len(rules)
    BY <2>2 DEF Init
  <2>4. maybeAllow \in BOOLEAN /\ maybeClosed \in BOOLEAN /\ pc \in {"walk", "done"}
    BY Zenon DEF Init
  <2> QED
    BY <2>1, <2>3, <2>4, Zenon DEF TypeOK
<1>2. Passed
  BY DEF Init, Passed, HeldAbove
<1>3. Ended
  BY DEF Init, Ended
<1> QED
  BY <1>1, <1>2, <1>3 DEF WalkInv

\* rules[i] is passed without being remembered.
LEMMA SkipKeeps ==
  ASSUME WalkInv, SkipRule
  PROVE  WalkInv'
<1>1. [Next]_vars
  BY DEF Next
<1>2. ~(May(i) /\ Looked(i))
  BY ConsidersMeans DEF SkipRule
<1>3. ~Stops(i) /\ ~Opens(i)
  BY <1>2 DEF Stops, Opens, Sure
<1>4. ~(Sure(i) /\ IsGenericAllow(rules[i])) \/ HeldAbove(i)
  BY <1>2 DEF Looked, Sure, IsGenericAllow
<1>5. i \in Nat /\ i <= Len(rules) /\ Len(rules) \in Nat
  BY DEF WalkInv, TypeOK, SkipRule, AtRule
<1>6. HeldAbove(i + 1) => HeldAbove(i)
  BY <1>4, <1>5 DEF HeldAbove
<1>7. TypeOK'
  BY <1>5 DEF SkipRule, WalkInv, TypeOK, args
<1>8. Passed'
  BY <1>1, <1>3, <1>5, <1>6, Fixed DEF WalkInv, Passed, SkipRule, TypeOK
<1>9. Ended'
  BY <1>1, Fixed DEF WalkInv, Ended, SkipRule, AtRule
<1> QED
  BY <1>7, <1>8, <1>9 DEF WalkInv

LEMMA UndecidedKeeps ==
  ASSUME WalkInv, PassUndecided
  PROVE  WalkInv'
<1>1. [Next]_vars
  BY DEF Next
<1>2. May(i) /\ Looked(i) /\ Unsure(rules[i])
  BY ConsidersMeans DEF PassUndecided
<1>3. Opens(i) /\ ~Stops(i) /\ ~Sure(i)
  BY <1>2 DEF Opens, Stops, Sure
<1>5. i \in Nat /\ i # 0 /\ i <= Len(rules) /\ Len(rules) \in Nat
  BY DEF WalkInv, TypeOK, PassUndecided, AtRule
<1>6. HeldAbove(i + 1) => HeldAbove(i)
  BY <1>3, <1>5 DEF HeldAbove
<1>7. TypeOK'
  BY <1>5 DEF PassUndecided, WalkInv, TypeOK, args
<1>8. Passed'
  <2>1. rules' = rules /\ i' = i + 1 /\ genericAllow' = genericAllow
    BY <1>1, Fixed DEF PassUndecided
  <2>2. undecided' \in {i, undecided} /\ undecided' # 0 /\ undecided' < i'
    BY <1>5, <2>1 DEF PassUndecided, WalkInv, Passed, TypeOK
  <2>3. Opens(undecided')
    BY <1>3, <2>2 DEF PassUndecided, WalkInv, Passed
  <2>4. rules[i].host => rules[undecided'].host
    BY DEF PassUndecided
  <2>5. undecided # 0 /\ rules[undecided].host => rules[undecided'].host
    BY DEF PassUndecided
  <2>6. /\ \A j \in 1..(i' - 1) : ~Stops(j)
        /\ genericAllow' = 0 => ~HeldAbove(i')
        /\ genericAllow' # 0 => /\ genericAllow' < i' /\ Sure(genericAllow')
                                /\ IsGenericAllow(rules[genericAllow'])
    BY <1>3, <1>5, <1>6, <2>1 DEF WalkInv, Passed, TypeOK
  <2>7. ASSUME NEW j \in 1..(i' - 1), Opens(j)
        PROVE  /\ rules[j].action = "Allow" => maybeAllow'
               /\ rules[j].action # "Allow" => maybeClosed'
               /\ rules[j].host => rules[undecided'].host
    <3>1. CASE j = i
      BY <3>1, <2>4 DEF PassUndecided
    <3>2. CASE j # i
      <4>1. j \in 1..(i - 1)
        BY <3>2, <1>5, <2>1
      <4> QED
        BY <4>1, <2>5, <2>7 DEF PassUndecided, WalkInv, Passed
    <3> QED
      BY <3>1, <3>2
  <2> QED
    BY <1>1, <2>1, <2>2, <2>3, <2>6, <2>7, Fixed DEF Passed
<1>9. Ended'
  BY <1>1, Fixed DEF WalkInv, Ended, PassUndecided, AtRule
<1> QED
  BY <1>7, <1>8, <1>9 DEF WalkInv

LEMMA HoldKeeps ==
  ASSUME WalkInv, HoldGenericAllow
  PROVE  WalkInv'
<1>1. [Next]_vars
  BY DEF Next
<1>2. May(i) /\ Looked(i) /\ ~Unsure(rules[i]) /\ IsGenericAllow(rules[i])
  BY ConsidersMeans DEF HoldGenericAllow
<1>3. Sure(i) /\ ~Stops(i) /\ ~Opens(i)
  BY <1>2 DEF Opens, Stops, Sure
<1>5. i \in Nat /\ i # 0 /\ i <= Len(rules) /\ Len(rules) \in Nat
  BY DEF WalkInv, TypeOK, HoldGenericAllow, AtRule
<1>7. TypeOK'
  BY <1>5 DEF HoldGenericAllow, WalkInv, TypeOK, args
<1>8. Passed'
  BY <1>1, <1>2, <1>3, <1>5, Fixed DEF WalkInv, Passed, HoldGenericAllow, TypeOK
<1>9. Ended'
  BY <1>1, Fixed DEF WalkInv, Ended, HoldGenericAllow, AtRule
<1> QED
  BY <1>7, <1>8, <1>9 DEF WalkInv

LEMMA WinKeeps ==
  ASSUME WalkInv, RuleWins
  PROVE  WalkInv'
<1>1. [Next]_vars
  BY DEF Next
<1>2. May(i) /\ Looked(i) /\ ~Unsure(rules[i])
  BY ConsidersMeans DEF RuleWins
<1>5. i \in Nat /\ i # 0 /\ i <= Len(rules) /\ Len(rules) \in Nat
  BY DEF WalkInv, TypeOK, RuleWins, AtRule
<1>3. ~IsGenericAllow(rules[i])
  <2>1. CASE genericAllow = 0
    BY <2>1 DEF RuleWins
  <2>2. CASE genericAllow # 0
    <3>1. NamesProgram(rules[i])
      BY <2>2 DEF RuleWins, Considers
    <3> QED
      BY <3>1 DEF IsGenericAllow
  <2> QED
    BY <2>1, <2>2
<1>4. Stops(i)
  BY <1>2, <1>3 DEF Stops, Sure
<1>7. TypeOK'
  BY <1>5 DEF RuleWins, WalkInv, TypeOK, args
<1>8. Passed'
  BY <1>1, Fixed DEF WalkInv, Passed, RuleWins
<1>9. Ended'
  BY <1>1, <1>4, <1>5, Fixed DEF WalkInv, Ended, RuleWins
<1> QED
  BY <1>7, <1>8, <1>9 DEF WalkInv

LEMMA EndKeeps ==
  ASSUME WalkInv, EndOfList
  PROVE  WalkInv'
<1>1. [Next]_vars
  BY DEF Next
<1>7. TypeOK'
  BY DEF EndOfList, WalkInv, TypeOK, args
<1>8. Passed'
  BY <1>1, Fixed DEF WalkInv, Passed, EndOfList
<1>9. Ended'
  <2>1. i = Len(rules) + 1 /\ winner = 0
    BY DEF EndOfList, WalkInv, TypeOK, Ended
  <2> QED
    BY <1>1, <2>1, Fixed DEF Ended, EndOfList
<1> QED
  BY <1>7, <1>8, <1>9 DEF WalkInv

LEMMA StutterKeeps ==
  ASSUME WalkInv, UNCHANGED vars
  PROVE  WalkInv'
<1>1. [Next]_vars
  OBVIOUS
<1>7. TypeOK'
  BY DEF vars, args, WalkInv, TypeOK
<1>8. Passed'
  BY <1>1, Fixed DEF WalkInv, Passed, vars
<1>9. Ended'
  BY <1>1, Fixed DEF WalkInv, Ended, vars
<1> QED
  BY <1>7, <1>8, <1>9 DEF WalkInv

\* At every point of the walk, the locals record exactly what the rules passed
\* so far say; in particular they keep their types.
THEOREM WalkCorrect == Spec => []WalkInv
<1>1. WalkInv /\ [Next]_vars => WalkInv'
  BY SkipKeeps, UndecidedKeeps, HoldKeeps, WinKeeps, EndKeeps, StutterKeeps DEF Next
<1> QED
  BY WalkInit, <1>1, PTL DEF Spec

-----------------------------------------------------------------------------
(* What the answer means once the flow is fully known *)

\* A sure rule applies however the identity is settled; a rule that then
\* applies was one that may apply.
LEMMA Settling ==
  ASSUME NEW q \in Completions(proc), NEW names, NEW j
  PROVE  /\ Sure(j) => Applies(j, q, names)
         /\ Applies(j, q, names) => May(j)
<1>1. /\ proc.exe # None => q.exe = proc.exe
      /\ proc.hash # None => q.hash = proc.hash
      /\ proc.uid # None => q.uid = proc.uid
  BY DEF Completions
<1>2. MatchesProcess(rules[j], proc) => MatchesProcess(rules[j], q)
  BY <1>1 DEF MatchesProcess
<1>3. MatchesProcess(rules[j], q)
        => UndecidableFor(rules[j], proc) \/ MatchesProcess(rules[j], proc)
  BY <1>1 DEF MatchesProcess, UndecidableFor
<1>4. Sure(j) => Applies(j, q, names)
  BY <1>2 DEF Sure, May, Unsure, Applies
<1>5. Applies(j, q, names) => May(j)
  BY <1>3 DEF Applies, May
<1> QED
  BY <1>4, <1>5

\* A rule the walk did not look at cannot override once the flow is known.
LEMMA UnlookedNeverOverrides ==
  ASSUME NEW q \in Completions(proc), NEW names, NEW j, ~Looked(j)
  PROVE  ~Overrides(j, q, names)
<1>1. ~NamesProgram(rules[j]) /\ HeldAbove(j)
  BY DEF Looked
<1>2. PICK k \in 1..(j - 1) : Sure(k) /\ IsGenericAllow(rules[k])
  BY <1>1 DEF HeldAbove
<1>3. Applies(k, q, names)
  BY <1>2, Settling
<1> QED
  BY <1>1, <1>2, <1>3 DEF Overrides

\* A rule the walk passed that overrides once the flow is known left the
\* outcome open.
LEMMA PassedOverrides ==
  ASSUME WalkInv, NEW q \in Completions(proc), NEW names,
         NEW j \in 1..(i - 1), Overrides(j, q, names)
  PROVE  Opens(j)
<1>1. Looked(j)
  BY UnlookedNeverOverrides
<1>2. May(j) /\ ~IsGenericAllow(rules[j])
  BY Settling DEF Overrides
<1>3. ~Stops(j)
  BY DEF WalkInv, Passed
<1> QED
  BY <1>1, <1>2, <1>3 DEF Stops, Opens, Sure

\* The rule that ended the walk overrides once the flow is known, unless it
\* is a refusal naming no program and an open Allow was passed.
LEMMA WinnerOverrides ==
  ASSUME WalkInv, NEW q \in Completions(proc), NEW names, winner # 0,
         rules[winner].action = "Allow" \/ ~maybeAllow
  PROVE  Overrides(winner, q, names)
<1>1. winner = i /\ Stops(i)
  BY DEF WalkInv, Ended
<1>2. Applies(winner, q, names) /\ ~IsGenericAllow(rules[winner])
  BY <1>1, Settling DEF Stops
<1>3. CASE NamesProgram(rules[winner])
  BY <1>2, <1>3 DEF Overrides
<1>4. CASE ~NamesProgram(rules[winner])
  <2>1. ~maybeAllow /\ ~HeldAbove(i)
    BY <1>1, <1>2, <1>4 DEF IsGenericAllow, Stops, Looked
  <2>2. SUFFICES ASSUME NEW k \in 1..(i - 1), Applies(k, q, names),
                        IsGenericAllow(rules[k])
                 PROVE  FALSE
    BY <1>1, <1>2, <2>2 DEF Overrides
  <2>3. ~Sure(k) /\ ~HeldAbove(k)
    BY <2>1, <2>2 DEF HeldAbove, WalkInv, TypeOK
  <2>4. Opens(k)
    BY <2>2, <2>3, Settling DEF Opens, Sure, Looked
  <2> QED
    BY <2>1, <2>2, <2>4 DEF WalkInv, Passed, IsGenericAllow
<1> QED
  BY <1>3, <1>4

\* lookup's answer is right whatever the unknown parts of the flow's identity
\* turn out to be.
LEMMA AnswerIsSound ==
  ASSUME WalkInv
  PROVE  AnswerSurvivesIdentity
<1> SUFFICES ASSUME pc = "done", MatchedRule # 0,
                    NEW q \in Completions(proc), NEW names \in SUBSET (1..Len(rules)),
                    NEW g \in 1..Len(rules), Governs(g, q, names)
             PROVE  (rules[g].action = "Allow") = (rules[MatchedRule].action = "Allow")
  BY DEF AnswerSurvivesIdentity
<1>1. /\ MatchedRule = Definite
      /\ rules[Definite].action = "Allow" => ~maybeClosed
      /\ rules[Definite].action # "Allow" => ~maybeAllow
  BY DEF MatchedRule, Settled, WalkInv, Passed, TypeOK
<1>2. i \in Nat \ {0} /\ Len(rules) \in Nat /\ winner \in Nat
  BY DEF WalkInv, TypeOK
<1>3. CASE rules[Definite].action = "Allow"
  <2>1. SUFFICES ASSUME rules[g].action # "Allow" PROVE FALSE
    BY <1>1, <1>3
  <2>2. Overrides(g, q, names) /\ \A k \in 1..(g - 1) : ~Overrides(k, q, names)
    BY <2>1 DEF Governs, IsGenericAllow
  <2>3. g \in 1..(i - 1)
    <3>1. CASE winner = 0
      BY <3>1, <1>2 DEF WalkInv, Ended
    <3>2. CASE winner # 0
      <4>1. Overrides(winner, q, names) /\ winner = i /\ Definite = winner
        BY <3>2, <1>3, WinnerOverrides DEF Definite, WalkInv, Ended
      <4>2. g # winner
        BY <4>1, <1>3, <2>1
      <4>3. winner \notin 1..(g - 1)
        BY <4>1, <2>2
      <4> QED
        BY <4>1, <4>2, <4>3, <1>2
    <3> QED
      BY <3>1, <3>2
  <2>4. Opens(g)
    BY <2>2, <2>3, PassedOverrides
  <2> QED
    BY <1>1, <1>3, <2>1, <2>3, <2>4 DEF WalkInv, Passed
<1>4. CASE rules[Definite].action # "Allow"
  <2>1. SUFFICES ASSUME rules[g].action = "Allow" PROVE FALSE
    BY <1>1, <1>4
  <2>2. winner # 0 /\ Definite = winner
    BY <1>4 DEF Definite, WalkInv, Passed, IsGenericAllow, MatchedRule
  <2>3. Overrides(winner, q, names) /\ winner = i /\ winner \in 1..Len(rules)
    BY <1>1, <1>4, <2>2, WinnerOverrides DEF WalkInv, Ended, TypeOK
  <2>4. Overrides(g, q, names) /\ \A k \in 1..(g - 1) : ~Overrides(k, q, names)
    BY <2>3 DEF Governs
  <2>5. g # winner /\ winner \notin 1..(g - 1)
    BY <1>4, <2>1, <2>2, <2>3, <2>4
  <2>6. g \in 1..(i - 1)
    BY <2>3, <2>5, <1>2
  <2>7. Opens(g)
    BY <2>4, <2>6, PassedOverrides
  <2> QED
    BY <1>1, <1>4, <2>1, <2>6, <2>7 DEF WalkInv, Passed
<1> QED
  BY <1>3, <1>4

\* A flow lookup finds no rule for is one no rule can be about.
LEMMA AskIsSound ==
  ASSUME WalkInv
  PROVE  AskMeansNoRule
<1> SUFFICES ASSUME pc = "done", Peek = "Ask",
                    NEW q \in Completions(proc), NEW names \in SUBSET (1..Len(rules)),
                    NEW j \in 1..Len(rules), Applies(j, q, names)
             PROVE  FALSE
  BY DEF AskMeansNoRule
<1>1. MatchedRule = 0 /\ undecided = 0
  BY DEF Peek, UndecidedRule
<1>2. genericAllow = 0 /\ winner = 0
  BY <1>1 DEF MatchedRule, Definite
<1>3. i = Len(rules) + 1 /\ Len(rules) \in Nat /\ ~HeldAbove(i)
  BY <1>2 DEF WalkInv, Ended, Passed, TypeOK
<1>4. j \in 1..(i - 1) /\ May(j)
  BY <1>3, Settling
<1>5. ~HeldAbove(j) /\ ~(Sure(j) /\ IsGenericAllow(rules[j]))
  BY <1>3, <1>4 DEF HeldAbove
<1>6. ~Opens(j)
  BY <1>1, <1>4 DEF WalkInv, Passed
<1>7. Sure(j) /\ Looked(j)
  BY <1>4, <1>5, <1>6 DEF Opens, Looked, Sure
<1>8. Stops(j)
  BY <1>5, <1>7 DEF Stops
<1> QED
  BY <1>4, <1>8 DEF WalkInv, Passed

-----------------------------------------------------------------------------
(* The kernel's refusals *)

\* The rule process_wide_action answers with ends lookup's walk too, for
\* every outbound connection, and what it leaves open above is a hostname.
LEMMA ProcessWideEndsWalk ==
  ASSUME WalkInv, pc = "done", conn.dir = "out", NEW d \in 1..Len(rules),
         Ends(rules[d], proc), \A j \in 1..(d - 1) : ~Ends(rules[j], proc),
         ~UndecidableFor(rules[d], proc),
         SawGenericAllow(rules, proc, d) => IsProgramRefusal(rules[d]),
         ~ConstrainsDestination(rules[d])
  PROVE  /\ winner = d
         /\ undecided # 0 => rules[undecided].host
<1>1. i \in Nat \ {0} /\ Len(rules) \in Nat /\ winner \in 0..Len(rules)
  BY DEF WalkInv, TypeOK
<1>0. /\ \A j \in 1..Len(rules) : rules[j].dir \in {None, "in", "out"}
      /\ None # "in"
  <2>1. ASSUME NEW j \in 1..Len(rules) PROVE rules[j].dir \in {None, "in", "out"}
    <3>1. rules[j] \in Rule
      BY DEF WalkInv, TypeOK
    <3> QED
      BY <3>1 DEF Rule, Opt, Directions
  <2>2. None # "in"
    BY RuleEvalAssumption, Zenon DEF Directions
  <2> QED
    BY <2>1, <2>2
<1>2. Sure(d) /\ ~IsGenericAllow(rules[d])
  <2>1. rules[d].live /\ rules[d].dir # "in" /\ rules[d].net = None
        /\ rules[d].port = None /\ ~rules[d].host
    BY DEF Ends, Outward, ConstrainsDestination
  <2>2. MatchesProcess(rules[d], proc) /\ ~IsGenericAllow(rules[d])
    BY DEF Ends
  <2>3. MatchesKnownConnection(rules[d], conn)
    BY <1>0, <2>1 DEF MatchesKnownConnection
  <2> QED
    BY <2>1, <2>2, <2>3 DEF Sure, May, Unsure
<1>3. ASSUME NEW j \in 1..Len(rules), May(j), ~Ends(rules[j], proc)
      PROVE  /\ ~UndecidableFor(rules[j], proc) /\ MatchesProcess(rules[j], proc)
             /\ IsGenericAllow(rules[j]) /\ Outward(rules[j])
  <2>1. Outward(rules[j])
    BY <1>3, <1>0 DEF May, MatchesKnownConnection, Outward
  <2> QED
    BY <1>3, <2>1 DEF Ends, May
<1>4. Stops(d)
  <2>1. CASE NamesProgram(rules[d])
    BY <1>2, <2>1 DEF Stops, Looked
  <2>2. CASE ~NamesProgram(rules[d])
    <3>1. ~SawGenericAllow(rules, proc, d)
      BY <2>2 DEF IsProgramRefusal
    <3>2. SUFFICES ASSUME NEW k \in 1..(d - 1), Sure(k), IsGenericAllow(rules[k])
                   PROVE  FALSE
      BY <1>2 DEF Stops, Looked, HeldAbove
    <3>3. k \in 1..Len(rules) /\ May(k)
      BY <1>1, <3>2 DEF Sure
    <3>4. MatchesProcess(rules[k], proc) /\ Outward(rules[k])
      BY <3>2, <3>3, <1>3
    <3> QED
      BY <3>1, <3>2, <3>4 DEF SawGenericAllow
  <2> QED
    BY <2>1, <2>2
<1>5. winner # 0 /\ winner = i /\ i <= d
  <2>1. d \notin 1..(i - 1)
    BY <1>4 DEF WalkInv, Passed
  <2>2. i <= d
    BY <1>1, <2>1
  <2>3. winner # 0
    BY <1>1, <2>2 DEF WalkInv, Ended
  <2> QED
    BY <2>2, <2>3 DEF WalkInv, Ended
<1>6. winner = d
  <2>1. SUFFICES ASSUME i < d PROVE FALSE
    BY <1>1, <1>5
  <2>2. i \in 1..(d - 1) /\ i \in 1..Len(rules)
    BY <1>1, <2>1
  <2>3. May(i) /\ ~IsGenericAllow(rules[i])
    BY <1>5 DEF WalkInv, Ended, Stops, Sure
  <2> QED
    BY <2>2, <2>3, <1>3
<1>7. ASSUME undecided # 0 PROVE rules[undecided].host
  <2>1. undecided < i /\ Opens(undecided) /\ undecided \in 1..Len(rules)
    BY <1>7, <1>1 DEF WalkInv, Passed, TypeOK
  <2>2. undecided \in 1..(d - 1)
    BY <2>1, <1>1, <1>5, <1>6
  <2>3. May(undecided) /\ Unsure(rules[undecided])
    BY <2>1 DEF Opens
  <2>4. ~UndecidableFor(rules[undecided], proc)
    BY <2>1, <2>2, <2>3, <1>3
  <2> QED
    BY <2>3, <2>4 DEF Unsure
<1> QED
  BY <1>6, <1>7

\* What the kernel refuses at connect(), the packet path refuses.
LEMMA KernelIsSound ==
  ASSUME WalkInv
  PROVE  KernelRefusalAgrees
<1> SUFFICES ASSUME pc = "done", conn.dir = "out", DeniesProcessWide(rules, proc)
             PROVE  Peek \in {"RuleRefuse", "PolicyRefuse"}
  BY DEF KernelRefusalAgrees
<1>1. PICK d \in 1..Len(rules) :
        /\ Ends(rules[d], proc) /\ \A j \in 1..(d - 1) : ~Ends(rules[j], proc)
        /\ ~UndecidableFor(rules[d], proc)
        /\ SawGenericAllow(rules, proc, d) => IsProgramRefusal(rules[d])
        /\ ~ConstrainsDestination(rules[d])
        /\ rules[d].action # "Allow"
  BY DEF DeniesProcessWide
<1>2. winner = d /\ (undecided # 0 => rules[undecided].host)
  BY <1>1, ProcessWideEndsWalk
<1>3. Definite = d /\ d # 0
  BY <1>2 DEF Definite, WalkInv, TypeOK
<1>4. MatchedRule # 0 => MatchedRule = d
  BY <1>3 DEF MatchedRule
<1>5. MatchedRule = 0 => undecided # 0 /\ UndecidedRule = undecided
  BY <1>3 DEF MatchedRule, UndecidedRule
<1> QED
  BY <1>1, <1>2, <1>4, <1>5 DEF Peek

\* Judging an executable without a user or a digest is no looser than judging
\* the process that runs it.
LEMMA CompiledMeansDenied ==
  ASSUME NEW rs, NEW p \in Process, p.exe \in CompiledExes(rs)
  PROVE  DeniesProcessWide(rs, p)
<1> DEFINE x == p.exe
           o == OnlyExe(p.exe)
<1>1. /\ o.exe = x /\ o.hash = None /\ o.uid = None
      /\ x # None /\ x \in CompilableExePaths(rs) /\ DeniesProcessWide(rs, o)
  BY RuleEvalAssumption DEF OnlyExe, CompiledExes, CompilableExePaths
<1>2. PICK d \in 1..Len(rs) :
        /\ Ends(rs[d], o) /\ \A j \in 1..(d - 1) : ~Ends(rs[j], o)
        /\ ~UndecidableFor(rs[d], o)
        /\ SawGenericAllow(rs, o, d) => IsProgramRefusal(rs[d])
        /\ ~ConstrainsDestination(rs[d])
        /\ rs[d].action # "Allow"
  BY <1>1 DEF DeniesProcessWide
<1>3. ASSUME NEW j \in 1..Len(rs), Outward(rs[j]), ~UndecidableFor(rs[j], o)
      PROVE  /\ ~UndecidableFor(rs[j], p)
             /\ MatchesProcess(rs[j], p) <=> MatchesProcess(rs[j], o)
  <2>1. rs[j].uid # None => rs[j].exe # None /\ rs[j].exe # x
    BY <1>1, <1>3 DEF CompilableExePaths, Outward
  <2>2. rs[j].exe = None \/ rs[j].exe = x => rs[j].hash = None /\ rs[j].uid = None
    BY <1>1, <1>3, <2>1 DEF UndecidableFor
  <2> QED
    BY <1>1, <2>2 DEF UndecidableFor, MatchesProcess
<1>4. d \in 1..Len(rs) /\ \A j \in 1..(d - 1) : j \in 1..Len(rs)
  OBVIOUS
<1>5. Ends(rs[d], p) /\ ~UndecidableFor(rs[d], p)
  BY <1>2, <1>3 DEF Ends
<1>6. ASSUME NEW j \in 1..(d - 1)
      PROVE  /\ ~Ends(rs[j], p)
             /\ Outward(rs[j]) => (MatchesProcess(rs[j], p) <=> MatchesProcess(rs[j], o))
  BY <1>2, <1>3, <1>4 DEF Ends
<1>7. SawGenericAllow(rs, p, d) => SawGenericAllow(rs, o, d)
  BY <1>6 DEF SawGenericAllow
<1> QED
  BY <1>2, <1>5, <1>6, <1>7 DEF DeniesProcessWide

-----------------------------------------------------------------------------
(* The theorems *)

\* The types of the walk's locals, for every list.
THEOREM WalkTyped == Spec => []TypeOK
<1>1. WalkInv => TypeOK
  BY DEF WalkInv
<1> QED
  BY WalkCorrect, <1>1, PTL

\* A returned rule allows or refuses rightly, whatever the unknown identity.
THEOREM LookupSound == Spec => []AnswerSurvivesIdentity
<1>1. WalkInv => AnswerSurvivesIdentity
  BY AnswerIsSound
<1> QED
  BY WalkCorrect, <1>1, PTL

\* A flow about which nothing is found can be lifted by pause or loopback.
THEOREM AskSound == Spec => []AskMeansNoRule
<1>1. WalkInv => AskMeansNoRule
  BY AskIsSound
<1> QED
  BY WalkCorrect, <1>1, PTL

\* The verdict map and the packet path never disagree on a refusal.
THEOREM KernelAgrees == Spec => []KernelRefusalAgrees
<1>1. WalkInv => KernelRefusalAgrees
  BY KernelIsSound
<1> QED
  BY WalkCorrect, <1>1, PTL

\* Nor do the table of executables and the packet path.
THEOREM ExeTableSound == Spec => []ExeTableAgrees
<1>1. WalkInv => ExeTableAgrees
  BY KernelIsSound, CompiledMeansDenied
     DEF ExeTableAgrees, KernelRefusalAgrees, WalkInv, TypeOK
<1> QED
  BY WalkCorrect, <1>1, PTL

-----------------------------------------------------------------------------
(* The refusals sent to other hosts *)

\* What SentBefore counts: a tick after the other.
LEMMA SentBeforeIs ==
  ASSUME NEW f
  PROVE  /\ SentBefore(f)[0] = 0
         /\ \A n \in 1..(MaxTime + 1) : SentBefore(f)[n] = SentBefore(f)[n - 1] + f[n - 1]
<1> DEFINE N == MaxTime + 1
           Step(g, n) == IF n = 0 THEN 0 ELSE g[n - 1] + f[n - 1]
           Rec(g, n) == g = [k \in 0..n |-> Step(g, k)]
<1>1. N \in Nat
  BY RefusalAssumption
<1> HIDE DEF N
<1>2. \A n \in 0..N : \E g : Rec(g, n)
  <2> DEFINE T == {n \in 0..N : ~\E g : Rec(g, n)}
  <2>0. ASSUME T # {} PROVE FALSE
    <3>1. T \in SUBSET Nat
      BY <1>1
    <3> HIDE DEF T
    <3>2. PICK n \in T : \A m \in T : n <= m
      BY <2>0, <3>1, NatLeast
    <3> USE DEF T
    <3> HIDE DEF Rec
    <3>3. n \in 0..N /\ n \in Nat /\ ~\E g : Rec(g, n)
      BY <1>1, <3>2
    <3>4. CASE n = 0
      <4> DEFINE z == [k \in 0..0 |-> 0]
      <4>1. \A k \in 0..0 : Step(z, k) = 0
        OBVIOUS
      <4> HIDE DEF Step
      <4>2. z = [k \in 0..0 |-> Step(z, k)]
        BY <4>1
      <4>3. Rec(z, 0)
        BY <4>2 DEF Rec
      <4> QED
        BY <3>3, <3>4, <4>3
    <3>5. CASE n # 0
      <4>1. n - 1 \in 0..N /\ n - 1 \notin T
        BY <1>1, <3>2, <3>3, <3>5
      <4>2. PICK g : Rec(g, n - 1)
        BY <4>1
      <4> DEFINE h == [k \in 0..n |-> IF k = n THEN Step(g, n) ELSE g[k]]
      <4>3. \A k \in 0..n : Step(h, k) = Step(g, k)
        BY <3>3, <3>5
      <4>4. \A k \in 0..n : h[k] = Step(h, k)
        <5> SUFFICES ASSUME NEW k \in 0..n PROVE h[k] = Step(h, k)
          OBVIOUS
        <5>1. CASE k = n
          BY <4>3, <5>1
        <5>2. CASE k # n
          <6>1. k \in 0..(n - 1)
            BY <3>3, <5>2
          <6>2. g[k] = Step(g, k)
            <7> HIDE DEF Step
            <7> QED
              BY <4>2, <6>1 DEF Rec
          <6>3. h[k] = g[k]
            BY <5>2
          <6> QED
            BY <4>3, <6>2, <6>3
        <5> QED
          BY <5>1, <5>2
      <4>5. h = [k \in 0..n |-> h[k]]
        OBVIOUS
      <4> HIDE DEF h, Step
      <4>6. Rec(h, n)
        BY <4>4, <4>5 DEF Rec
      <4> QED
        BY <3>3, <4>6
    <3> QED
      BY <3>4, <3>5
  <2> QED
    BY <2>0
<1> DEFINE total == CHOOSE g : Rec(g, N)
<1>3. Rec(total, N)
  <2> HIDE DEF Rec
  <2>1. N \in 0..N
    BY <1>1
  <2>2. \E g : Rec(g, N)
    BY <1>2, <2>1
  <2> QED
    BY <2>2
<1>4. SentBefore(f) = total
  BY DEF SentBefore, N
<1> HIDE DEF total
<1>5. \A n \in 0..N : total[n] = Step(total, n)
  <2> HIDE DEF Step
  <2> QED
    BY <1>3
<1> HIDE DEF Rec
<1> QED
  BY <1>1, <1>4, <1>5 DEF N

\* What was sent until a tick depends on the ticks before it alone.
LEMMA SentBeforeSame ==
  ASSUME NEW f, NEW g, NEW m \in 0..(MaxTime + 1), \A t \in 0..(m - 1) : f[t] = g[t]
  PROVE  \A n \in 0..m : SentBefore(f)[n] = SentBefore(g)[n]
<1> DEFINE T == {n \in 0..m : SentBefore(f)[n] # SentBefore(g)[n]}
<1>1. m \in Nat /\ MaxTime \in Nat
  BY RefusalAssumption
<1>2. ASSUME T # {} PROVE FALSE
  <2>1. T \in SUBSET Nat
    BY <1>1
  <2> HIDE DEF T
  <2>2. PICK n \in T : \A k \in T : n <= k
    BY <1>2, <2>1, NatLeast
  <2> USE DEF T
  <2>3. n \in 0..m /\ SentBefore(f)[n] # SentBefore(g)[n]
    BY <2>2
  <2>4. n # 0
    BY <2>3, SentBeforeIs
  <2>5. n - 1 \in 0..m /\ n - 1 \in 0..(m - 1) /\ n \in 1..(MaxTime + 1) /\ n - 1 \notin T
    BY <1>1, <2>2, <2>3, <2>4
  <2>6. SentBefore(f)[n - 1] = SentBefore(g)[n - 1] /\ f[n - 1] = g[n - 1]
    BY <2>5
  <2>7. /\ SentBefore(f)[n] = SentBefore(f)[n - 1] + f[n - 1]
        /\ SentBefore(g)[n] = SentBefore(g)[n - 1] + g[n - 1]
    BY <2>5, SentBeforeIs
  <2> QED
    BY <2>3, <2>6, <2>7
<1> QED
  BY <1>2

LEMMA SentBeforeNat ==
  ASSUME NEW f \in [0..MaxTime -> Nat]
  PROVE  \A n \in 0..(MaxTime + 1) : SentBefore(f)[n] \in Nat
<1> DEFINE T == {n \in 0..(MaxTime + 1) : SentBefore(f)[n] \notin Nat}
<1>1. MaxTime \in Nat
  BY RefusalAssumption
<1>2. ASSUME T # {} PROVE FALSE
  <2>1. T \in SUBSET Nat
    BY <1>1
  <2> HIDE DEF T
  <2>2. PICK n \in T : \A k \in T : n <= k
    BY <1>2, <2>1, NatLeast
  <2> USE DEF T
  <2>3. n \in 0..(MaxTime + 1) /\ SentBefore(f)[n] \notin Nat
    BY <2>2
  <2>4. n # 0
    BY <2>3, SentBeforeIs
  <2>5. n - 1 \in 0..(MaxTime + 1) /\ n - 1 \in 0..MaxTime /\ n \in 1..(MaxTime + 1) /\ n - 1 \notin T
    BY <1>1, <2>2, <2>3, <2>4
  <2>6. SentBefore(f)[n - 1] \in Nat /\ f[n - 1] \in Nat
    BY <2>5
  <2>7. SentBefore(f)[n] = SentBefore(f)[n - 1] + f[n - 1]
    BY <2>5, SentBeforeIs
  <2> QED
    BY <2>3, <2>6, <2>7
<1> QED
  BY <1>2
\* What the refusals of ticks s..e cost.
Cost(perTick, s, e) == (SentBefore(perTick)[e + 1] - SentBefore(perTick)[s]) * TicksPerToken

\* The bucket, and what it has paid for: in any window that ends now the refusals
\* and what is left fit in a full bucket and what the window earned.
BudgetInv ==
  /\ now \in 0..MaxTime /\ last \in 0..now /\ tokens \in Nat
  /\ offBox \in [0..MaxTime -> Nat]
  /\ \A t \in 0..MaxTime : now < t => offBox[t] = 0
  /\ \A s \in 0..now : Cost(offBox, s, now) + Refilled <= Burst * TicksPerToken + (now - s)
  /\ \A e \in 0..now : \A s \in 0..e : Cost(offBox, s, e) <= Burst * TicksPerToken + (e - s)

LEMMA MinOfTwo ==
  ASSUME NEW a \in Int, NEW b \in Int
  PROVE  Min({a, b}) = IF a <= b THEN a ELSE b
<1>1. \E x \in {a, b} : \A y \in {a, b} : x <= y
  BY SMT
<1>2. Min({a, b}) \in {a, b} /\ \A y \in {a, b} : Min({a, b}) <= y
  BY <1>1 DEF Min
<1> QED
  BY <1>2

LEMMA OneMoreCosts ==
  ASSUME NEW k \in Int, NEW t \in Int
  PROVE  (k + 1) * t = k * t + t
  OBVIOUS

LEMMA BudgetNumbers ==
  /\ MaxTime \in Nat /\ TicksPerToken \in Nat /\ TicksPerToken > 0
  /\ Burst * TicksPerToken \in Nat
<1>1. MaxTime \in Nat /\ TicksPerToken \in Nat /\ TicksPerToken > 0 /\ Burst \in Nat
  BY RefusalAssumption
<1>2. Burst * TicksPerToken \in Nat
  BY <1>1
<1> QED
  BY <1>1, <1>2

\* The bucket never holds more than its size.
LEMMA RefilledIs ==
  ASSUME now \in 0..MaxTime, last \in 0..now, tokens \in Nat
  PROVE  /\ Refilled \in Nat /\ Refilled <= Burst * TicksPerToken
         /\ Refilled <= tokens + (now - last)
         /\ Refilled = IF tokens + (now - last) <= Burst * TicksPerToken
                         THEN tokens + (now - last) ELSE Burst * TicksPerToken
<1> DEFINE C == Burst * TicksPerToken
           h == tokens + (now - last)
<1>1. C \in Nat /\ h \in Nat
  BY BudgetNumbers
<1>2. Refilled = Min({h, C})
  BY DEF Refilled
<1> HIDE DEF C, h
<1>3. Min({h, C}) = IF h <= C THEN h ELSE C
  BY <1>1, MinOfTwo
<1>4. Refilled \in Nat /\ Refilled <= C /\ Refilled <= h
  BY <1>1, <1>2, <1>3
<1> QED
  BY <1>2, <1>3, <1>4 DEF C, h

LEMMA CostIsInt ==
  ASSUME NEW f \in [0..MaxTime -> Nat], NEW e \in 0..MaxTime, NEW s \in 0..(MaxTime + 1)
  PROVE  Cost(f, s, e) \in Int
<1>1. MaxTime \in Nat /\ e + 1 \in 0..(MaxTime + 1) /\ TicksPerToken \in Nat
  BY BudgetNumbers
<1>2. SentBefore(f)[e + 1] \in Nat /\ SentBefore(f)[s] \in Nat
  BY <1>1, SentBeforeNat
<1> QED
  BY <1>1, <1>2 DEF Cost

\* Nothing sent in a tick: the window that ends with it costs no more than the one before.
LEMMA QuietTick ==
  ASSUME NEW f \in [0..MaxTime -> Nat], NEW e \in 0..MaxTime, e > 0, f[e] = 0,
         NEW s \in 0..e
  PROVE  Cost(f, s, e) = IF s = e THEN 0 ELSE Cost(f, s, e - 1)
<1>1. MaxTime \in Nat /\ e + 1 \in 1..(MaxTime + 1) /\ TicksPerToken \in Nat /\ (e + 1) - 1 = e /\ (e - 1) + 1 = e
  BY BudgetNumbers
<1>2. SentBefore(f)[e + 1] = SentBefore(f)[(e + 1) - 1] + f[(e + 1) - 1]
  BY <1>1, SentBeforeIs
<1>3. SentBefore(f)[e] \in Nat
  BY <1>1, SentBeforeNat
<1>4. SentBefore(f)[e + 1] = SentBefore(f)[e]
  BY <1>1, <1>2, <1>3
<1>5. CASE s = e
  <2>1. SentBefore(f)[e + 1] - SentBefore(f)[s] = 0
    BY <1>3, <1>4, <1>5
  <2>2. Cost(f, s, e) = 0 * TicksPerToken
    BY <2>1 DEF Cost
  <2> QED
    BY <1>1, <1>5, <2>2
<1>6. CASE s # e
  <2>1. SentBefore(f)[e + 1] = SentBefore(f)[(e - 1) + 1]
    BY <1>1, <1>4
  <2> QED
    BY <1>6, <2>1 DEF Cost
<1> QED
  BY <1>5, <1>6

LEMMA BudgetStart == RefusalInit => BudgetInv
<1> SUFFICES ASSUME RefusalInit PROVE BudgetInv
  OBVIOUS
<1>1. now = 0 /\ last = 0 /\ tokens = Burst * TicksPerToken /\ offBox = [t \in 0..MaxTime |-> 0]
  BY DEF RefusalInit
<1>2. now \in 0..MaxTime /\ last \in 0..now /\ tokens \in Nat /\ offBox \in [0..MaxTime -> Nat]
  BY <1>1, BudgetNumbers
<1>3. \A t \in 0..MaxTime : offBox[t] = 0
  BY <1>1
<1>4. 1 \in 1..(MaxTime + 1) /\ 0 \in 0..MaxTime /\ TicksPerToken \in Nat
  BY BudgetNumbers
<1>5. SentBefore(offBox)[1] = 0 /\ SentBefore(offBox)[0] = 0
  <2>1. SentBefore(offBox)[1] = SentBefore(offBox)[1 - 1] + offBox[1 - 1]
    BY <1>4, SentBeforeIs
  <2> QED
    BY <1>3, <1>4, <2>1, SentBeforeIs
<1>6. Cost(offBox, 0, 0) = 0
  <2>1. Cost(offBox, 0, 0) = (SentBefore(offBox)[0 + 1] - SentBefore(offBox)[0]) * TicksPerToken
    BY DEF Cost
  <2>2. SentBefore(offBox)[0 + 1] - SentBefore(offBox)[0] = 0
    BY <1>5
  <2> QED
    BY <1>4, <2>1, <2>2
<1>7. Refilled \in Nat /\ Refilled <= Burst * TicksPerToken
  BY <1>2, RefilledIs
<1>8. \A s \in 0..now : s = 0 /\ now = 0
  BY <1>1
<1>9. \A e \in 0..now : \A s \in 0..e : s = 0 /\ e = 0
  BY <1>1
<1>10. Burst * TicksPerToken \in Nat
  BY BudgetNumbers
<1>11. \A s \in 0..now : Cost(offBox, s, now) + Refilled <= Burst * TicksPerToken + (now - s)
  <2> SUFFICES ASSUME NEW s \in 0..now
               PROVE  Cost(offBox, s, now) + Refilled <= Burst * TicksPerToken + (now - s)
    OBVIOUS
  <2>1. s = 0 /\ now = 0 /\ Cost(offBox, s, now) = 0
    BY <1>6, <1>8
  <2> QED
    BY <1>7, <1>10, <2>1
<1>12. \A e \in 0..now : \A s \in 0..e : Cost(offBox, s, e) <= Burst * TicksPerToken + (e - s)
  <2> SUFFICES ASSUME NEW e \in 0..now, NEW s \in 0..e
               PROVE  Cost(offBox, s, e) <= Burst * TicksPerToken + (e - s)
    OBVIOUS
  <2>1. s = 0 /\ e = 0 /\ Cost(offBox, s, e) = 0
    BY <1>6, <1>9
  <2> QED
    BY <1>10, <2>1
<1> QED
  BY <1>2, <1>3, <1>11, <1>12 DEF BudgetInv
LEMMA Elapsed ==
  ASSUME NEW a \in Nat, NEW n \in Nat, NEW l \in 0..n
  PROVE  a + (n - l) \in Nat
  OBVIOUS

LEMMA PaysFor ==
  ASSUME NEW c \in Int, NEW d \in Nat, NEW w \in Int, NEW r \in Nat, NEW after \in Nat,
         c + r <= w, after + d <= r
  PROVE  c + d + after <= w
  OBVIOUS

LEMMA LessWithout ==
  ASSUME NEW c \in Int, NEW w \in Int, NEW r \in Nat, c + r <= w
  PROVE  c <= w
  OBVIOUS

\* At the tick it is, n refusals are sent and paid for.
Spends(n) ==
  /\ now' = now /\ last' \in 0..now /\ tokens' \in Nat
  /\ offBox' = [offBox EXCEPT ![now] = @ + n]
  /\ Refilled' + n * TicksPerToken <= Refilled

\* A step that leaves the clock: the refusals of earlier ticks stand, so only the
\* windows that end now can cost more.
LEMMA BudgetSpent ==
  ASSUME BudgetInv, NEW sentNow \in {0, 1}, Spends(sentNow)
  PROVE  BudgetInv'
<1>1. /\ now \in 0..MaxTime /\ offBox \in [0..MaxTime -> Nat]
      /\ \A t \in 0..MaxTime : now < t => offBox[t] = 0
  BY DEF BudgetInv
<1>2. MaxTime \in Nat /\ TicksPerToken \in Nat /\ Burst * TicksPerToken \in Nat
  BY BudgetNumbers
<1>0. now' = now /\ last' \in 0..now /\ tokens' \in Nat
  BY DEF Spends
<1>3. offBox' \in [0..MaxTime -> Nat]
  BY <1>1 DEF Spends
<1>4. /\ \A t \in 0..MaxTime : t # now => offBox'[t] = offBox[t]
      /\ offBox'[now] = offBox[now] + sentNow
  BY <1>1 DEF Spends
<1>5. \A t \in 0..MaxTime : now' < t => offBox'[t] = 0
  BY <1>0, <1>1, <1>2, <1>4
<1>6. \A n \in 0..now : SentBefore(offBox')[n] = SentBefore(offBox)[n]
  <2>1. now \in 0..(MaxTime + 1) /\ \A t \in 0..(now - 1) : t \in 0..MaxTime /\ t # now
    BY <1>1, <1>2
  <2>2. \A t \in 0..(now - 1) : offBox'[t] = offBox[t]
    BY <1>4, <2>1
  <2> DEFINE f == offBox'
  <2>3. \A t \in 0..(now - 1) : f[t] = offBox[t]
    BY <2>2
  <2> HIDE DEF f
  <2>4. \A n \in 0..now : SentBefore(f)[n] = SentBefore(offBox)[n]
    BY <2>1, <2>3, SentBeforeSame
  <2> QED
    BY <2>4 DEF f
<1>7. SentBefore(offBox')[now + 1] = SentBefore(offBox)[now + 1] + sentNow
  <2>1. now + 1 \in 1..(MaxTime + 1) /\ (now + 1) - 1 = now /\ now \in 0..(MaxTime + 1)
    BY <1>1, <1>2
  <2>2. /\ SentBefore(offBox')[now + 1] = SentBefore(offBox')[now] + offBox'[now]
        /\ SentBefore(offBox)[now + 1] = SentBefore(offBox)[now] + offBox[now]
    BY <2>1, SentBeforeIs
  <2>3. SentBefore(offBox')[now] = SentBefore(offBox)[now]
    BY <1>1, <1>2, <1>6
  <2>4. SentBefore(offBox)[now] \in Nat
    BY <1>1, <2>1, SentBeforeNat
  <2>5. offBox[now] \in Nat
    BY <1>1
  <2> QED
    BY <1>4, <2>2, <2>3, <2>4, <2>5
<1>8. /\ Refilled \in Nat
      /\ \A s \in 0..now : Cost(offBox, s, now) + Refilled <= Burst * TicksPerToken + (now - s)
      /\ \A e \in 0..now : \A s \in 0..e : Cost(offBox, s, e) <= Burst * TicksPerToken + (e - s)
  <2>1. last \in 0..now /\ tokens \in Nat
    BY DEF BudgetInv
  <2>2. Refilled \in Nat
    BY <1>1, <2>1, RefilledIs
  <2> QED
    BY <2>2 DEF BudgetInv
<1>9. Refilled' \in Nat
  <2> DEFINE C == Burst * TicksPerToken
             h == tokens' + (now' - last')
  <2>1. C \in Nat
    BY <1>2
  <2>3. h \in Nat
    <3>1. now' \in Nat /\ last' \in 0..now' /\ tokens' \in Nat
      BY <1>0, <1>1, <1>2
    <3> QED
      BY <3>1, Elapsed
  <2>2. Refilled' = Min({h, C})
    BY DEF Refilled
  <2> HIDE DEF C, h
  <2> QED
    BY <2>1, <2>2, <2>3, MinOfTwo
<1>10. \A s \in 0..now : Cost(offBox', s, now) = Cost(offBox, s, now) + sentNow * TicksPerToken
  <2> SUFFICES ASSUME NEW s \in 0..now
               PROVE  Cost(offBox', s, now) = Cost(offBox, s, now) + sentNow * TicksPerToken
    OBVIOUS
  <2>1. now + 1 \in 0..(MaxTime + 1) /\ s \in 0..(MaxTime + 1)
    BY <1>1, <1>2
  <2>2. SentBefore(offBox)[now + 1] \in Nat /\ SentBefore(offBox)[s] \in Nat
    BY <1>1, <2>1, SentBeforeNat
  <2> DEFINE k == SentBefore(offBox)[now + 1] - SentBefore(offBox)[s]
  <2>3. k \in Int /\ Cost(offBox, s, now) = k * TicksPerToken
    BY <2>2 DEF Cost
  <2>4. SentBefore(offBox')[now + 1] - SentBefore(offBox')[s] = k + sentNow
    BY <1>6, <1>7, <2>2
  <2>5. Cost(offBox', s, now) = (k + sentNow) * TicksPerToken
    BY <2>4 DEF Cost
  <2> HIDE DEF k
  <2>6. CASE sentNow = 0
    <3>1. k + sentNow = k /\ sentNow * TicksPerToken = 0 /\ k * TicksPerToken \in Int
      BY <1>2, <2>3, <2>6
    <3> QED
      BY <2>3, <2>5, <3>1
  <2>7. CASE sentNow = 1
    <3>1. (k + 1) * TicksPerToken = k * TicksPerToken + TicksPerToken
      BY <1>2, <2>3, OneMoreCosts
    <3>2. 1 * TicksPerToken = TicksPerToken
      BY <1>2
    <3> QED
      BY <2>3, <2>5, <2>7, <3>1, <3>2
  <2> QED
    BY <2>6, <2>7
<1>11. /\ sentNow * TicksPerToken \in Nat
       /\ \A s \in 0..now : Cost(offBox, s, now) \in Int
  <2>1. \A s \in 0..now : s \in 0..(MaxTime + 1)
    BY <1>1, <1>2
  <2>2. \A s \in 0..now : Cost(offBox, s, now) \in Int
    BY <1>1, <2>1, CostIsInt
  <2>3. sentNow * TicksPerToken \in Nat
    BY <1>2
  <2> QED
    BY <2>2, <2>3
<1>12. \A s \in 0..now : Cost(offBox', s, now) + Refilled' <= Burst * TicksPerToken + (now - s)
  <2> SUFFICES ASSUME NEW s \in 0..now
               PROVE  Cost(offBox', s, now) + Refilled' <= Burst * TicksPerToken + (now - s)
    OBVIOUS
  <2> DEFINE c == Cost(offBox, s, now)
             d == sentNow * TicksPerToken
             w == Burst * TicksPerToken + (now - s)
  <2>1. /\ Cost(offBox', s, now) = c + d /\ c + Refilled <= w /\ Refilled' + d <= Refilled
        /\ c \in Int /\ d \in Nat
    BY <1>8, <1>10, <1>11 DEF Spends
  <2>2. w \in Int
    BY <1>1, <1>2
  <2> HIDE DEF c, d, w
  <2>3. c + d + Refilled' <= w
    BY <1>8, <1>9, <2>1, <2>2, PaysFor
  <2> QED
    BY <2>1, <2>3 DEF w
<1>13. \A e \in 0..now : \A s \in 0..e : Cost(offBox', s, e) <= Burst * TicksPerToken + (e - s)
  <2> SUFFICES ASSUME NEW e \in 0..now, NEW s \in 0..e
               PROVE  Cost(offBox', s, e) <= Burst * TicksPerToken + (e - s)
    OBVIOUS
  <2>1. CASE e = now
    <3>1. s \in 0..now
      BY <2>1
    <3> DEFINE c == Cost(offBox', s, now)
               w == Burst * TicksPerToken + (now - s)
    <3>2. c + Refilled' <= w
      BY <1>12, <3>1
    <3>3. c \in Int /\ w \in Int
      <4>1. c = Cost(offBox, s, now) + sentNow * TicksPerToken
        BY <1>10, <3>1
      <4>2. Cost(offBox, s, now) \in Int /\ sentNow * TicksPerToken \in Nat
        BY <1>11, <3>1
      <4>3. c \in Int
        <5> HIDE DEF c
        <5> QED
          BY <4>1, <4>2
      <4>4. w \in Int
        BY <1>1, <1>2
      <4> QED
        BY <4>3, <4>4
    <3> HIDE DEF c, w
    <3>4. c <= w
      BY <1>9, <3>2, <3>3, LessWithout
    <3> QED
      BY <2>1, <3>4 DEF c, w
  <2>2. CASE e # now
    <3>1. e + 1 \in 0..now /\ s \in 0..now
      BY <1>1, <2>2
    <3>2. Cost(offBox', s, e) = Cost(offBox, s, e)
      BY <1>6, <3>1 DEF Cost
    <3> QED
      BY <1>8, <3>2
  <2> QED
    BY <2>1, <2>2
<1>14. now' \in 0..MaxTime /\ last' \in 0..now' /\ tokens' \in Nat
  BY <1>0, <1>1
<1>15. \A s \in 0..now' : Cost(offBox', s, now') + Refilled' <= Burst * TicksPerToken + (now' - s)
  BY <1>0, <1>12
<1>16. \A e \in 0..now' : \A s \in 0..e : Cost(offBox', s, e) <= Burst * TicksPerToken + (e - s)
  BY <1>0, <1>13
<1> QED
  BY <1>3, <1>5, <1>14, <1>15, <1>16 DEF BudgetInv, Cost
\* A tick earns at most one, and nothing has been sent in the new tick.
LEMMA BudgetTick == BudgetInv /\ Tick => BudgetInv'
<1> SUFFICES ASSUME BudgetInv, Tick PROVE BudgetInv'
  OBVIOUS
<1> DEFINE C == Burst * TicksPerToken
           m == now + 1
<1>1. /\ now \in 0..MaxTime /\ last \in 0..now /\ tokens \in Nat /\ offBox \in [0..MaxTime -> Nat]
      /\ \A t \in 0..MaxTime : now < t => offBox[t] = 0
      /\ \A s \in 0..now : Cost(offBox, s, now) + Refilled <= C + (now - s)
      /\ \A e \in 0..now : \A s \in 0..e : Cost(offBox, s, e) <= C + (e - s)
  BY DEF BudgetInv
<1>2. now < MaxTime /\ now' = m /\ tokens' = tokens /\ last' = last /\ offBox' = offBox
  BY DEF Tick
<1>3. MaxTime \in Nat /\ C \in Nat
  BY BudgetNumbers
<1>4. m \in 0..MaxTime /\ m > 0 /\ m - 1 = now /\ last \in 0..m /\ now < m /\ now \in Nat
  BY <1>1, <1>2, <1>3
<1>5. /\ Refilled \in Nat /\ Refilled' \in Nat
      /\ Refilled' <= Refilled + 1 /\ Refilled' <= C
  <2> DEFINE h == tokens + (now - last)
             k == tokens + (m - last)
  <2>1. h \in Nat /\ k = h + 1
    BY <1>1, <1>4
  <2>2. Refilled = Min({h, C})
    BY DEF Refilled
  <2>3. Refilled' = Min({k, C})
    BY <1>2 DEF Refilled
  <2> HIDE DEF h, k, C
  <2>4. Refilled = IF h <= C THEN h ELSE C
    BY <1>3, <2>1, <2>2, MinOfTwo
  <2>5. Refilled' = IF k <= C THEN k ELSE C
    <3>1. k \in Nat
      BY <2>1
    <3> QED
      BY <1>3, <2>3, <3>1, MinOfTwo
  <2> DEFINE before == Refilled
             after == Refilled'
  <2>6. before = (IF h <= C THEN h ELSE C) /\ after = (IF k <= C THEN k ELSE C)
    BY <2>4, <2>5
  <2> HIDE DEF before, after
  <2>7. before \in Nat /\ after \in Nat /\ after <= before + 1 /\ after <= C
    BY <1>3, <2>1, <2>6
  <2> QED
    BY <2>7 DEF before, after
<1> DEFINE r == Refilled
           q == Refilled'
<1>6. /\ r \in Nat /\ q \in Nat /\ q <= r + 1 /\ q <= C
      /\ \A s \in 0..now : Cost(offBox, s, now) + r <= C + (now - s)
  BY <1>1, <1>5
<1> HIDE DEF C, r, q
<1>7. \A s \in 0..m : Cost(offBox, s, m) = IF s = m THEN 0 ELSE Cost(offBox, s, now)
  <2> HIDE DEF m
  <2>1. offBox[m] = 0
    BY <1>1, <1>4
  <2>2. m \in 0..MaxTime /\ m > 0 /\ m - 1 = now /\ offBox \in [0..MaxTime -> Nat]
    BY <1>1, <1>4
  <2>3. \A s \in 0..m : Cost(offBox, s, m) = IF s = m THEN 0 ELSE Cost(offBox, s, m - 1)
    BY <2>1, <2>2, QuietTick
  <2> QED
    BY <2>2, <2>3
<1>8. \A s \in 0..m : Cost(offBox, s, m) \in Int /\ Cost(offBox, s, m) + q <= C + (m - s)
  <2> SUFFICES ASSUME NEW s \in 0..m
               PROVE  Cost(offBox, s, m) \in Int /\ Cost(offBox, s, m) + q <= C + (m - s)
    OBVIOUS
  <2>1. CASE s = m
    <3>1. Cost(offBox, s, m) = 0
      BY <1>7, <2>1
    <3> QED
      BY <1>3, <1>4, <1>6, <2>1, <3>1
  <2>2. CASE s # m
    <3>1. s \in 0..now /\ s \in 0..(MaxTime + 1)
      BY <1>3, <1>4, <2>2
    <3> DEFINE c == Cost(offBox, s, now)
    <3>2. Cost(offBox, s, m) = c
      BY <1>7, <2>2
    <3>3. c \in Int
      BY <1>1, <3>1, CostIsInt
    <3>4. c + r <= C + (now - s)
      BY <1>6, <3>1
    <3> HIDE DEF c
    <3>5. c + q <= C + (m - s)
      BY <1>3, <1>4, <1>6, <3>1, <3>3, <3>4
    <3> QED
      BY <3>2, <3>3, <3>5
  <2> QED
    BY <2>1, <2>2
<1>9. \A e \in 0..m : \A s \in 0..e : Cost(offBox, s, e) <= C + (e - s)
  <2> SUFFICES ASSUME NEW e \in 0..m, NEW s \in 0..e PROVE Cost(offBox, s, e) <= C + (e - s)
    OBVIOUS
  <2>1. CASE e = m
    <3>1. Cost(offBox, s, e) \in Int /\ Cost(offBox, s, e) + q <= C + (e - s)
      BY <1>8, <2>1
    <3>2. C + (e - s) \in Int
      BY <1>3, <1>4, <2>1
    <3> QED
      BY <1>6, <3>1, <3>2, LessWithout
  <2>2. CASE e # m
    <3>1. e \in 0..now
      BY <1>4, <2>2
    <3> QED
      BY <1>1, <3>1 DEF C
  <2> QED
    BY <2>1, <2>2
<1>10. now' \in 0..MaxTime /\ last' \in 0..now' /\ tokens' \in Nat /\ offBox' \in [0..MaxTime -> Nat]
  BY <1>1, <1>2, <1>4
<1>11. \A t \in 0..MaxTime : now' < t => offBox'[t] = 0
  <2> SUFFICES ASSUME NEW t \in 0..MaxTime, m < t PROVE offBox[t] = 0
    BY <1>2
  <2>1. now < t
    BY <1>4
  <2> QED
    BY <1>1, <2>1
<1>12. \A s \in 0..now' : Cost(offBox', s, now') + Refilled' <= C + (now' - s)
  BY <1>2, <1>8 DEF q
<1>13. \A e \in 0..now' : \A s \in 0..e : Cost(offBox', s, e) <= C + (e - s)
  BY <1>2, <1>9
<1> QED
  BY <1>10, <1>11, <1>12, <1>13 DEF BudgetInv, Cost, C

\* take_at leaves what it refilled, less the token it may have spent.
LEMMA BudgetTake ==
  ASSUME BudgetInv, TakeAt, now' = now
  PROVE  /\ last' \in 0..now /\ tokens' \in Nat
         /\ Refilled' = IF Refilled >= TicksPerToken THEN Refilled - TicksPerToken ELSE Refilled
<1>1. now \in 0..MaxTime /\ last \in 0..now /\ tokens \in Nat
  BY DEF BudgetInv
<1>2. TicksPerToken \in Nat /\ MaxTime \in Nat /\ Burst * TicksPerToken \in Nat
  BY BudgetNumbers
<1>3. Refilled \in Nat /\ Refilled <= Burst * TicksPerToken
  BY <1>1, RefilledIs
<1>4. last' = now /\ tokens' = IF Refilled >= TicksPerToken THEN Refilled - TicksPerToken ELSE Refilled
  BY DEF TakeAt
<1> DEFINE C == Burst * TicksPerToken
           left == IF Refilled >= TicksPerToken THEN Refilled - TicksPerToken ELSE Refilled
<1>5. left \in Nat /\ left <= C
  <2> HIDE DEF C
  <2>1. C \in Nat /\ Refilled <= C
    BY <1>2, <1>3 DEF C
  <2> QED
    BY <1>2, <1>3, <2>1
<1>6. now \in Nat /\ now \in 0..now
  BY <1>1, <1>2
<1>7. Refilled' = Min({tokens' + (now' - last'), C})
  BY DEF Refilled
<1>8. tokens' = left
  BY <1>4
<1> HIDE DEF C, left
<1>9. left + (now - now) = left
  BY <1>5, <1>6
<1>10. Refilled' = Min({left, C})
  BY <1>4, <1>7, <1>8, <1>9
<1>11. Min({left, C}) = left
  <2>1. C \in Nat
    BY <1>2 DEF C
  <2> QED
    BY <1>5, <2>1, MinOfTwo
<1>12. Refilled' = left
  BY <1>10, <1>11
<1> QED
  BY <1>4, <1>5, <1>6, <1>8, <1>12 DEF left
LEMMA BudgetUnchanged == BudgetInv /\ UNCHANGED <<now, tokens, last, offBox>> => BudgetInv'
<1> SUFFICES ASSUME BudgetInv, UNCHANGED <<now, tokens, last, offBox>> PROVE BudgetInv'
  OBVIOUS
<1>1. now' = now /\ tokens' = tokens /\ last' = last /\ offBox' = offBox
  OBVIOUS
<1>2. Refilled' = Refilled
  BY <1>1 DEF Refilled
<1> QED
  BY <1>1, <1>2 DEF BudgetInv, Cost

\* A refusal is handed to the kernel only after its token was taken.
LEMMA BudgetReject == ASSUME BudgetInv, NEW p \in Packets, Reject(p) PROVE BudgetInv'
<1> DEFINE inbound == p.dir = "in"
           addressable == UnicastAddressable(p.src) /\ UnicastAddressable(p.dst)
<1>1. now' = now
  BY DEF Reject
<1>2. /\ now \in 0..MaxTime /\ MaxTime \in Nat /\ TicksPerToken \in Nat
      /\ offBox \in [0..MaxTime -> Nat] /\ Refilled \in Nat
  <2>1. now \in 0..MaxTime /\ last \in 0..now /\ tokens \in Nat /\ offBox \in [0..MaxTime -> Nat]
    BY DEF BudgetInv
  <2> QED
    BY <2>1, BudgetNumbers, RefilledIs
<1>3. [offBox EXCEPT ![now] = @ + 0] = offBox
  <2>1. offBox[now] \in Nat
    BY <1>2
  <2>2. offBox[now] + 0 = offBox[now]
    BY <2>1
  <2> QED
    BY <1>2, <2>2
<1>4. \/ UNCHANGED <<tokens, last, offBox>>
      \/ TakeAt /\ Refilled < TicksPerToken /\ UNCHANGED offBox
      \/ TakeAt /\ Refilled >= TicksPerToken /\ \E n \in {0, 1} : offBox' = [offBox EXCEPT ![now] = @ + n]
  <2>1. CASE UNCHANGED <<tokens, last, offBox>>
    BY <2>1
  <2>2. CASE addressable /\ inbound /\ TakeAt /\ Refilled < TicksPerToken /\ UNCHANGED offBox
    BY <2>2
  <2>3. CASE /\ addressable
             /\ IF inbound THEN TakeAt /\ Refilled >= TicksPerToken ELSE UNCHANGED <<tokens, last>>
             /\ \E r \in Answers(p, Parse(p).proto) :
                  offBox' = IF inbound /\ r.outcome = "Sent" THEN [offBox EXCEPT ![now] = @ + 1] ELSE offBox
    <3>1. PICK r \in Answers(p, Parse(p).proto) :
            offBox' = IF inbound /\ r.outcome = "Sent" THEN [offBox EXCEPT ![now] = @ + 1] ELSE offBox
      BY <2>3
    <3>2. CASE inbound /\ r.outcome = "Sent"
      <4>1. TakeAt /\ Refilled >= TicksPerToken
        BY <2>3, <3>2
      <4>2. offBox' = [offBox EXCEPT ![now] = @ + 1]
        BY <3>1, <3>2
      <4> QED
        BY <4>1, <4>2
    <3>3. CASE inbound /\ ~(r.outcome = "Sent")
      <4>1. TakeAt /\ Refilled >= TicksPerToken
        BY <2>3, <3>3
      <4>2. offBox' = [offBox EXCEPT ![now] = @ + 0]
        BY <1>3, <3>1, <3>3
      <4> QED
        BY <4>1, <4>2
    <3>4. CASE ~inbound
      BY <2>3, <3>1, <3>4
    <3> QED
      BY <3>2, <3>3, <3>4
  <2> QED
    BY <2>1, <2>2, <2>3 DEF Reject
<1>5. CASE UNCHANGED <<tokens, last, offBox>>
  BY <1>1, <1>5, BudgetUnchanged
<1>6. CASE TakeAt /\ Refilled < TicksPerToken /\ UNCHANGED offBox
  <2>1. last' \in 0..now /\ tokens' \in Nat /\ Refilled' = Refilled
    <3>1. ~(Refilled >= TicksPerToken)
      BY <1>2, <1>6
    <3> QED
      BY <1>1, <1>6, <3>1, BudgetTake
  <2>2. offBox' = [offBox EXCEPT ![now] = @ + 0]
    BY <1>3, <1>6
  <2>3. Refilled' + 0 * TicksPerToken <= Refilled
    <3>1. Refilled + 0 * TicksPerToken = Refilled
      BY <1>2
    <3>2. Refilled <= Refilled
      BY <1>2
    <3> QED
      BY <2>1, <3>1, <3>2
  <2>4. Spends(0)
    BY <1>1, <2>1, <2>2, <2>3 DEF Spends
  <2> QED
    BY <2>4, BudgetSpent
<1>7. CASE /\ TakeAt /\ Refilled >= TicksPerToken
           /\ \E n \in {0, 1} : offBox' = [offBox EXCEPT ![now] = @ + n]
  <2>1. last' \in 0..now /\ tokens' \in Nat /\ Refilled' = Refilled - TicksPerToken
    BY <1>1, <1>7, BudgetTake
  <2>2. PICK n \in {0, 1} : offBox' = [offBox EXCEPT ![now] = @ + n]
    BY <1>7
  <2>3. Refilled' + n * TicksPerToken <= Refilled
    <3>1. (Refilled - TicksPerToken) + n * TicksPerToken <= Refilled
      <4>1. CASE n = 0
        BY <1>2, <4>1
      <4>2. CASE n = 1
        BY <1>2, <4>2
      <4> QED
        BY <4>1, <4>2
    <3> QED
      BY <2>1, <3>1
  <2>4. Spends(n)
    BY <1>1, <2>1, <2>2, <2>3 DEF Spends
  <2> QED
    BY <2>4, BudgetSpent
<1> QED
  BY <1>4, <1>5, <1>6, <1>7

LEMMA BudgetNext == BudgetInv /\ [RefusalNext]_refusalVars => BudgetInv'
<1> SUFFICES ASSUME BudgetInv, [RefusalNext]_refusalVars PROVE BudgetInv'
  OBVIOUS
<1>1. CASE Tick
  BY <1>1, BudgetTick
<1>2. CASE \E p \in Packets : Reject(p)
  BY <1>2, BudgetReject
<1>3. CASE UNCHANGED refusalVars
  BY <1>3, BudgetUnchanged DEF refusalVars
<1> QED
  BY <1>1, <1>2, <1>3 DEF RefusalNext

LEMMA BudgetBounds == BudgetInv => OffBoxBounded
<1> SUFFICES ASSUME BudgetInv, NEW s \in {t \in 0..MaxTime : offBox[t] > 0},
                    NEW e \in {t \in 0..MaxTime : offBox[t] > 0}, s <= e
             PROVE  Cost(offBox, s, e) <= Burst * TicksPerToken + (e - s)
  BY DEF OffBoxBounded, Cost
<1>1. MaxTime \in Nat
  BY BudgetNumbers
<1>2. now \in 0..MaxTime /\ \A t \in 0..MaxTime : now < t => offBox[t] = 0
  BY DEF BudgetInv
<1>3. offBox[e] # 0
  OBVIOUS
<1>4. e \in 0..now /\ s \in 0..e
  BY <1>1, <1>2, <1>3
<1> QED
  BY <1>4 DEF BudgetInv

\* In any window of time the daemon sends other hosts at most a full bucket of
\* refusals and what the window itself earns (reject.rs: Budget::take_at, for
\* every refill rate, burst and mix of packets).
THEOREM OffBoxBoundedHolds == RefusalInit /\ [][RefusalNext]_refusalVars => []OffBoxBounded
<1> HIDE DEF BudgetInv, RefusalInit, RefusalNext, OffBoxBounded
<1>1. RefusalInit => BudgetInv
  BY BudgetStart
<1>2. BudgetInv /\ [RefusalNext]_refusalVars => BudgetInv'
  BY BudgetNext
<1>3. BudgetInv => OffBoxBounded
  BY BudgetBounds
<1> QED
  BY <1>1, <1>2, <1>3, PTL

-----------------------------------------------------------------------------
(* The forged answer *)

\* A length the sender could encode is the one the walks decode.
LEMMA DecodedIsSize ==
  ASSUME NEW h \in ExtHeaders, Sizable(h)
  PROVE  DecodedLen(h) = h.size
<1>1. h.size \in Nat /\ h.kind \in {"options", "auth", "fragment"}
  BY DEF ExtHeaders
<1> DEFINE s == h.size
<1> HIDE DEF s
<1>2. CASE h.kind = "auth"
  <2>1. s % 4 = 0 /\ s \in Nat
    BY <1>1, <1>2 DEF Sizable, s
  <2>2. (s \div 4 - 2 + 2) * 4 = s
    BY <2>1
  <2> QED
    BY <1>2, <2>2 DEF DecodedLen, LengthByte, s
<1>3. CASE h.kind = "fragment"
  BY <1>3 DEF DecodedLen, Sizable
<1>4. CASE h.kind = "options"
  <2>1. s % 8 = 0 /\ s \in Nat
    BY <1>1, <1>4 DEF Sizable, s
  <2>2. (s \div 8 - 1 + 1) * 8 = s
    BY <2>1
  <2> QED
    BY <1>4, <2>2 DEF DecodedLen, LengthByte, s
<1> QED
  BY <1>1, <1>2, <1>3, <1>4

\* f starts at first and grows by size[j] from place j to the next.
Placed(f, n, first, size) ==
  f = [j \in 1..n |-> IF j = 1 THEN first ELSE f[j - 1] + size[j - 1]] /\ f \in [1..n -> Nat]

\* A sum that starts at first and grows by size[j] from place j to the next.
LEMMA Offsets ==
  ASSUME NEW n \in Nat \ {0}, NEW first \in Nat, NEW size \in [1..n -> Nat]
  PROVE  \E f : Placed(f, n, first, size)
<1> DEFINE F == [j \in 1..(n - 1) |-> [k \in Nat |-> k + size[j]]]
           N == n - 1
<1>1. N \in Nat /\ F \in [1..N -> [Nat -> Nat]]
  OBVIOUS
<1>2. PICK g : Unfolds(g, N, Nat, first, F)
  <2> HIDE DEF F, N
  <2> QED
    BY <1>1, Recursion
<1>3. g \in [0..N -> Nat] /\ g[0] = first /\ \A j \in 1..N : g[j] = F[j][g[j - 1]]
  <2> HIDE DEF F, N
  <2> QED
    BY <1>2 DEF Unfolds
<1>4. \A j \in 1..N : g[j] = g[j - 1] + size[j]
  <2> SUFFICES ASSUME NEW j \in 1..N PROVE g[j] = g[j - 1] + size[j]
    OBVIOUS
  <2>1. g[j - 1] \in Nat
    <3> HIDE DEF F, N
    <3>1. j - 1 \in 0..N
      BY <1>1
    <3> QED
      BY <1>3, <3>1
  <2>2. g[j] = F[j][g[j - 1]]
    <3> HIDE DEF F, N
    <3> QED
      BY <1>3
  <2>3. F[j] = [k \in Nat |-> k + size[j]]
    OBVIOUS
  <2> QED
    BY <2>1, <2>2, <2>3
<1> DEFINE f == [j \in 1..n |-> g[j - 1]]
<1>5. ASSUME NEW j \in 1..n PROVE f[j] = (IF j = 1 THEN first ELSE f[j - 1] + size[j - 1]) /\ f[j] \in Nat
  <2>1. j - 1 \in 0..N
    OBVIOUS
  <2>2. CASE j = 1
    BY <1>3, <2>1, <2>2
  <2>3. CASE j # 1
    <3>1. j - 1 \in 1..N /\ j - 1 \in 1..n
      BY <2>3
    <3>2. g[j - 1] = g[(j - 1) - 1] + size[j - 1] /\ f[j - 1] = g[(j - 1) - 1]
      BY <1>4, <3>1
    <3> QED
      BY <1>3, <2>1, <2>3, <3>2
  <2> QED
    BY <2>2, <2>3
<1>6. f = [j \in 1..n |-> f[j]]
  OBVIOUS
<1> HIDE DEF f
<1>7. f = [j \in 1..n |-> IF j = 1 THEN first ELSE f[j - 1] + size[j - 1]] /\ f \in [1..n -> Nat]
  BY <1>5, <1>6
<1> QED
  BY <1>7 DEF Placed

IPv6(p) == p \in Packets /\ p.version = 6

LEMMA LayoutOf ==
  ASSUME NEW p \in Packets
  PROVE  /\ p.exts \in Seq(ExtHeaders) /\ Len(p.exts) \in Nat /\ p.options \in Int /\ p.version \in {4, 6}
         /\ p.upper \in {"tcp", "udp", "icmp"} /\ p.tcpOptions \in Nat /\ p.seq \in Nat /\ p.len \in Nat /\ p.cut \in Nat
         /\ p.pseudo \in Bytes /\ p.payload \in Bytes
         /\ p.flags \in SUBSET {"SYN", "ACK", "FIN", "RST"}
         /\ (p.version = 4 => p.exts = <<>>)
         /\ \A j \in 1..Len(p.exts) : p.exts[j] \in ExtHeaders /\ p.exts[j].size \in Nat /\ DecodedLen(p.exts[j]) = p.exts[j].size
         /\ (p.upper = "tcp" /\ p.flags \cap {"ACK", "RST"} = {} => p.flags \cap {"SYN", "FIN"} \in {{"SYN"}, {"FIN"}})
<1>1. p \in Layouts /\ (p.version = 4 => p.exts = <<>>) /\ \A j \in DOMAIN p.exts : Sizable(p.exts[j])
  BY PacketAssumption
<1>2. p.upper = "tcp" /\ p.flags \cap {"ACK", "RST"} = {} => p.flags \cap {"SYN", "FIN"} \in {{"SYN"}, {"FIN"}}
  BY PacketAssumption
<1>3. /\ p.exts \in Seq(ExtHeaders) /\ p.options \in Int /\ p.version \in {4, 6}
      /\ p.upper \in {"tcp", "udp", "icmp"} /\ p.tcpOptions \in Nat /\ p.seq \in Nat /\ p.len \in Nat /\ p.cut \in Nat
      /\ p.pseudo \in Bytes /\ p.payload \in Bytes /\ p.flags \in SUBSET {"SYN", "ACK", "FIN", "RST"}
  BY <1>1 DEF Layouts
<1> DEFINE e == p.exts
<1> HIDE DEF e
<1>4. e \in Seq(ExtHeaders) /\ \A j \in DOMAIN e : Sizable(e[j])
  BY <1>1, <1>3 DEF e
<1>5. Len(e) \in Nat
  BY <1>4
<1>6. ASSUME NEW j \in 1..Len(e) PROVE e[j] \in ExtHeaders /\ e[j].size \in Nat /\ DecodedLen(e[j]) = e[j].size
  <2>1. e[j] \in ExtHeaders /\ Sizable(e[j])
    BY <1>4
  <2> QED
    BY <2>1, DecodedIsSize DEF ExtHeaders
<1> QED
  BY <1>1, <1>2, <1>3, <1>5, <1>6 DEF e

\* Both walks find every header where the sender put it.
LEMMA WalkFinds ==
  ASSUME NEW p, IPv6(p), NEW place \in 1..(Len(p.exts) + 1)
  PROVE  WalkOffset(p, place) = TrueOffset(p, place) /\ TrueOffset(p, place) \in Nat
<1> DEFINE e == p.exts
           n == Len(e) + 1
           size == [j \in 1..n |-> IF j \in 1..Len(e) THEN e[j].size ELSE 0]
           Put(f) == f = [j \in 1..n |-> IF j = 1 THEN V6Header ELSE f[j - 1] + e[j - 1].size]
           start == CHOOSE f : Put(f)
           Step(f, j) == IF j = 1 THEN V6Header
                         ELSE IF f[j - 1] # TrueOffset(p, j - 1) THEN Lost
                         ELSE f[j - 1] + DecodedLen(e[j - 1])
           Seen(f) == f = [j \in 1..n |-> Step(f, j)]
           off == CHOOSE f : Seen(f)
<1>1. p \in Packets /\ p.version # 4
  BY DEF IPv6
<1>2. /\ Len(e) \in Nat
      /\ \A j \in 1..Len(e) : e[j].size \in Nat /\ DecodedLen(e[j]) = e[j].size
  BY <1>1, LayoutOf
<1>3. \A k \in 1..n : TrueOffset(p, k) = start[k]
  BY <1>1 DEF TrueOffset
<1>4. WalkOffset(p, place) = off[place]
  BY DEF WalkOffset
<1> HIDE DEF e
<1>5. n \in Nat \ {0} /\ V6Header \in Nat /\ size \in [1..n -> Nat]
  BY <1>2 DEF V6Header
<1>A. PICK f : Placed(f, n, V6Header, size)
  <2> HIDE DEF n, size
  <2> QED
    BY <1>5, Offsets
<1>6. f = [j \in 1..n |-> IF j = 1 THEN V6Header ELSE f[j - 1] + size[j - 1]] /\ f \in [1..n -> Nat]
  <2> HIDE DEF n, size
  <2> QED
    BY <1>A DEF Placed
<1>7. \A j \in 1..n : j # 1 => j - 1 \in 1..n /\ j - 1 \in 1..Len(e) /\ size[j - 1] = e[j - 1].size
  BY <1>2
<1> HIDE DEF n, size, start, off
<1>8. Put(f)
  <2>1. \A j \in 1..n : f[j] = IF j = 1 THEN V6Header ELSE f[j - 1] + e[j - 1].size
    BY <1>6, <1>7
  <2>2. f = [j \in 1..n |-> f[j]]
    BY <1>6
  <2> QED
    BY <2>1, <2>2
<1>9. Put(start)
  <2> HIDE DEF Put
  <2> QED
    BY <1>8 DEF start
<1>10. \A j \in 1..n : start[j] = IF j = 1 THEN V6Header ELSE start[j - 1] + e[j - 1].size
  BY <1>9
<1>11. Seen(start)
  <2>1. ASSUME NEW j \in 1..n PROVE start[j] = Step(start, j)
    BY <1>2, <1>3, <1>7, <1>10
  <2>2. start = [j \in 1..n |-> start[j]]
    BY <1>9
  <2> HIDE DEF Step
  <2> QED
    BY <2>1, <2>2
<1>12. Seen(off)
  <2> HIDE DEF Seen
  <2> QED
    BY <1>11 DEF off
<1>13. \A j \in 1..n : off[j] = Step(off, j)
  <2> HIDE DEF Step
  <2> QED
    BY <1>12
<1> DEFINE Right(j) == off[j] = start[j] /\ start[j] \in Nat
           T == {j \in 1..n : ~Right(j)}
<1>14. ASSUME T # {} PROVE FALSE
  <2>1. T \in SUBSET Nat
    BY <1>5
  <2> HIDE DEF T
  <2>2. PICK j \in T : \A k \in T : j <= k
    BY <1>14, <2>1, NatLeast
  <2> USE DEF T
  <2> HIDE DEF Right
  <2>3. j \in 1..n /\ ~Right(j)
    BY <2>2
  <2>4. CASE j = 1
    <3>1. off[j] = V6Header /\ start[j] = V6Header
      BY <1>10, <1>13, <2>3, <2>4
    <3> QED
      BY <1>5, <2>3, <3>1 DEF Right
  <2>5. CASE j # 1
    <3>1. j - 1 \in 1..n /\ j - 1 \in 1..Len(e)
      BY <1>7, <2>3, <2>5
    <3>2. j - 1 \notin T
      BY <1>5, <2>2, <2>3
    <3>3. Right(j - 1)
      BY <3>1, <3>2
    <3>4. off[j - 1] = start[j - 1] /\ start[j - 1] \in Nat
      BY <3>3 DEF Right
    <3>5. TrueOffset(p, j - 1) = start[j - 1]
      BY <1>3, <3>1
    <3>6. e[j - 1].size \in Nat /\ DecodedLen(e[j - 1]) = e[j - 1].size
      BY <1>2, <3>1
    <3>7. off[j] = off[j - 1] + DecodedLen(e[j - 1])
      BY <1>13, <2>3, <2>5, <3>4, <3>5
    <3>8. start[j] = start[j - 1] + e[j - 1].size
      BY <1>10, <2>3, <2>5
    <3>9. Right(j)
      BY <3>4, <3>6, <3>7, <3>8 DEF Right
    <3> QED
      BY <2>3, <3>9
  <2> QED
    BY <2>4, <2>5
<1> HIDE DEF Right
<1>15. Right(place)
  BY <1>14 DEF n, e
<1> QED
  BY <1>3, <1>4, <1>15 DEF Right, n, e

\* The state of a sum of bytes.
SumStates == [sum : Nat, pending : {-1} \cup Nat]

LEMMA ByteIsAdded ==
  ASSUME NEW acc \in SumStates, NEW byte \in Nat
  PROVE  AddByte(acc, byte) \in SumStates
<1>1. acc.sum \in Nat /\ acc.pending \in {-1} \cup Nat /\ acc = [sum |-> acc.sum, pending |-> acc.pending]
  BY DEF SumStates
<1>2. CASE acc.pending = -1
  <2>1. AddByte(acc, byte) = [sum |-> acc.sum, pending |-> byte]
    BY <1>1, <1>2 DEF AddByte
  <2> QED
    BY <1>1, <2>1 DEF SumStates
<1>3. CASE acc.pending # -1
  <2>1. AddByte(acc, byte) = [sum |-> acc.sum + acc.pending * B + byte, pending |-> -1]
    BY <1>3 DEF AddByte
  <2>2. acc.pending \in Nat /\ B \in Nat
    BY <1>1, <1>3, RefusalAssumption
  <2> DEFINE x == acc.pending * B
  <2>3. x \in Nat
    BY <2>2, ProductIsNat
  <2> HIDE DEF x
  <2>4. acc.sum + x + byte \in Nat
    BY <1>1, <2>3
  <2> QED
    BY <2>1, <2>4 DEF SumStates, x
<1> QED
  BY <1>2, <1>3


LEMMA PartIsAdded ==
  ASSUME NEW acc \in SumStates, NEW part \in Bytes
  PROVE  AddPart(acc, part) \in SumStates /\ (part = <<>> => AddPart(acc, part) = acc)
<1> DEFINE N == Len(part)
           S == SumStates
           Row(n) == [s \in S |-> AddByte(s, part[n])]
           F == [n \in 1..N |-> Row(n)]
           Made(f, n) == IF n = 0 THEN acc ELSE AddByte(f[n - 1], part[n])
           Rec(f) == f = [n \in 0..N |-> Made(f, n)]
           upTo == CHOOSE f : Rec(f)
<1>1. N \in Nat /\ (part = <<>> => N = 0) /\ \A n \in 1..N : part[n] \in Nat
  BY RefusalAssumption DEF Bytes
<1>2. AddPart(acc, part) = upTo[N]
  BY DEF AddPart
<1> HIDE DEF N, upTo
<1>3. F \in [1..N -> [S -> S]]
  <2>1. \A n \in 1..N : Row(n) \in [S -> S]
    BY <1>1, ByteIsAdded
  <2> HIDE DEF Row, S
  <2> QED
    BY <2>1
<1>4. PICK f : Unfolds(f, N, S, acc, F)
  <2> HIDE DEF F
  <2> QED
    BY <1>1, <1>3, Recursion
<1>5. f \in [0..N -> S] /\ f[0] = acc /\ \A n \in 1..N : f[n] = F[n][f[n - 1]]
  <2> HIDE DEF F
  <2> QED
    BY <1>4 DEF Unfolds
<1>6. Rec(f)
  <2>1. ASSUME NEW n \in 0..N PROVE f[n] = Made(f, n)
    <3>1. CASE n = 0
      BY <1>5, <3>1
    <3>2. CASE n # 0
      <4>1. n \in 1..N /\ n - 1 \in 0..N
        BY <1>1, <3>2
      <4>2. f[n] = F[n][f[n - 1]] /\ f[n - 1] \in S
        <5> HIDE DEF F, S
        <5> QED
          BY <1>5, <4>1
      <4>3. F[n] = Row(n)
        BY <4>1
      <4>4. f[n] = AddByte(f[n - 1], part[n])
        BY <4>2, <4>3
      <4> QED
        BY <3>2, <4>4
    <3> QED
      BY <3>1, <3>2
  <2> HIDE DEF Made, S
  <2> QED
    BY <1>5, <2>1
<1>7. Rec(upTo)
  <2> HIDE DEF Rec
  <2> QED
    BY <1>6 DEF upTo
<1>8. \A n \in 0..N : upTo[n] = Made(upTo, n)
  <2> HIDE DEF Made
  <2> QED
    BY <1>7
<1>9. 0 \in 0..N /\ \A n \in 1..N : n \in 0..N /\ n # 0
  BY <1>1
<1>10. upTo[0] = acc
  BY <1>8, <1>9
<1>11. ASSUME NEW n \in 1..N, upTo[n - 1] \in S PROVE upTo[n] \in S
  <2>1. upTo[n] = Made(upTo, n) /\ n # 0
    <3> HIDE DEF Made
    <3> QED
      BY <1>8, <1>9
  <2>2. upTo[n] = AddByte(upTo[n - 1], part[n])
    BY <2>1
  <2> QED
    BY <1>1, <1>11, <2>2, ByteIsAdded
<1> HIDE DEF S
<1>12. upTo[0] \in S
  BY <1>10 DEF S
<1>13. \A n \in 0..N : upTo[n] \in S
  BY <1>1, <1>11, <1>12, Stays
<1> QED
  BY <1>1, <1>2, <1>10, <1>13 DEF S

\* What Sum16 makes of the sum of all parts.
Closed(acc) == EndAround(EndAround(IF acc.pending = -1 THEN acc.sum ELSE acc.sum + acc.pending * B))

LEMMA PartsAreAdded ==
  ASSUME NEW parts \in Seq(Bytes)
  PROVE  \E f : /\ f[0] = [sum |-> 0, pending |-> -1] /\ f[Len(parts)] \in SumStates
                /\ \A n \in 0..Len(parts) : f[n] \in SumStates
                /\ \A n \in 1..Len(parts) : f[n] = AddPart(f[n - 1], parts[n])
                /\ Sum16(parts) = Closed(f[Len(parts)])
<1> DEFINE N == Len(parts)
           S == SumStates
           none == [sum |-> 0, pending |-> -1]
           Row(n) == [s \in S |-> AddPart(s, parts[n])]
           F == [n \in 1..N |-> Row(n)]
           Made(f, n) == IF n = 0 THEN none ELSE AddPart(f[n - 1], parts[n])
           Rec(f) == f = [n \in 0..N |-> Made(f, n)]
           upTo == CHOOSE f : Rec(f)
<1>1. N \in Nat /\ \A n \in 1..N : parts[n] \in Bytes
  OBVIOUS
<1>2. Sum16(parts) = Closed(upTo[N])
  BY DEF Sum16, Closed
<1> HIDE DEF N, upTo
<1>3. F \in [1..N -> [S -> S]] /\ none \in S
  <2>1. \A n \in 1..N : Row(n) \in [S -> S]
    BY <1>1, PartIsAdded
  <2>2. none \in S
    BY DEF SumStates
  <2> HIDE DEF Row, S, none
  <2> QED
    BY <2>1, <2>2
<1>4. PICK f : Unfolds(f, N, S, none, F)
  <2> HIDE DEF F, none
  <2> QED
    BY <1>1, <1>3, Recursion
<1>5. f \in [0..N -> S] /\ f[0] = none /\ \A n \in 1..N : f[n] = F[n][f[n - 1]]
  <2> HIDE DEF F, none
  <2> QED
    BY <1>4 DEF Unfolds
<1>6. Rec(f)
  <2>1. ASSUME NEW n \in 0..N PROVE f[n] = Made(f, n)
    <3>1. CASE n = 0
      BY <1>5, <3>1
    <3>2. CASE n # 0
      <4>1. n \in 1..N /\ n - 1 \in 0..N
        BY <1>1, <3>2
      <4>2. f[n] = F[n][f[n - 1]] /\ f[n - 1] \in S
        <5> HIDE DEF F, S, none
        <5> QED
          BY <1>5, <4>1
      <4>3. F[n] = Row(n)
        BY <4>1
      <4>4. f[n] = AddPart(f[n - 1], parts[n])
        BY <4>2, <4>3
      <4> QED
        BY <3>2, <4>4
    <3> QED
      BY <3>1, <3>2
  <2> HIDE DEF Made, S
  <2> QED
    BY <1>5, <2>1
<1>7. Rec(upTo)
  <2> HIDE DEF Rec
  <2> QED
    BY <1>6 DEF upTo
<1>8. \A n \in 0..N : upTo[n] = Made(upTo, n)
  <2> HIDE DEF Made
  <2> QED
    BY <1>7
<1>9. 0 \in 0..N /\ N \in 0..N /\ \A n \in 1..N : n \in 0..N /\ n # 0
  BY <1>1
<1>10. upTo[0] = none
  BY <1>8, <1>9
<1>11. ASSUME NEW n \in 1..N PROVE upTo[n] = AddPart(upTo[n - 1], parts[n])
  <2>1. upTo[n] = Made(upTo, n) /\ n # 0
    <3> HIDE DEF Made
    <3> QED
      BY <1>8, <1>9
  <2> QED
    BY <2>1
<1>12. ASSUME NEW n \in 1..N, upTo[n - 1] \in S PROVE upTo[n] \in S
  BY <1>1, <1>11, <1>12, PartIsAdded
<1> HIDE DEF S
<1>13. upTo[0] \in S
  BY <1>3, <1>10
<1>14. \A n \in 0..N : upTo[n] \in S
  BY <1>1, <1>12, <1>13, Stays
<1>15. upTo[N] \in S
  BY <1>9, <1>14
<1> QED
  BY <1>2, <1>10, <1>11, <1>14, <1>15 DEF S, N

LEMMA SumIsInt ==
  ASSUME NEW parts \in Seq(Bytes)
  PROVE  Sum16(parts) \in Int
<1>1. PICK f : f[Len(parts)] \in SumStates /\ Sum16(parts) = Closed(f[Len(parts)])
  BY PartsAreAdded
<1> DEFINE acc == f[Len(parts)]
           base == B * B
<1>2. base \in Nat \ {0}
  BY ProductIsPositive, RefusalAssumption
<1> HIDE DEF base
<1>3. ASSUME NEW x \in Nat PROVE EndAround(x) \in Nat
  <2>1. (x % base) + (x \div base) \in Nat
    BY <1>2
  <2> QED
    BY <2>1 DEF EndAround, base
<1>4. acc.sum \in Nat /\ (acc.pending # -1 => acc.pending \in Nat) /\ B \in Nat
  BY <1>1, RefusalAssumption DEF SumStates
<1> HIDE DEF acc
<1>5. acc.pending # -1 => acc.sum + acc.pending * B \in Nat
  <2>1. acc.pending # -1 => acc.pending * B \in Nat
    BY <1>4, ProductIsNat
  <2> QED
    BY <1>4, <2>1
<1> DEFINE total == IF acc.pending = -1 THEN acc.sum ELSE acc.sum + acc.pending * B
<1>6. total \in Nat
  BY <1>4, <1>5
<1>7. Closed(acc) = EndAround(EndAround(total))
  BY DEF Closed
<1> HIDE DEF total
<1> QED
  BY <1>1, <1>3, <1>6, <1>7 DEF acc

\* Nothing more to sum changes nothing.
LEMMA EmptyPartAddsNothing ==
  ASSUME NEW a \in Bytes
  PROVE  Sum16(<<a, <<>>>>) = Sum16(<<a>>)
<1> DEFINE one == <<a>>
           two == <<a, <<>>>>
           none == [sum |-> 0, pending |-> -1]
<1>1. <<>> \in Bytes
  BY DEF Bytes
<1>2. /\ one \in Seq(Bytes) /\ Len(one) = 1 /\ one[1] = a
      /\ two \in Seq(Bytes) /\ Len(two) = 2 /\ two[1] = a /\ two[2] = <<>>
  BY <1>1
<1> HIDE DEF one, two
<1>3. PICK f : /\ f[0] = none /\ \A n \in 1..Len(one) : f[n] = AddPart(f[n - 1], one[n])
               /\ Sum16(one) = Closed(f[Len(one)])
  BY <1>2, PartsAreAdded
<1>4. PICK g : /\ g[0] = none /\ \A n \in 0..Len(two) : g[n] \in SumStates
               /\ \A n \in 1..Len(two) : g[n] = AddPart(g[n - 1], two[n])
               /\ Sum16(two) = Closed(g[Len(two)])
  BY <1>2, PartsAreAdded
<1> HIDE DEF none
<1>5. f[1] = AddPart(none, a)
  BY <1>2, <1>3
<1>6. g[1] = AddPart(none, a) /\ g[2] = AddPart(g[1], <<>>) /\ g[1] \in SumStates
  BY <1>2, <1>4
<1>7. g[2] = g[1]
  BY <1>1, <1>6, PartIsAdded
<1> QED
  BY <1>2, <1>3, <1>4, <1>5, <1>6, <1>7 DEF one, two

-----------------------------------------------------------------------------
\* A packet the parser gives ports to, and where both walks found them.
LEMMA ParsedRight ==
  ASSUME NEW p \in Packets, Parse(p).proto \in {"tcp", "udp"}
  PROVE  /\ Parse(p).proto = p.upper /\ Parse(p).off = TrueL4(p) /\ LaterFragments(p) = {}
         /\ TrueL4(p) \in Nat /\ Cap(p) >= TrueL4(p) + 4 /\ L4Offset(p) \in {Lost, TrueL4(p)}
<1> DEFINE n == Len(p.exts)
           c == Cap(p)
           at == TrueL4(p)
<1>1. /\ n \in Nat /\ p.options \in Int /\ p.version \in {4, 6} /\ (p.version = 4 => p.exts = <<>>)
      /\ p.tcpOptions \in Nat /\ p.len \in Nat /\ p.cut \in Nat /\ p.exts \in Seq(ExtHeaders)
  BY LayoutOf
<1>2. UpperSize(p) \in Nat
  BY <1>1 DEF UpperSize, TcpHeader
<1>3. ASSUME at \in Nat PROVE c \in Int
  BY <1>1, <1>2, <1>3 DEF Cap
<1>4. CASE p.version = 4
  <2>1. at = V4Header + p.options
    BY <1>4 DEF TrueL4, TrueOffset
  <2>2. LaterFragments(p) = {}
    BY <1>1, <1>4 DEF LaterFragments
  <2>3. Parse(p) = IF c < V4Header \/ at < V4Header \/ c < at THEN Unparsed ELSE Finalize(p, at)
    BY <1>4, <2>1 DEF Parse, ParseV4
  <2>4. L4Offset(p) \in {Lost, at}
    BY <1>4, <2>1 DEF L4Offset
  <2> HIDE DEF at, c
  <2>5. Parse(p) = Finalize(p, at) /\ ~(at < V4Header) /\ Finalize(p, at) # Unparsed
    BY <2>3 DEF Unparsed
  <2>6. at \in Nat
    BY <1>1, <2>1, <2>5 DEF V4Header
  <2>7. Finalize(p, at) = [proto |-> p.upper, off |-> at] /\ ~(p.upper \in {"tcp", "udp"} /\ c < at + 4)
    BY <2>5 DEF Finalize, c
  <2>8. p.upper \in {"tcp", "udp"}
    BY <2>5, <2>7
  <2>9. c >= at + 4
    BY <1>3, <2>6, <2>7, <2>8
  <2> QED
    BY <2>2, <2>4, <2>5, <2>6, <2>7, <2>9 DEF at, c
<1>5. CASE p.version = 6
  <2>1. IPv6(p) /\ n + 1 \in 1..(n + 1)
    BY <1>1, <1>5 DEF IPv6
  <2>2. WalkOffset(p, n + 1) = at /\ at \in Nat
    BY <2>1, WalkFinds DEF TrueL4
  <2> DEFINE later == LaterFragments(p) \cap 1..(MaxExtHeaders + 1)
  <2>3. Parse(p) = IF c < V6Header THEN Unparsed
                   ELSE IF later # {}
                     THEN IF Fits(p, Min(later)) THEN [proto |-> "other", off |-> Lost] ELSE Unparsed
                   ELSE IF n > MaxExtHeaders \/ ~Fits(p, n) THEN Unparsed
                   ELSE Finalize(p, at)
    BY <1>5, <2>2 DEF Parse, ParseV6
  <2>4. L4Offset(p) \in {Lost, at}
    BY <1>5, <2>2 DEF L4Offset
  <2> HIDE DEF at, c, later
  <2>5. Parse(p) = Finalize(p, at) /\ later = {} /\ ~(n > MaxExtHeaders) /\ Finalize(p, at) # Unparsed
    BY <2>3 DEF Unparsed
  <2>6. LaterFragments(p) = {}
    <3>1. LaterFragments(p) \subseteq 1..n
      BY <1>1 DEF LaterFragments
    <3>2. 1..n \subseteq 1..(MaxExtHeaders + 1)
      BY <1>1, <2>5, RefusalAssumption
    <3> QED
      BY <2>5, <3>1, <3>2 DEF later
  <2>7. Finalize(p, at) = [proto |-> p.upper, off |-> at] /\ ~(p.upper \in {"tcp", "udp"} /\ c < at + 4)
    BY <2>5 DEF Finalize, c
  <2>8. p.upper \in {"tcp", "udp"}
    BY <2>5, <2>7
  <2>9. c >= at + 4
    BY <1>3, <2>2, <2>7, <2>8
  <2> QED
    BY <2>2, <2>4, <2>5, <2>6, <2>7, <2>9 DEF at, c
<1> QED
  BY <1>1, <1>4, <1>5

\* The reset acknowledges what was sent and no more.
LEMMA ResetAccepted ==
  ASSUME NEW p \in Packets, p.upper = "tcp", MayReset(p), L4Offset(p) = TrueL4(p), TrueL4(p) \in Nat
  PROVE  AcceptedBySender(p, RstFields(p))
<1> DEFINE at == TrueL4(p)
           t == Cap(p) - at
           h == TcpHeader + p.tcpOptions
           d == Min({h, t})
           marks == p.flags \cap {"SYN", "FIN"}
           octets == t - d + Cardinality(marks)
<1>1. /\ p.tcpOptions \in Nat /\ p.len \in Nat /\ p.cut \in Nat /\ p.seq \in Nat
      /\ (p.flags \cap {"ACK", "RST"} = {} => marks \in {{"SYN"}, {"FIN"}})
  BY LayoutOf
<1>2. CASE "ACK" \in p.flags
  BY <1>2 DEF RstFields, AcceptedBySender
<1>3. CASE "ACK" \notin p.flags
  <2>1. RstFields(p) = [seq |-> 0, ack |-> (p.seq + octets) % W, ackFlag |-> TRUE]
    BY <1>3 DEF RstFields
  <2>2. p.flags \cap {"ACK", "RST"} = {}
    BY <1>3 DEF MayReset
  <2>3. Cardinality(marks) = 1
    <3>1. marks \in {{"SYN"}, {"FIN"}}
      BY <1>1, <2>2
    <3>2. Cardinality({"SYN"}) = 1 /\ Cardinality({"FIN"}) = 1
      BY FS_Singleton
    <3> QED
      BY <3>1, <3>2
  <2>4. t = h + p.len - p.cut /\ t \in Int /\ h \in Nat
    BY <1>1 DEF Cap, UpperSize, TcpHeader
  <2> HIDE DEF t, h
  <2>5. d = IF h <= t THEN h ELSE t
    BY <2>4, MinOfTwo
  <2> HIDE DEF d, marks
  <2>6. octets \in 1..(p.len + 1)
    BY <1>1, <2>3, <2>4, <2>5
  <2> HIDE DEF octets
  <2> QED
    BY <1>3, <2>1, <2>6 DEF AcceptedBySender
<1> QED
  BY <1>2, <1>3

\* r is an answer to p that p's sender takes for its own connection's.
Proper(p, r) ==
  /\ r.from = p.dst /\ r.to = p.src /\ {p.src, p.dst} \subseteq {"here", "there"}
  /\ Parse(p).off = TrueL4(p) /\ LaterFragments(p) = {}
  /\ Sum16((IF r.kind = "unreachable" /\ p.version = 4 THEN <<>> ELSE <<p.pseudo>>)
             \o <<r.body>>) + r.sum = B * B - 1
  /\ r.kind = "rst" => "RST" \notin p.flags /\ AcceptedBySender(p, r.fields)
  /\ r.kind = "unreachable" => r.quote >= TrueL4(p) + 4

LEMMA PairIsJoined ==
  ASSUME NEW a, NEW b
  PROVE  <<>> \o <<b>> = <<b>> /\ <<a>> \o <<b>> = <<a, b>>
<1>1. <<>> = [k \in 1..0 |-> (<<b>>)[k]] /\ <<b>> = [k \in 1..1 |-> (<<b>>)[0 + k]]
  OBVIOUS
<1>2. <<>> \o <<b>> = [k \in 1..(0 + 1) |-> (<<b>>)[k]]
  BY <1>1, Concatenated
<1> DEFINE both == <<a, b>>
<1>3. both[1] = a /\ both[2] = b /\ both = [k \in 1..2 |-> both[k]]
  OBVIOUS
<1> HIDE DEF both
<1> DEFINE s == <<a>>
           t == <<b>>
<1>4. s = [k \in 1..1 |-> both[k]] /\ t = [k \in 1..1 |-> both[1 + k]]
  BY <1>3
<1> HIDE DEF s, t
<1>5. s \o t = [k \in 1..(1 + 1) |-> both[k]]
  BY <1>4, Concatenated
<1>6. 1..(1 + 1) = 1..2 /\ 1..(0 + 1) = 1..1
  OBVIOUS
<1>7. s \o t = both
  BY <1>3, <1>5, <1>6
<1>8. <<b>> = [k \in 1..1 |-> (<<b>>)[k]]
  OBVIOUS
<1>9. <<>> \o <<b>> = <<b>>
  BY <1>2, <1>6, <1>8
<1> QED
  BY <1>7, <1>9 DEF both, s, t

LEMMA ChecksumCloses ==
  ASSUME NEW parts \in Seq(Bytes)
  PROVE  Sum16(parts) + Checksum16(parts) = B * B - 1
<1>1. Sum16(parts) \in Int
  BY SumIsInt
<1>2. B * B \in Nat
  BY ProductIsNat, RefusalAssumption
<1> DEFINE s == Sum16(parts)
           b == B * B
<1> HIDE DEF s, b
<1>3. Checksum16(parts) = b - 1 - s
  BY DEF Checksum16, s, b
<1> QED
  BY <1>1, <1>2, <1>3 DEF s, b

LEMMA AnswerIsProper ==
  ASSUME NEW p \in Packets, UnicastAddressable(p.src), UnicastAddressable(p.dst),
         NEW r, r \in Answers(p, Parse(p).proto), r.outcome = "Sent"
  PROVE  Proper(p, r.answer)
<1> DEFINE proto == Parse(p).proto
           a == r.answer
<1>1. {p.src, p.dst} \subseteq {"here", "there"}
  BY DEF UnicastAddressable
<1>2. p.pseudo \in Bytes /\ p.payload \in Bytes /\ <<>> \in Bytes
  BY LayoutOf DEF Bytes
<1>3. r \in (IF proto = "tcp" THEN RejectTcp(p) ELSE IF proto = "udp" THEN RejectUdp(p) ELSE Unsupported)
  BY DEF Answers
<1> HIDE DEF proto
<1>4. \A socket, answer : r \in Emit(socket, answer) => a = answer
  BY DEF Emit, SendRaw
<1>5. r \notin Unsupported
  BY DEF Unsupported
<1>6. ASSUME proto \in {"tcp", "udp"}
      PROVE  /\ proto = p.upper /\ Parse(p).off = TrueL4(p) /\ LaterFragments(p) = {}
             /\ TrueL4(p) \in Nat /\ Cap(p) >= TrueL4(p) + 4 /\ L4Offset(p) \in {Lost, TrueL4(p)}
  BY <1>6, ParsedRight DEF proto
<1>7. CASE proto = "tcp"
  <2>1. r \in RejectTcp(p)
    BY <1>3, <1>7
  <2>2. MayReset(p) /\ \E socket : r \in Emit(socket, BuildTcpRst(p))
    BY <1>5, <2>1 DEF RejectTcp
  <2>3. a = BuildTcpRst(p)
    BY <1>4, <2>2
  <2>4. /\ a.from = p.dst /\ a.to = p.src /\ a.kind = "rst" /\ a.fields = RstFields(p) /\ a.body = <<>>
        /\ a.sum = Checksum16(<<p.pseudo>>)
    BY <2>3 DEF BuildTcpRst, Envelope
  <2> HIDE DEF a
  <2>5. "RST" \notin p.flags /\ L4Offset(p) = TrueL4(p) /\ TrueL4(p) \in Nat /\ p.upper = "tcp"
    BY <1>6, <1>7, <2>2 DEF MayReset
  <2>6. AcceptedBySender(p, a.fields)
    BY <2>2, <2>4, <2>5, ResetAccepted
  <2>7. Sum16(<<p.pseudo, <<>>>>) + a.sum = B * B - 1
    <3>1. <<p.pseudo>> \in Seq(Bytes)
      BY <1>2
    <3> QED
      BY <1>2, <2>4, <3>1, ChecksumCloses, EmptyPartAddsNothing
  <2>8. <<p.pseudo>> \o <<a.body>> = <<p.pseudo, <<>>>>
    BY <2>4, PairIsJoined
  <2>9. (IF a.kind = "unreachable" /\ p.version = 4 THEN <<>> ELSE <<p.pseudo>>) \o <<a.body>> = <<p.pseudo, <<>>>>
    BY <2>4, <2>8
  <2>10. a.kind = "rst" => "RST" \notin p.flags /\ AcceptedBySender(p, a.fields)
    BY <2>5, <2>6
  <2>11. a.kind = "unreachable" => a.quote >= TrueL4(p) + 4
    BY <2>4
  <2>12. Parse(p).off = TrueL4(p) /\ LaterFragments(p) = {} /\ a.from = p.dst /\ a.to = p.src
    BY <1>6, <1>7, <2>4
  <2>13. Sum16((IF a.kind = "unreachable" /\ p.version = 4 THEN <<>> ELSE <<p.pseudo>>) \o <<a.body>>) + a.sum = B * B - 1
    BY <2>7, <2>9
  <2>14. Proper(p, a)
    BY <1>1, <2>10, <2>11, <2>12, <2>13 DEF Proper
  <2> QED
    BY <2>14 DEF a
<1>8. CASE proto = "udp"
  <2>1. r \in RejectUdp(p) /\ "udp" # "tcp"
    BY <1>3, <1>8
  <2>2. CanQuote(p) /\ \E socket : r \in Emit(socket, BuildIcmpPortUnreachable(p))
    BY <1>5, <2>1 DEF RejectUdp
  <2>3. a = BuildIcmpPortUnreachable(p)
    BY <1>4, <2>2
  <2> DEFINE parts == IF p.version = 4 THEN <<p.payload>> ELSE <<p.pseudo, p.payload>>
  <2>4. /\ a.from = p.dst /\ a.to = p.src /\ a.kind = "unreachable" /\ a.quote = QuoteLen(p) /\ a.body = p.payload
        /\ a.sum = Checksum16(parts)
    BY <2>3 DEF BuildIcmpPortUnreachable, Envelope
  <2> HIDE DEF a
  <2>5. QuoteLen(p) >= TrueL4(p) + 4
    BY <1>6, <1>8, <2>2 DEF CanQuote, QuoteLen
  <2>6. parts \in Seq(Bytes)
    BY <1>2
  <2>7. Sum16(parts) + a.sum = B * B - 1
    BY <2>4, <2>6, ChecksumCloses
  <2>8. (IF p.version = 4 THEN <<>> ELSE <<p.pseudo>>) \o <<p.payload>> = parts
    <3>1. <<>> \o <<p.payload>> = <<p.payload>> /\ <<p.pseudo>> \o <<p.payload>> = <<p.pseudo, p.payload>>
      BY PairIsJoined
    <3> QED
      BY <3>1
  <2> HIDE DEF parts
  <2>9. (IF a.kind = "unreachable" /\ p.version = 4 THEN <<>> ELSE <<p.pseudo>>) \o <<a.body>> = parts
    BY <2>4, <2>8
  <2>10. a.kind = "rst" => "RST" \notin p.flags /\ AcceptedBySender(p, a.fields)
    BY <2>4
  <2>11. a.kind = "unreachable" => a.quote >= TrueL4(p) + 4
    BY <2>4, <2>5
  <2>12. Parse(p).off = TrueL4(p) /\ LaterFragments(p) = {} /\ a.from = p.dst /\ a.to = p.src
    BY <1>6, <1>8, <2>4
  <2>13. Sum16((IF a.kind = "unreachable" /\ p.version = 4 THEN <<>> ELSE <<p.pseudo>>) \o <<a.body>>) + a.sum = B * B - 1
    BY <2>7, <2>9
  <2>14. Proper(p, a)
    BY <1>1, <2>10, <2>11, <2>12, <2>13 DEF Proper
  <2> QED
    BY <2>14 DEF a
<1>9. proto \in {"tcp", "udp"}
  BY <1>3, <1>5
<1> QED
  BY <1>7, <1>8, <1>9

\* Whatever packet is refused, what goes out is an answer its sender takes for its own
\* connection: from the address it dialled, with a checksum that verifies, at a sequence
\* number it accepts, about the ports it used, whatever headers came before them.
THEOREM RefusalIsForItsSenderHolds == RefusalInit /\ [][RefusalNext]_refusalVars => []RefusalIsForItsSender
<1>1. RefusalIsForItsSender <=> (sent.outcome = "Sent" => Proper(sent.packet, sent.answer))
  BY DEF RefusalIsForItsSender, Proper
<1>2. RefusalInit => RefusalIsForItsSender
  BY <1>1 DEF RefusalInit
<1>3. RefusalIsForItsSender /\ [RefusalNext]_refusalVars => RefusalIsForItsSender'
  <2> SUFFICES ASSUME RefusalIsForItsSender, [RefusalNext]_refusalVars PROVE RefusalIsForItsSender'
    OBVIOUS
  <2>1. ASSUME sent' = sent PROVE RefusalIsForItsSender'
    BY <2>1 DEF RefusalIsForItsSender
  <2>2. ASSUME NEW p \in Packets, Reject(p) PROVE RefusalIsForItsSender'
    <3>1. \/ sent'.outcome # "Sent"
          \/ /\ UnicastAddressable(p.src) /\ UnicastAddressable(p.dst)
             /\ \E r \in Answers(p, Parse(p).proto) :
                  sent' = [outcome |-> r.outcome, answer |-> r.answer, packet |-> p]
      BY <2>2 DEF Reject
    <3>2. sent'.outcome = "Sent" => Proper(sent'.packet, sent'.answer)
      BY <3>1, AnswerIsProper
    <3> QED
      BY <3>2 DEF RefusalIsForItsSender, Proper
  <2> QED
    BY <2>1, <2>2 DEF RefusalNext, Tick, refusalVars
<1> HIDE DEF RefusalIsForItsSender
<1> QED
  BY <1>2, <1>3, PTL

-----------------------------------------------------------------------------
(* The copy of a DNS response *)

LEMMA MaxIs ==
  ASSUME NEW n \in Nat, NEW S \in SUBSET (0..n), S # {}
  PROVE  Max(S) \in S /\ \A y \in S : Max(S) >= y
<1> DEFINE T == {n - x : x \in S}
<1>1. T \in SUBSET Nat /\ T # {}
  <2>1. \A x \in S : x \in 0..n
    OBVIOUS
  <2>2. \A x \in S : n - x \in Nat
    BY <2>1
  <2> QED
    BY <2>2
<1>2. PICK t \in T : \A u \in T : t <= u
  <2> HIDE DEF T
  <2> QED
    BY <1>1, NatLeast
<1>3. PICK x \in S : t = n - x
  OBVIOUS
<1>4. \A y \in S : x >= y
  <2> SUFFICES ASSUME NEW y \in S PROVE x >= y
    OBVIOUS
  <2>1. n - y \in T
    OBVIOUS
  <2>2. n - x <= n - y
    BY <1>2, <1>3, <2>1
  <2>3. x \in Nat /\ y \in Nat
    OBVIOUS
  <2> HIDE DEF T
  <2> QED
    BY <2>2, <2>3
<1> QED
  BY <1>4 DEF Max

LEMMA MinWithBuf ==
  ASSUME NEW a \in Int, NEW b \in Int
  PROVE  /\ Min({a, b, BufLen}) \in Int /\ Min({a, b, BufLen}) <= a
         /\ Min({a, b, BufLen}) <= b /\ Min({a, b, BufLen}) <= 512
<1> DEFINE S == {a, b, 512}
<1>1. \E x \in S : \A y \in S : x <= y
  <2>1. CASE a <= b /\ a <= 512
    BY <2>1
  <2>2. CASE b <= a /\ b <= 512
    BY <2>2
  <2>3. CASE 512 <= a /\ 512 <= b
    BY <2>3
  <2> QED
    BY <2>1, <2>2, <2>3
<1>2. S \in SUBSET Int /\ a \in S /\ b \in S /\ 512 \in S
  OBVIOUS
<1>3. Min({a, b, BufLen}) = Min(S)
  BY DEF BufLen
<1> HIDE DEF S
<1>4. Min(S) \in S /\ \A y \in S : Min(S) <= y
  BY <1>1 DEF Min
<1> QED
  BY <1>2, <1>3, <1>4

\* The three passes of the copy meet: what the coarse ladder leaves is under 64
\* bytes, what the fine one leaves under 8, and the last read covers that.
LEMMA CopiesAll ==
  ASSUME NEW d, NEW offset \in Nat, NEW len \in Nat, d.skbLen \in Nat,
         offset + len <= d.skbLen, HeaderLen <= len, len <= BufLen
  PROVE  CopyPayload(d, offset, len) = [total |-> len, written |-> 0..(len - 1)]
<1> DEFINE C == {0} \cup {n \in CoarseRungs : n <= len /\ CanLoad(d, offset, n)}
           coarse == Max(C)
           F == {0} \cup {n \in FineRungs : n <= len - coarse /\ CanLoad(d, offset + coarse, n)}
           fine == Max(F)
           whole == len >= BufLen /\ CanLoad(d, offset, BufLen)
           tail == coarse + fine < len /\ CanLoad(d, offset + len - 8, 8)
<1>1. CopyPayload(d, offset, len) =
        IF whole THEN [total |-> BufLen, written |-> 0..(BufLen - 1)]
        ELSE [total |-> IF tail THEN len ELSE coarse + fine,
              written |-> 0..(coarse + fine - 1) \cup IF tail THEN (len - 8)..(len - 1) ELSE {}]
  BY DEF CopyPayload
<1>2. 12 <= len /\ len <= 512 /\ \A o, n \in Nat : CanLoad(d, o, n) <=> o + n <= d.skbLen
  BY DEF HeaderLen, BufLen, CanLoad
<1>3. CASE len = 512
  <2>1. whole
    BY <1>2, <1>3 DEF BufLen
  <2>2. BufLen = len
    BY <1>3 DEF BufLen
  <2> HIDE DEF whole, coarse, fine, tail
  <2> QED
    BY <1>1, <2>1, <2>2
<1>4. CASE len < 512
  <2>1. ~whole
    BY <1>4 DEF BufLen
  <2>2. C \in SUBSET (0..512) /\ C # {}
    BY <1>2 DEF CoarseRungs
  <2>3. coarse \in C /\ \A y \in C : coarse >= y
    <3>1. 512 \in Nat
      OBVIOUS
    <3>2. coarse = Max(C)
      OBVIOUS
    <3> HIDE DEF C, coarse
    <3>3. Max(C) \in C /\ \A y \in C : Max(C) >= y
      BY <2>2, <3>1, MaxIs
    <3> QED
      BY <3>2, <3>3
  <2> HIDE DEF coarse
  <2>4. PICK k \in 0..7 : coarse = 64 * k /\ 64 * k <= len
    BY <2>3 DEF CoarseRungs
  <2>5. len - 64 * k < 64
    <3>1. SUFFICES ASSUME 64 * (k + 1) <= len PROVE FALSE
      BY <2>4
    <3>2. k + 1 \in 1..7
      BY <1>4, <3>1
    <3>3. 64 * (k + 1) \in CoarseRungs
      BY <3>2 DEF CoarseRungs
    <3>4. CanLoad(d, offset, 64 * (k + 1))
      BY <3>1, <3>2 DEF CanLoad
    <3>5. 64 * (k + 1) \in C
      BY <3>1, <3>3, <3>4
    <3>6. 64 * k >= 64 * (k + 1)
      BY <2>3, <2>4, <3>5
    <3> QED
      BY <3>6
  <2>6. coarse \in Nat /\ coarse <= len /\ len - coarse < 64
    BY <2>4, <2>5
  <2>7. F \in SUBSET (0..512) /\ F # {}
    BY <2>6 DEF FineRungs
  <2>8. fine \in F /\ \A y \in F : fine >= y
    <3>1. 512 \in Nat
      OBVIOUS
    <3>2. fine = Max(F)
      OBVIOUS
    <3> HIDE DEF F, fine
    <3>3. Max(F) \in F /\ \A y \in F : Max(F) >= y
      BY <2>7, <3>1, MaxIs
    <3> QED
      BY <3>2, <3>3
  <2> HIDE DEF fine
  <2>9. PICK j \in 0..7 : fine = 8 * j /\ 8 * j <= len - coarse
    BY <2>6, <2>8 DEF FineRungs
  <2>10. len - coarse - 8 * j < 8
    <3>1. SUFFICES ASSUME 8 * (j + 1) <= len - coarse PROVE FALSE
      BY <2>6, <2>9
    <3>2. j + 1 \in 1..7
      BY <2>6, <3>1
    <3>3. 8 * (j + 1) \in FineRungs
      BY <3>2 DEF FineRungs
    <3>4. CanLoad(d, offset + coarse, 8 * (j + 1))
      BY <2>6, <3>1, <3>2 DEF CanLoad
    <3>5. 8 * (j + 1) \in F
      BY <3>1, <3>3, <3>4
    <3>6. 8 * j >= 8 * (j + 1)
      BY <2>8, <2>9, <3>5
    <3> QED
      BY <3>6
  <2> DEFINE read == coarse + fine
  <2>11. read \in Nat /\ read <= len /\ len - read < 8
    BY <2>6, <2>9, <2>10
  <2>12. CanLoad(d, offset + len - 8, 8)
    BY <1>2 DEF CanLoad
  <2>13. CopyPayload(d, offset, len) =
           [total |-> IF read < len THEN len ELSE read,
            written |-> 0..(read - 1) \cup IF read < len THEN (len - 8)..(len - 1) ELSE {}]
    <3>1. tail <=> read < len
      BY <2>12
    <3>2. CopyPayload(d, offset, len) =
            [total |-> IF tail THEN len ELSE coarse + fine,
             written |-> 0..(coarse + fine - 1) \cup IF tail THEN (len - 8)..(len - 1) ELSE {}]
      <4> HIDE DEF whole, tail, coarse, fine
      <4> QED
        BY <1>1, <2>1
    <3> DEFINE front == 0..(coarse + fine - 1)
               back == (len - 8)..(len - 1)
    <3>3. /\ CopyPayload(d, offset, len) =
                [total |-> IF tail THEN len ELSE read, written |-> front \cup IF tail THEN back ELSE {}]
          /\ front = 0..(read - 1)
      <4> HIDE DEF whole, tail, coarse, fine
      <4>1. CopyPayload(d, offset, len) =
                [total |-> IF tail THEN len ELSE read, written |-> front \cup IF tail THEN back ELSE {}]
        BY <3>2, Zenon
      <4>2. front = 0..(read - 1)
        BY <2>6, <2>9
      <4> HIDE DEF front, read, back
      <4> QED
        BY <4>1, <4>2, Zenon
    <3> HIDE DEF tail, read, front
    <3>4. /\ (IF tail THEN len ELSE read) = IF read < len THEN len ELSE read
          /\ (IF tail THEN back ELSE {}) = IF read < len THEN back ELSE {}
      BY <3>1
    <3> HIDE DEF back
    <3>5. CopyPayload(d, offset, len) =
            [total |-> IF read < len THEN len ELSE read, written |-> front \cup IF read < len THEN back ELSE {}]
      BY <3>3, <3>4, Zenon
    <3> QED
      BY <3>3, <3>5, Zenon DEF back
  <2> HIDE DEF read
  <2>14. (IF read < len THEN len ELSE read) = len
    BY <2>11
  <2>15. 0..(read - 1) \cup (IF read < len THEN (len - 8)..(len - 1) ELSE {}) = 0..(len - 1)
    <3>1. CASE read < len
      BY <1>2, <2>11, <3>1
    <3>2. CASE ~(read < len)
      BY <2>11, <3>2
    <3> QED
      BY <3>1, <3>2
  <2> QED
    BY <2>13, <2>14, <2>15
<1> QED
  BY <1>2, <1>3, <1>4

\* The rungs are eight bytes apart.
LEMMA PrefixReaches ==
  ASSUME NEW d, d.skbLen \in Nat, d.skbLen >= MinPacket
  PROVE  LoadPrefix(d) \in Nat /\ (LoadPrefix(d) >= ScratchLen \/ LoadPrefix(d) > d.skbLen - 8)
<1> DEFINE S == {n \in PrefixRungs : n <= d.skbLen /\ CanLoad(d, 0, n)}
<1>1. \A n \in {40, 48, 56, 64, 72, 80} : n <= d.skbLen => n \in S
  BY DEF PrefixRungs, CanLoad, MinPacket, HeaderLen, ScratchLen
<1>2. 40 \in S
  BY <1>1 DEF MinPacket, HeaderLen
<1>3. S \in SUBSET (0..80)
  BY DEF PrefixRungs, MinPacket, HeaderLen, ScratchLen
<1>4. LoadPrefix(d) = Max(S)
  BY <1>2 DEF LoadPrefix, LargestOf
<1> HIDE DEF S
<1>5. Max(S) \in S /\ \A y \in S : Max(S) >= y
  BY <1>2, <1>3, MaxIs
<1> DEFINE m == Max(S)
<1>6. m \in 40..80 /\ \A n \in {40, 48, 56, 64, 72, 80} : n <= d.skbLen => m >= n
  <2>1. m \in S /\ \A y \in S : m >= y
    BY <1>5
  <2> HIDE DEF m
  <2>2. m \in 0..80 /\ m >= 40
    BY <1>2, <1>3, <2>1
  <2> QED
    BY <1>1, <2>1, <2>2
<1> HIDE DEF m
<1>7. m \in Nat /\ (m >= 80 \/ m > d.skbLen - 8)
  BY <1>6
<1> QED
  BY <1>4, <1>7 DEF ScratchLen, m

LEMMA PublishesCarried ==
  ASSUME NEW d \in Datagrams
  PROVE  TryDns(d) = IF IsResponse(d) /\ Carried(d) >= HeaderLen
                       THEN [total |-> Carried(d), written |-> 0..(Carried(d) - 1)]
                       ELSE NotPublished
<1> DEFINE l4 == IF d.version = 4 THEN 20 + d.options ELSE 40
           copied == LoadPrefix(d)
           offset == UdpPayload(d, copied)
           len == Min({d.udpLen - 8, d.skbLen - offset, BufLen})
           ready == /\ d.skbLen >= MinPacket
                    /\ copied # Nowhere /\ offset # Nowhere /\ d.srcPort = 53
                    /\ len >= HeaderLen
                    /\ offset + 3 <= copied /\ d.qr
<1>1. d.skbLen \in Nat /\ d.udpLen \in Nat /\ d.options \in -20..40
  BY DnsAssumption
<1>2. l4 \in 0..60 /\ (d.version = 4 => l4 = 20 + d.options) /\ (d.version # 4 => l4 = 40)
  BY <1>1
<1>3. TryDns(d) = IF ready THEN IF CopyPayload(d, offset, len).total >= HeaderLen
                                  THEN CopyPayload(d, offset, len) ELSE NotPublished
                  ELSE NotPublished
  BY DEF TryDns
<1>4. Carried(d) = Min({d.udpLen - 8, d.skbLen - (l4 + 8), BufLen})
  <2>1. (IF d.version = 4 THEN 28 + d.options ELSE 48) = l4 + 8
    BY <1>1
  <2> HIDE DEF l4
  <2> QED
    BY <2>1 DEF Carried
<1> DEFINE carried == Min({d.udpLen - 8, d.skbLen - (l4 + 8), BufLen})
<1>5. carried \in Int /\ carried <= d.udpLen - 8 /\ carried <= d.skbLen - (l4 + 8) /\ carried <= 512
  <2> DEFINE a == d.udpLen - 8
             b == d.skbLen - (l4 + 8)
  <2>1. a \in Int /\ b \in Int
    BY <1>1, <1>2
  <2> HIDE DEF a, b
  <2>2. /\ Min({a, b, BufLen}) \in Int /\ Min({a, b, BufLen}) <= a
        /\ Min({a, b, BufLen}) <= b /\ Min({a, b, BufLen}) <= 512
    BY <2>1, MinWithBuf
  <2>3. carried = Min({a, b, BufLen})
    BY DEF a, b
  <2> HIDE DEF carried
  <2>4. carried \in Int /\ carried <= a /\ carried <= b /\ carried <= 512
    BY <2>1, <2>2, <2>3
  <2> QED
    BY <2>4 DEF a, b
<1> HIDE DEF l4
<1>6. ASSUME ready PROVE IsResponse(d) /\ carried >= HeaderLen /\ len = carried
  <2>1. /\ d.proto = "udp"
        /\ d.version = 4 => d.options >= 0 /\ d.fragOffset = 0
        /\ offset = l4 + 8
    BY <1>6 DEF UdpPayload, l4
  <2>2. len = carried
    BY <2>1
  <2> QED
    BY <1>6, <2>1, <2>2 DEF IsResponse
<1>7. ASSUME IsResponse(d), carried >= HeaderLen PROVE ready /\ len = carried /\ offset = l4 + 8
  <2>1. d.udpLen >= 20 /\ d.skbLen >= l4 + 20
    BY <1>1, <1>2, <1>5, <1>7 DEF HeaderLen
  <2>2. l4 >= 20
    BY <1>1, <1>2, <1>7 DEF IsResponse
  <2>3. d.skbLen >= MinPacket
    BY <1>1, <1>2, <2>1, <2>2 DEF MinPacket, HeaderLen
  <2>4. copied \in Nat /\ (copied >= 80 \/ copied > d.skbLen - 8)
    BY <1>1, <2>3, PrefixReaches DEF ScratchLen
  <2> HIDE DEF copied
  <2>5. l4 + 11 <= copied
    BY <1>1, <1>2, <2>1, <2>4
  <2>6. l4 + 6 <= copied /\ l4 + 8 <= copied /\ d.udpLen >= 8
    BY <1>1, <1>2, <2>1, <2>4, <2>5
  <2>7. offset = l4 + 8
    BY <1>7, <2>6 DEF UdpPayload, IsResponse, l4
  <2>8. len = carried
    BY <2>7
  <2>9. copied # Nowhere /\ offset # Nowhere /\ offset + 3 <= copied
    BY <1>2, <2>4, <2>5, <2>7 DEF Nowhere
  <2> QED
    BY <1>7, <2>3, <2>7, <2>8, <2>9 DEF IsResponse
<1>8. CASE IsResponse(d) /\ carried >= HeaderLen
  <2>1. ready /\ len = carried /\ offset = l4 + 8
    BY <1>7, <1>8
  <2> DEFINE start == l4 + 8
  <2>2. start \in Nat /\ carried \in Nat /\ start + carried <= d.skbLen /\ carried <= BufLen
    BY <1>1, <1>2, <1>5, <1>8 DEF HeaderLen, BufLen
  <2> HIDE DEF start, carried
  <2>3. CopyPayload(d, start, carried) = [total |-> carried, written |-> 0..(carried - 1)]
    BY <1>1, <1>8, <2>2, CopiesAll
  <2>4. TryDns(d) = IF CopyPayload(d, start, carried).total >= HeaderLen
                      THEN CopyPayload(d, start, carried) ELSE NotPublished
    BY <1>3, <2>1 DEF start
  <2>5. CopyPayload(d, start, carried).total = carried
    BY <2>3
  <2> QED
    BY <1>4, <1>8, <2>3, <2>4, <2>5 DEF carried
<1>9. CASE ~(IsResponse(d) /\ carried >= HeaderLen)
  <2>1. ~ready
    BY <1>6, <1>9
  <2>2. TryDns(d) = NotPublished
    <3> HIDE DEF ready
    <3> QED
      BY <1>3, <2>1
  <2> QED
    BY <1>4, <1>9, <2>2
<1> QED
  BY <1>8, <1>9

CaptureInv ==
  capture.packet # NoName => capture.packet \in Datagrams /\ capture.copy = TryDns(capture.packet)

LEMMA CaptureSteps == CaptureInv /\ [DnsNext]_dnsVars => CaptureInv'
<1> SUFFICES ASSUME CaptureInv, [DnsNext]_dnsVars PROVE CaptureInv'
  OBVIOUS
<1>1. CASE capture' = capture
  BY <1>1 DEF CaptureInv
<1>2. ASSUME NEW d \in Datagrams, Ingress(d) PROVE CaptureInv'
  BY <1>2 DEF Ingress, CaptureInv
<1>3. (\E d \in Datagrams : Ingress(d)) \/ capture' = capture
  BY DEF DnsNext, PublishPayload, Consume, dnsVars
<1> QED
  BY <1>1, <1>2, <1>3

\* The ingress program copies a DNS response whole, up to the buffer's size, and
\* nothing else: no byte is lost to the rounding of its copy ladders, none is
\* counted that was not written (cfc-ebpf try_dns, copy_payload), for packets of
\* every length.
THEOREM CaptureExactHolds == DnsInit /\ [][DnsNext]_dnsVars => []CaptureExact
<1>1. DnsInit => CaptureInv
  BY DEF DnsInit, CaptureInv
<1>2. CaptureInv /\ [DnsNext]_dnsVars => CaptureInv'
  BY CaptureSteps
<1>3. CaptureInv => CaptureExact
  <2> SUFFICES ASSUME CaptureInv, capture.packet # NoName
               PROVE  capture.copy = IF IsResponse(capture.packet) /\ Carried(capture.packet) >= HeaderLen
                        THEN [total |-> Carried(capture.packet), written |-> 0..(Carried(capture.packet) - 1)]
                        ELSE NotPublished
    BY DEF CaptureExact
  <2>1. capture.packet \in Datagrams /\ capture.copy = TryDns(capture.packet)
    BY DEF CaptureInv
  <2> QED
    BY <2>1, PublishesCarried
<1> HIDE DEF CaptureInv, CaptureExact, DnsInit, DnsNext
<1> QED
  BY <1>1, <1>2, <1>3, PTL

-----------------------------------------------------------------------------
(* How the two readers take turns *)

\* What the cursor finds at an offset.
LEMMA AtIs ==
  ASSUME NEW c \in Seq(Nat), NEW o \in Nat
  PROVE  /\ o < Len(c) => At(c, o) = c[o + 1] /\ At(c, o) \in Nat
         /\ ~(o < Len(c)) => At(c, o) = Nowhere
         /\ At(c, o) \in Nat \cup {Nowhere}
<1>1. Len(c) \in Nat
  OBVIOUS
<1>2. o < Len(c) => c[o + 1] \in Nat
  BY <1>1
<1> QED
  BY <1>2 DEF At, Nowhere

\* What each turn of the loops makes of what the turns left would find.
SkipTurns(c) ==
  /\ \A o \in Nat : Skips(c)[0][o] = Nowhere
  /\ \A left \in 1..MaxLabels : \A o \in Nat : Skips(c)[left][o] = SkipLabel(c, o, Skips(c)[left - 1])

ReadTurns(c) ==
  /\ \A o \in Nat : Reads(c)[0][o] = NoName
  /\ \A left \in 1..MaxLabels : \A o \in Nat : Reads(c)[left][o] = ReadLabel(c, o, Reads(c)[left - 1])

LEMMA SkipsTurn == ASSUME NEW c \in Seq(Nat) PROVE SkipTurns(c)
<1> DEFINE S == [Nat -> Int]
           Row(g) == [o \in Nat |-> SkipLabel(c, o, g)]
           F == [n \in 1..MaxLabels |-> [g \in S |-> Row(g)]]
           first == [o \in Nat |-> Nowhere]
           Unfold(f, n) == [o \in Nat |-> IF n = 0 THEN Nowhere ELSE SkipLabel(c, o, f[n - 1])]
           Rec(f) == f = [n \in 0..MaxLabels |-> Unfold(f, n)]
<1>1. MaxLabels \in Nat
  BY ParserAssumption
<1>2. \A g \in S : Row(g) \in S
  <2> SUFFICES ASSUME NEW g \in S, NEW o \in Nat PROVE SkipLabel(c, o, g) \in Int
    OBVIOUS
  <2> DEFINE b == At(c, o)
  <2>1. ASSUME b \in LabelLens PROVE o + 1 + b \in Nat
    <3> HIDE DEF b
    <3> QED
      BY <2>1 DEF LabelLens
  <2> QED
    BY <2>1 DEF SkipLabel, Nowhere
<1>3. F \in [1..MaxLabels -> [S -> S]] /\ first \in S
  <2>1. first \in S
    BY DEF Nowhere
  <2> HIDE DEF Row, first
  <2> QED
    BY <1>2, <2>1
<1>4. PICK f : Unfolds(f, MaxLabels, S, first, F)
  <2> HIDE DEF F, S, first
  <2> QED
    BY <1>1, <1>3, Recursion
<1>5. f \in [0..MaxLabels -> S] /\ f[0] = first /\ \A n \in 1..MaxLabels : f[n] = F[n][f[n - 1]]
  <2> HIDE DEF F, S, first
  <2> QED
    BY <1>4 DEF Unfolds
<1>6. \A n \in 1..MaxLabels : f[n] = Row(f[n - 1])
  <2> SUFFICES ASSUME NEW n \in 1..MaxLabels PROVE f[n] = Row(f[n - 1])
    OBVIOUS
  <2>1. f[n - 1] \in S /\ f[n] = F[n][f[n - 1]]
    <3>1. n - 1 \in 0..MaxLabels
      BY <1>1
    <3> HIDE DEF F, S, first
    <3> QED
      BY <1>5, <3>1
  <2> HIDE DEF S, Row
  <2> QED
    BY <2>1
<1>7. \A n \in 0..MaxLabels : f[n] = Unfold(f, n)
  <2> SUFFICES ASSUME NEW n \in 0..MaxLabels PROVE f[n] = Unfold(f, n)
    OBVIOUS
  <2>1. CASE n = 0
    BY <1>5, <2>1
  <2>2. CASE n # 0
    <3>1. n \in 1..MaxLabels
      BY <1>1, <2>2
    <3> QED
      BY <1>6, <2>2, <3>1
  <2> QED
    BY <2>1, <2>2
<1> HIDE DEF Unfold
<1>8. Rec(f)
  BY <1>5, <1>7
<1>9. Skips(c) = CHOOSE g : Rec(g)
  BY DEF Skips, Unfold
<1> DEFINE r == Skips(c)
<1>10. Rec(r)
  <2>1. \E g : Rec(g)
    BY <1>8
  <2> HIDE DEF Rec
  <2> QED
    BY <1>9, <2>1
<1>11. \A n \in 0..MaxLabels : r[n] = Unfold(r, n)
  <2> HIDE DEF r
  <2> QED
    BY <1>10
<1> HIDE DEF r
<1>12. ASSUME NEW o \in Nat PROVE r[0][o] = Nowhere
  <2>1. r[0] = Unfold(r, 0)
    BY <1>1, <1>11
  <2>2. Unfold(r, 0)[o] = Nowhere
    BY DEF Unfold
  <2> QED
    BY <2>1, <2>2
<1>13. ASSUME NEW n \in 1..MaxLabels, NEW o \in Nat PROVE r[n][o] = SkipLabel(c, o, r[n - 1])
  <2>1. n \in 0..MaxLabels /\ n # 0
    BY <1>1
  <2>2. r[n] = Unfold(r, n)
    BY <1>11, <2>1
  <2>3. Unfold(r, n)[o] = SkipLabel(c, o, r[n - 1])
    BY <2>1 DEF Unfold
  <2> QED
    BY <2>2, <2>3
<1> QED
  BY <1>12, <1>13 DEF SkipTurns, r

Names == [labels : Seq(Seq(Nat)), jumps : Nat, next : Int]

LEMMA NoNameIs == NoName \in Names
<1>1. <<>> \in Seq(Seq(Nat))
  OBVIOUS
<1> QED
  BY <1>1 DEF NoName, Names, Nowhere

\* A turn of read_name finds a name or none, whatever the turns left would find.
LEMMA ReadLabelNames ==
  ASSUME NEW c \in Seq(Nat), NEW o \in Nat, NEW g \in [Nat -> Names]
  PROVE  ReadLabel(c, o, g) \in Names
<1> DEFINE b == At(c, o)
           t == At(c, o + 1)
           p == o + 1 + b
<1>0. t \in Nat \cup {Nowhere} /\ Len(c) \in Nat
  BY AtIs
<1>1. ASSUME b = Ptr, t # Nowhere PROVE g[t] \in Names
  BY <1>0, <1>1
<1>2. ASSUME b \in LabelLens PROVE p \in Nat /\ b \in Nat /\ b # Ptr
  <2> HIDE DEF b
  <2> QED
    BY <1>2 DEF LabelLens, Ptr
<1> DEFINE l == SubSeq(c, o + 2, o + 1 + b)
<1>3. ASSUME b \in LabelLens, o + b < Len(c) PROVE l \in Seq(Nat)
  <2>1. b \in Nat
    BY <1>2, <1>3
  <2> HIDE DEF b
  <2>2. o + 1 \in Nat /\ o + 1 + b <= Len(c) /\ (o + 1) + 1 = o + 2
    BY <1>0, <1>3, <2>1
  <2> QED
    BY <2>1, <2>2, Stretch
<1>4. CASE b = End
  <2>1. <<>> \in Seq(Seq(Nat))
    OBVIOUS
  <2> QED
    BY <1>4, <2>1 DEF ReadLabel, Names
<1>5. CASE b = Ptr /\ t # Nowhere /\ t < o /\ g[t].next # Nowhere
  <2> DEFINE h == g[t]
  <2>1. h \in Names
    BY <1>1, <1>5
  <2>2. ReadLabel(c, o, g) = [labels |-> h.labels, jumps |-> h.jumps + 1, next |-> o + 2]
    BY <1>5 DEF ReadLabel, Ptr, End
  <2> HIDE DEF h
  <2>3. h.labels \in Seq(Seq(Nat)) /\ h.jumps \in Nat
    BY <2>1 DEF Names
  <2>4. h.jumps + 1 \in Nat /\ o + 2 \in Int
    BY <2>3
  <2> QED
    BY <2>2, <2>3, <2>4 DEF Names
<1>6. CASE b \in LabelLens /\ o + b < Len(c) /\ g[p].next # Nowhere
  <2> DEFINE h == g[p]
  <2>1. h \in Names
    BY <1>2, <1>6
  <2>2. ReadLabel(c, o, g) = [labels |-> <<l>> \o h.labels, jumps |-> h.jumps, next |-> h.next]
    <3>1. b # End /\ b # Ptr
      <4> HIDE DEF b
      <4> QED
        BY <1>2, <1>6 DEF LabelLens, End
    <3> QED
      BY <1>6, <3>1 DEF ReadLabel
  <2>3. l \in Seq(Nat)
    BY <1>3, <1>6
  <2> HIDE DEF h, l
  <2>4. <<l>> \o h.labels \in Seq(Seq(Nat))
    <3>1. <<l>> \in Seq(Seq(Nat)) /\ h.labels \in Seq(Seq(Nat))
      BY <2>1, <2>3 DEF Names
    <3> QED
      BY <3>1
  <2> QED
    BY <2>1, <2>2, <2>4 DEF Names
<1>7. CASE ~(b = End) /\ ~(b = Ptr /\ t # Nowhere /\ t < o /\ g[t].next # Nowhere)
           /\ ~(b \in LabelLens /\ o + b < Len(c) /\ g[p].next # Nowhere)
  <2>1. ReadLabel(c, o, g) = NoName
    <3>1. CASE b = Ptr
      <4>1. b \notin LabelLens
        BY <3>1 DEF Ptr, LabelLens
      <4> QED
        BY <1>7, <3>1, <4>1 DEF ReadLabel
    <3>2. CASE b # Ptr
      BY <1>7, <3>2 DEF ReadLabel
    <3> QED
      BY <3>1, <3>2
  <2> QED
    BY <2>1, NoNameIs
<1> QED
  BY <1>4, <1>5, <1>6, <1>7

LEMMA ReadsTurn == ASSUME NEW c \in Seq(Nat) PROVE ReadTurns(c)
<1> DEFINE S == [Nat -> Names]
           Row(g) == [o \in Nat |-> ReadLabel(c, o, g)]
           F == [n \in 1..MaxLabels |-> [g \in S |-> Row(g)]]
           first == [o \in Nat |-> NoName]
           Unfold(f, n) == [o \in Nat |-> IF n = 0 THEN NoName ELSE ReadLabel(c, o, f[n - 1])]
           Rec(f) == f = [n \in 0..MaxLabels |-> Unfold(f, n)]
<1>1. MaxLabels \in Nat
  BY ParserAssumption
<1>2. \A g \in S : Row(g) \in S
  <2> SUFFICES ASSUME NEW g \in S, NEW o \in Nat PROVE ReadLabel(c, o, g) \in Names
    OBVIOUS
  <2> QED
    BY ReadLabelNames
<1>3. F \in [1..MaxLabels -> [S -> S]] /\ first \in S
  <2>1. first \in S
    BY NoNameIs
  <2> HIDE DEF Row, first
  <2> QED
    BY <1>2, <2>1
<1>4. PICK f : Unfolds(f, MaxLabels, S, first, F)
  <2> HIDE DEF F, S, first
  <2> QED
    BY <1>1, <1>3, Recursion
<1>5. f \in [0..MaxLabels -> S] /\ f[0] = first /\ \A n \in 1..MaxLabels : f[n] = F[n][f[n - 1]]
  <2> HIDE DEF F, S, first
  <2> QED
    BY <1>4 DEF Unfolds
<1>6. \A n \in 1..MaxLabels : f[n] = Row(f[n - 1])
  <2> SUFFICES ASSUME NEW n \in 1..MaxLabels PROVE f[n] = Row(f[n - 1])
    OBVIOUS
  <2>1. f[n - 1] \in S /\ f[n] = F[n][f[n - 1]]
    <3>1. n - 1 \in 0..MaxLabels
      BY <1>1
    <3> HIDE DEF F, S, first
    <3> QED
      BY <1>5, <3>1
  <2> HIDE DEF S, Row
  <2> QED
    BY <2>1
<1>7. \A n \in 0..MaxLabels : f[n] = Unfold(f, n)
  <2> SUFFICES ASSUME NEW n \in 0..MaxLabels PROVE f[n] = Unfold(f, n)
    OBVIOUS
  <2>1. CASE n = 0
    BY <1>5, <2>1
  <2>2. CASE n # 0
    <3>1. n \in 1..MaxLabels
      BY <1>1, <2>2
    <3> QED
      BY <1>6, <2>2, <3>1
  <2> QED
    BY <2>1, <2>2
<1> HIDE DEF Unfold
<1>8. Rec(f)
  BY <1>5, <1>7
<1>9. Reads(c) = CHOOSE g : Rec(g)
  BY DEF Reads, Unfold
<1> DEFINE r == Reads(c)
<1>10. Rec(r)
  <2>1. \E g : Rec(g)
    BY <1>8
  <2> HIDE DEF Rec
  <2> QED
    BY <1>9, <2>1
<1>11. \A n \in 0..MaxLabels : r[n] = Unfold(r, n)
  <2> HIDE DEF r
  <2> QED
    BY <1>10
<1> HIDE DEF r
<1>12. ASSUME NEW o \in Nat PROVE r[0][o] = NoName
  <2>1. r[0] = Unfold(r, 0)
    BY <1>1, <1>11
  <2>2. Unfold(r, 0)[o] = NoName
    BY DEF Unfold
  <2> QED
    BY <2>1, <2>2
<1>13. ASSUME NEW n \in 1..MaxLabels, NEW o \in Nat PROVE r[n][o] = ReadLabel(c, o, r[n - 1])
  <2>1. n \in 0..MaxLabels /\ n # 0
    BY <1>1
  <2>2. r[n] = Unfold(r, n)
    BY <1>11, <2>1
  <2>3. Unfold(r, n)[o] = ReadLabel(c, o, r[n - 1])
    BY <2>1 DEF Unfold
  <2> QED
    BY <2>2, <2>3
<1> QED
  BY <1>12, <1>13 DEF ReadTurns, r

-----------------------------------------------------------------------------
(* A name found at an offset *)

\* A name spelled or pointed to at o: whoever has turns enough finds it, and
\* what comes behind it; whoever has not finds no name.
NameAt(c, o, name, jumps, next) ==
  \A left \in 0..MaxLabels :
    Reads(c)[left][o] = IF Len(name) + jumps < left THEN [labels |-> name, jumps |-> jumps, next |-> next]
                        ELSE NoName
NoNameAt(c, o) == \A left \in 0..MaxLabels : Reads(c)[left][o] = NoName

StepsAt(c, o, n, next) == \A left \in 0..MaxLabels : Skips(c)[left][o] = IF n < left THEN next ELSE Nowhere
NoStepsAt(c, o) == \A left \in 0..MaxLabels : Skips(c)[left][o] = Nowhere

\* The turns, one at a time.
LEMMA TurnAt ==
  ASSUME NEW c \in Seq(Nat), NEW o \in Nat
  PROVE  /\ Reads(c)[0][o] = NoName /\ Skips(c)[0][o] = Nowhere
         /\ \A left \in 0..MaxLabels : left # 0 =>
              /\ left - 1 \in 0..MaxLabels /\ left \in Nat
              /\ Reads(c)[left][o] = ReadLabel(c, o, Reads(c)[left - 1])
              /\ Skips(c)[left][o] = SkipLabel(c, o, Skips(c)[left - 1])
<1>1. MaxLabels \in Nat
  BY ParserAssumption
<1>2. \A left \in 0..MaxLabels : left # 0 => left \in 1..MaxLabels /\ left - 1 \in 0..MaxLabels /\ left \in Nat
  BY <1>1
<1>3. SkipTurns(c) /\ ReadTurns(c)
  BY SkipsTurn, ReadsTurn
<1> QED
  BY <1>2, <1>3 DEF SkipTurns, ReadTurns

\* A name that ends here.
LEMMA NameEnds ==
  ASSUME NEW c \in Seq(Nat), NEW o \in Nat, At(c, o) = End
  PROVE  NameAt(c, o, <<>>, 0, o + 1) /\ StepsAt(c, o, 0, o + 1)
<1>1. \A g : ReadLabel(c, o, g) = [labels |-> <<>>, jumps |-> 0, next |-> o + 1] /\ SkipLabel(c, o, g) = o + 1
  BY DEF ReadLabel, SkipLabel
<1>2. Len(<<>>) + 0 = 0
  OBVIOUS
<1>3. ASSUME NEW left \in 0..MaxLabels
      PROVE  /\ Reads(c)[left][o] = IF 0 < left THEN [labels |-> <<>>, jumps |-> 0, next |-> o + 1] ELSE NoName
             /\ Skips(c)[left][o] = IF 0 < left THEN o + 1 ELSE Nowhere
  <2>1. CASE left = 0
    BY <2>1, TurnAt
  <2>2. CASE left # 0
    <3>1. 0 < left
      BY <2>2, TurnAt
    <3> QED
      BY <1>1, <2>2, <3>1, TurnAt
  <2> QED
    BY <2>1, <2>2
<1> QED
  BY <1>2, <1>3 DEF NameAt, StepsAt

\* A pointer back to a name found there is that name, one jump further away.
LEMMA NamePoints ==
  ASSUME NEW c \in Seq(Nat), NEW o \in Nat, At(c, o) = Ptr,
         NEW t \in Nat, At(c, o + 1) = t, t < o,
         NEW name, Len(name) \in Nat, NEW jumps \in Nat, NEW next \in Nat, NameAt(c, t, name, jumps, next)
  PROVE  NameAt(c, o, name, jumps + 1, o + 2)
<1> DEFINE far(j, x) == [labels |-> name, jumps |-> j, next |-> x]
<1> SUFFICES ASSUME NEW left \in 0..MaxLabels
             PROVE  Reads(c)[left][o] = IF Len(name) + (jumps + 1) < left THEN far(jumps + 1, o + 2) ELSE NoName
  BY DEF NameAt
<1>1. CASE left = 0
  BY <1>1, TurnAt
<1>2. CASE left # 0
  <2>1. left \in Nat /\ left - 1 \in 0..MaxLabels
    BY <1>2, TurnAt
  <2> DEFINE g == Reads(c)[left - 1]
  <2>2. Reads(c)[left][o] = ReadLabel(c, o, g)
    BY <1>2, TurnAt
  <2>3. g[t] = IF Len(name) + jumps < left - 1 THEN far(jumps, next) ELSE NoName
    BY <2>1 DEF NameAt
  <2>4. ReadLabel(c, o, g) = IF g[t].next # Nowhere
                               THEN [labels |-> g[t].labels, jumps |-> g[t].jumps + 1, next |-> o + 2] ELSE NoName
    <3>1. Ptr # End /\ Ptr \notin LabelLens /\ t # Nowhere
      BY DEF Ptr, End, LabelLens, Nowhere
    <3> HIDE DEF g
    <3> QED
      BY <3>1 DEF ReadLabel
  <2> HIDE DEF g
  <2>5. Len(name) + jumps < left - 1 <=> Len(name) + (jumps + 1) < left
    BY <2>1
  <2>6. CASE Len(name) + jumps < left - 1
    <3>1. g[t].next = next /\ g[t].labels = name /\ g[t].jumps = jumps /\ next # Nowhere
      BY <2>3, <2>6 DEF Nowhere
    <3> QED
      BY <2>2, <2>4, <2>5, <2>6, <3>1
  <2>7. CASE ~(Len(name) + jumps < left - 1)
    <3>1. g[t].next = Nowhere
      BY <2>3, <2>7 DEF NoName
    <3> QED
      BY <2>2, <2>4, <2>5, <2>7, <3>1
  <2> QED
    BY <2>6, <2>7
<1> QED
  BY <1>1, <1>2

\* A name is stepped over at its first pointer.
LEMMA StepsOverPointer ==
  ASSUME NEW c \in Seq(Nat), NEW o \in Nat, At(c, o) = Ptr, At(c, o + 1) # Nowhere
  PROVE  StepsAt(c, o, 0, o + 2)
<1>1. \A g : SkipLabel(c, o, g) = o + 2
  BY DEF SkipLabel, Ptr, End
<1> SUFFICES ASSUME NEW left \in 0..MaxLabels
             PROVE  Skips(c)[left][o] = IF 0 < left THEN o + 2 ELSE Nowhere
  BY DEF StepsAt
<1>2. CASE left = 0
  BY <1>2, TurnAt
<1>3. CASE left # 0
  <2>1. 0 < left
    BY <1>3, TurnAt
  <2> QED
    BY <1>1, <1>3, <2>1, TurnAt
<1> QED
  BY <1>2, <1>3

LEMMA LabelLen ==
  ASSUME NEW l \in Label
  PROVE  Len(l) \in LabelLens /\ Len(l) \in Nat /\ Len(l) # End /\ Len(l) # Ptr /\ Len(l) # Nowhere
<1> DEFINE n == Len(l)
<1>1. n \in LabelLens
  BY DEF Label
<1> HIDE DEF n
<1>2. n \in Nat /\ n # End /\ n # Ptr /\ n # Nowhere
  BY <1>1 DEF LabelLens, End, Ptr, Nowhere
<1> QED
  BY <1>1, <1>2 DEF n

\* A label before a name found behind it.
LEMMA NameSpells ==
  ASSUME NEW c \in Seq(Nat), NEW o \in Nat, NEW l \in Label, At(c, o) = Len(l),
         o + Len(l) < Len(c), SubSeq(c, o + 2, o + 1 + Len(l)) = l,
         NEW name \in Seq(Label), NEW jumps \in Nat, NEW next \in Nat,
         NameAt(c, o + 1 + Len(l), name, jumps, next)
  PROVE  NameAt(c, o, <<l>> \o name, jumps, next)
<1> DEFINE far(x) == [labels |-> x, jumps |-> jumps, next |-> next]
           longer == <<l>> \o name
           p == o + 1 + Len(l)
<1>0. Len(longer) = Len(name) + 1 /\ Len(name) \in Nat
  OBVIOUS
<1> SUFFICES ASSUME NEW left \in 0..MaxLabels
             PROVE  Reads(c)[left][o] = IF Len(longer) + jumps < left THEN far(longer) ELSE NoName
  BY DEF NameAt
<1>1. CASE left = 0
  BY <1>0, <1>1, TurnAt
<1>2. CASE left # 0
  <2>1. left \in Nat /\ left - 1 \in 0..MaxLabels
    BY <1>2, TurnAt
  <2> DEFINE g == Reads(c)[left - 1]
  <2>2. Reads(c)[left][o] = ReadLabel(c, o, g)
    BY <1>2, TurnAt
  <2>3. g[p] = IF Len(name) + jumps < left - 1 THEN far(name) ELSE NoName
    BY <2>1 DEF NameAt
  <2>4. ReadLabel(c, o, g) = IF g[p].next # Nowhere 
             THEN [labels |-> <<l>> \o g[p].labels, jumps |-> g[p].jumps, next |-> g[p].next] ELSE NoName
    <3>1. Len(l) # End /\ Len(l) # Ptr /\ Len(l) \in LabelLens
      BY LabelLen
    <3> HIDE DEF g
    <3> QED
      BY <3>1 DEF ReadLabel
  <2> HIDE DEF g, p
  <2>5. Len(name) + jumps < left - 1 <=> Len(longer) + jumps < left
    BY <1>0, <2>1
  <2>6. CASE Len(name) + jumps < left - 1
    <3>1. g[p] = far(name) /\ next # Nowhere
      BY <2>3, <2>6 DEF Nowhere
    <3>2. g[p].next # Nowhere /\ g[p].labels = name /\ g[p].jumps = jumps /\ g[p].next = next
      BY <3>1
    <3> QED
      BY <2>2, <2>4, <2>5, <2>6, <3>2
  <2>7. CASE ~(Len(name) + jumps < left - 1)
    <3>1. g[p].next = Nowhere
      BY <2>3, <2>7 DEF NoName
    <3> QED
      BY <2>2, <2>4, <2>5, <2>7, <3>1
  <2> QED
    BY <2>6, <2>7
<1> QED
  BY <1>1, <1>2

LEMMA StepsOverLabel ==
  ASSUME NEW c \in Seq(Nat), NEW o \in Nat, NEW l \in Label, At(c, o) = Len(l),
         NEW n \in Nat, NEW next \in Nat, StepsAt(c, o + 1 + Len(l), n, next)
  PROVE  StepsAt(c, o, n + 1, next)
<1> DEFINE p == o + 1 + Len(l)
<1>1. \A g : SkipLabel(c, o, g) = g[p]
  BY LabelLen DEF SkipLabel
<1> SUFFICES ASSUME NEW left \in 0..MaxLabels
             PROVE  Skips(c)[left][o] = IF n + 1 < left THEN next ELSE Nowhere
  BY DEF StepsAt
<1>2. CASE left = 0
  BY <1>2, TurnAt
<1>3. CASE left # 0
  <2>1. left \in Nat /\ left - 1 \in 0..MaxLabels
    BY <1>3, TurnAt
  <2>2. Skips(c)[left - 1][p] = IF n < left - 1 THEN next ELSE Nowhere
    BY <2>1 DEF StepsAt
  <2>3. n < left - 1 <=> n + 1 < left
    BY <2>1
  <2>4. Skips(c)[left][o] = Skips(c)[left - 1][p]
    BY <1>1, <1>3, TurnAt
  <2> QED
    BY <2>2, <2>3, <2>4
<1> QED
  BY <1>2, <1>3

\* What the end of the record cuts off, anywhere before it ends, is no name.
LEMMA NameCut ==
  ASSUME NEW c \in Seq(Nat), NEW o \in Nat,
         \/ At(c, o) = Nowhere
         \/ At(c, o) = Ptr /\ At(c, o + 1) = Nowhere
         \/ At(c, o) \in LabelLens /\ NoNameAt(c, o + 1 + At(c, o))
  PROVE  NoNameAt(c, o)
<1> SUFFICES ASSUME NEW left \in 0..MaxLabels PROVE Reads(c)[left][o] = NoName
  BY DEF NoNameAt
<1>1. CASE left = 0
  BY <1>1, TurnAt
<1>2. CASE left # 0
  <2> DEFINE g == Reads(c)[left - 1]
             b == At(c, o)
  <2>1. Reads(c)[left][o] = ReadLabel(c, o, g)
    BY <1>2, TurnAt
  <2>2. CASE b = Nowhere
    BY <2>1, <2>2 DEF ReadLabel, Nowhere, End, Ptr, LabelLens
  <2>3. CASE b = Ptr /\ At(c, o + 1) = Nowhere
    BY <2>1, <2>3 DEF ReadLabel, End, Ptr, LabelLens
  <2>4. CASE b \in LabelLens /\ NoNameAt(c, o + 1 + b)
    <3>1. b # End /\ b # Ptr
      <4> HIDE DEF b
      <4> QED
        BY <2>4 DEF LabelLens, End, Ptr
    <3>2. g[o + 1 + b] = NoName
      BY <1>2, <2>4, TurnAt DEF NoNameAt
    <3>3. ~(g[o + 1 + b].next # Nowhere)
      BY <3>2 DEF NoName
    <3> HIDE DEF g
    <3> QED
      BY <2>1, <3>1, <3>3 DEF ReadLabel
  <2> QED
    BY <2>2, <2>3, <2>4
<1> QED
  BY <1>1, <1>2

LEMMA StepsCut ==
  ASSUME NEW c \in Seq(Nat), NEW o \in Nat,
         \/ At(c, o) = Nowhere
         \/ At(c, o) = Ptr /\ At(c, o + 1) = Nowhere
         \/ At(c, o) \in LabelLens /\ NoStepsAt(c, o + 1 + At(c, o))
  PROVE  NoStepsAt(c, o)
<1> SUFFICES ASSUME NEW left \in 0..MaxLabels PROVE Skips(c)[left][o] = Nowhere
  BY DEF NoStepsAt
<1>1. CASE left = 0
  BY <1>1, TurnAt
<1>2. CASE left # 0
  <2> DEFINE g == Skips(c)[left - 1]
             b == At(c, o)
  <2>1. Skips(c)[left][o] = SkipLabel(c, o, g)
    BY <1>2, TurnAt
  <2>2. CASE b = Nowhere
    BY <2>1, <2>2 DEF SkipLabel, Nowhere, End, Ptr, LabelLens
  <2>3. CASE b = Ptr /\ At(c, o + 1) = Nowhere
    BY <2>1, <2>3 DEF SkipLabel, End, Ptr, LabelLens
  <2>4. CASE b \in LabelLens /\ NoStepsAt(c, o + 1 + b)
    <3>1. b # End /\ b # Ptr
      <4> HIDE DEF b
      <4> QED
        BY <2>4 DEF LabelLens, End, Ptr
    <3>2. g[o + 1 + b] = Nowhere
      BY <1>2, <2>4, TurnAt DEF NoStepsAt
    <3> HIDE DEF g
    <3> QED
      BY <2>1, <2>4, <3>1, <3>2 DEF SkipLabel
  <2> QED
    BY <2>2, <2>3, <2>4
<1> QED
  BY <1>1, <1>2

-----------------------------------------------------------------------------
(* Names spelled out *)

\* Spelling a name out, label by label.
Spells(out, before, name) ==
  /\ out \in [0..Len(name) -> Seq(Nat)] /\ out[0] = before
  /\ \A k \in 1..Len(name) : out[k] = out[k - 1] \o <<Len(name[k])>> \o name[k]

\* The recursion of Spelled has its value at every step.
LEMMA SpelledIs ==
  ASSUME NEW before \in Seq(Nat), NEW name \in Seq(Label)
  PROVE  Spells(Spelled(before, name), before, name)
<1> DEFINE N == Len(name)
           S == Seq(Nat)
           Row(n) == [s \in S |-> s \o <<Len(name[n])>> \o name[n]]
           F == [n \in 1..N |-> Row(n)]
           Unfold(f, n) == IF n = 0 THEN before ELSE f[n - 1] \o <<Len(name[n])>> \o name[n]
           Rec(f) == f = [n \in 0..N |-> Unfold(f, n)]
<1>1. N \in Nat /\ before \in S
  OBVIOUS
<1>2. ASSUME NEW n \in 1..N PROVE name[n] \in Label /\ <<Len(name[n])>> \in Seq(Nat) /\ name[n] \in Seq(Nat)
  <2>1. name[n] \in Label
    OBVIOUS
  <2> DEFINE l == name[n]
  <2> HIDE DEF l
  <2>2. Len(l) \in Nat
    BY <2>1, LabelLen DEF l
  <2>3. l \in Seq(Nat)
    BY <2>1 DEF l, Label
  <2>4. <<Len(l)>> \in Seq(Nat)
    BY <2>2
  <2> QED
    BY <2>1, <2>3, <2>4 DEF l
<1>3. ASSUME NEW n \in 1..N, NEW s \in S PROVE s \o <<Len(name[n])>> \o name[n] \in S
  <2> DEFINE a == <<Len(name[n])>>
             l == name[n]
  <2>1. a \in Seq(Nat) /\ l \in Seq(Nat)
    BY <1>2
  <2> HIDE DEF a, l
  <2>2. s \o a \o l \in Seq(Nat)
    BY <2>1
  <2> QED
    BY <2>2 DEF a, l
<1> HIDE DEF N
<1>4. \A n \in 1..N : Row(n) \in [S -> S]
  BY <1>3
<1>5. F \in [1..N -> [S -> S]]
  <2> HIDE DEF Row, S
  <2> QED
    BY <1>4
<1>6. PICK f : Unfolds(f, N, S, before, F)
  <2> HIDE DEF F, S
  <2> QED
    BY <1>1, <1>5, Recursion
<1>7. f \in [0..N -> S] /\ f[0] = before /\ \A n \in 1..N : f[n] = F[n][f[n - 1]]
  <2> HIDE DEF F, S
  <2> QED
    BY <1>6 DEF Unfolds
<1>8. ASSUME NEW n \in 1..N PROVE f[n] = f[n - 1] \o <<Len(name[n])>> \o name[n]
  <2>1. n - 1 \in 0..N
    BY <1>1
  <2>2. f[n - 1] \in S
    <3> HIDE DEF S
    <3> QED
      BY <1>7, <2>1
  <2>3. f[n] = F[n][f[n - 1]]
    BY <1>7
  <2>4. F[n][f[n - 1]] = Row(n)[f[n - 1]]
    <3> HIDE DEF Row
    <3> QED
      OBVIOUS
  <2> QED
    BY <2>2, <2>3, <2>4
<1>9. \A n \in 0..N : f[n] = Unfold(f, n)
  <2> SUFFICES ASSUME NEW n \in 0..N PROVE f[n] = Unfold(f, n)
    OBVIOUS
  <2>1. CASE n = 0
    BY <1>7, <2>1
  <2>2. CASE n # 0
    <3>1. n \in 1..N
      BY <1>1, <2>2
    <3> QED
      BY <1>8, <2>2, <3>1
  <2> QED
    BY <2>1, <2>2
<1> HIDE DEF Unfold
<1>10. Rec(f)
  BY <1>7, <1>9
<1>11. Spelled(before, name) = CHOOSE g : Rec(g)
  BY DEF Spelled, Unfold, N
<1> DEFINE r == Spelled(before, name)
<1>12. Rec(r)
  <2>1. \E g : Rec(g)
    BY <1>10
  <2> HIDE DEF Rec
  <2> QED
    BY <1>11, <2>1
<1>13. DOMAIN r = 0..N /\ r = [n \in 0..N |-> r[n]] /\ \A n \in 0..N : r[n] = Unfold(r, n)
  <2> HIDE DEF r
  <2> QED
    BY <1>12
<1> HIDE DEF r
<1>14. r[0] = before
  <2>1. r[0] = Unfold(r, 0)
    <3>1. 0 \in 0..N
      BY <1>1
    <3>2. \A n \in 0..N : r[n] = Unfold(r, n)
      BY <1>13
    <3> QED
      BY <3>1, <3>2
  <2> QED
    BY <2>1 DEF Unfold
<1>15. ASSUME NEW n \in 1..N PROVE r[n] = r[n - 1] \o <<Len(name[n])>> \o name[n]
  <2>1. n \in 0..N /\ n # 0
    BY <1>1
  <2>2. r[n] = Unfold(r, n)
    BY <1>13, <2>1
  <2> QED
    BY <2>1, <2>2 DEF Unfold
<1>16. \A n \in 0..N : r[n] \in S
  <2> DEFINE T == {n \in 0..N : r[n] \in S}
  <2>1. 0 \in T
    BY <1>1, <1>14
  <2>2. ASSUME NEW n \in 1..N, n - 1 \in T PROVE n \in T
    <3>1. r[n - 1] \in S /\ n \in 0..N
      BY <1>1, <2>2
    <3>2. r[n - 1] \o <<Len(name[n])>> \o name[n] \in S
      BY <1>3, <3>1 DEF N
    <3> QED
      BY <1>15, <3>1, <3>2
  <2>3. \A n \in 0..N : n \in T
    <3> HIDE DEF T
    <3> QED
      BY <1>1, <2>1, <2>2, Upward
  <2> QED
    BY <2>3
<1>17. r \in [0..N -> S]
  <2> HIDE DEF S
  <2> QED
    BY <1>13, <1>16
<1> QED
  BY <1>14, <1>15, <1>17 DEF Spells, N, r

\* The suffixes of a name, label by label.
SuffixLaws(S, name) ==
  /\ SuffixFrom(name, Len(name) + 1) = <<>> /\ SuffixFrom(name, 1) = name
  /\ \A k \in 1..Len(name) : SuffixFrom(name, k) = <<name[k]>> \o SuffixFrom(name, k + 1)
  /\ \A k \in 1..(Len(name) + 1) : SuffixFrom(name, k) \in Seq(S) /\ Len(SuffixFrom(name, k)) = Len(name) - k + 1

LEMMA SuffixIs == ASSUME NEW S, NEW name \in Seq(S) PROVE SuffixLaws(S, name)
<1>1. Len(name) \in Nat
  OBVIOUS
<1>2. ASSUME NEW k \in 1..(Len(name) + 1)
      PROVE  /\ SuffixFrom(name, k) \in Seq(S) /\ Len(SuffixFrom(name, k)) = Len(name) - k + 1
             /\ \A j \in 1..(Len(name) - k + 1) : SuffixFrom(name, k)[j] = name[k - 1 + j]
  <2> DEFINE m == k - 1
             n == Len(name) - k + 1
  <2>1. m \in Nat /\ n \in Nat /\ m + n = Len(name) /\ m + 1 = k
    BY <1>1
  <2>2. /\ SubSeq(name, m + 1, m + n) \in Seq(S) /\ Len(SubSeq(name, m + 1, m + n)) = n
        /\ \A j \in 1..n : SubSeq(name, m + 1, m + n)[j] = name[m + j]
    <3> HIDE DEF m, n
    <3> QED
      BY <1>1, <2>1, Stretch
  <2>3. SuffixFrom(name, k) = SubSeq(name, m + 1, m + n)
    BY <2>1 DEF SuffixFrom
  <2> QED
    BY <2>2, <2>3
<1>3. SuffixFrom(name, Len(name) + 1) = <<>>
  <2> DEFINE x == SuffixFrom(name, Len(name) + 1)
  <2>1. x \in Seq(S) /\ Len(x) = 0
    BY <1>1, <1>2
  <2> HIDE DEF x
  <2>2. x = <<>>
    BY <2>1
  <2> QED
    BY <2>2 DEF x
<1>4. SuffixFrom(name, 1) = name
  <2> DEFINE x == SuffixFrom(name, 1)
  <2>1. x \in Seq(S) /\ Len(x) = Len(name) /\ \A j \in 1..Len(name) : x[j] = name[j]
    BY <1>1, <1>2
  <2> HIDE DEF x
  <2>2. x = name
    BY <2>1, Alike
  <2> QED
    BY <2>2 DEF x
<1>5. ASSUME NEW k \in 1..Len(name) PROVE SuffixFrom(name, k) = <<name[k]>> \o SuffixFrom(name, k + 1)
  <2> DEFINE x == SuffixFrom(name, k)
             y == SuffixFrom(name, k + 1)
             e == name[k]
             z == <<e>> \o y
             n == Len(name) - k
  <2>1. k \in 1..(Len(name) + 1) /\ k + 1 \in 1..(Len(name) + 1) /\ n \in Nat /\ e \in S
    BY <1>1
  <2>2. x \in Seq(S) /\ Len(x) = n + 1 /\ \A j \in 1..(n + 1) : x[j] = name[k - 1 + j]
    BY <1>1, <1>2, <2>1
  <2>3. y \in Seq(S) /\ Len(y) = n /\ \A j \in 1..n : y[j] = name[k + j]
    <3>1. Len(name) - (k + 1) + 1 = n /\ (k + 1) - 1 = k
      BY <1>1
    <3> QED
      BY <1>2, <2>1, <3>1
  <2> HIDE DEF x, y, n, e
  <2>4. z \in Seq(S) /\ Len(z) = n + 1 /\ z[1] = e /\ \A j \in 2..(n + 1) : z[j] = y[j - 1]
    BY <2>1, <2>3
  <2> HIDE DEF z
  <2>5. ASSUME NEW j \in 1..(n + 1) PROVE x[j] = z[j]
    <3>1. CASE j = 1
      BY <2>2, <2>4, <3>1, <2>1 DEF e
    <3>2. CASE j # 1
      <4>1. j \in 2..(n + 1) /\ j - 1 \in 1..n /\ k + (j - 1) = k - 1 + j
        BY <2>1, <3>2
      <4> QED
        BY <2>2, <2>3, <2>4, <4>1
    <3> QED
      BY <3>1, <3>2
  <2>6. x = z
    BY <2>2, <2>4, <2>5, Alike
  <2> QED
    BY <2>6 DEF x, z, y, e
<1> QED
  BY <1>2, <1>3, <1>4, <1>5 DEF SuffixLaws

\* Label l between two lengths of a spelling.
Labelled(c, p, l, w) ==
  /\ Len(p) \in Nat /\ l \in Label /\ p \in Seq(Nat) /\ w \in Seq(Nat)
  /\ Len(w) = Len(p) + 1 + Len(l) /\ Begins(w, p) /\ w[Len(p) + 1] = Len(l)
  /\ Begins(c, w) => /\ Begins(c, p) /\ At(c, Len(p)) = Len(l) /\ Len(p) + Len(l) < Len(c)
                     /\ SubSeq(c, Len(p) + 2, Len(p) + 1 + Len(l)) = l

LEMMA LabelAt ==
  ASSUME NEW c \in Seq(Nat), NEW before, NEW name \in Seq(Label), NEW out, Spells(out, before, name),
         NEW k \in 1..Len(name)
  PROVE  Labelled(c, out[k - 1], name[k], out[k])
<1> DEFINE p == out[k - 1]
           w == out[k]
           l == name[k]
           o == Len(p)
           a == <<Len(l)>>
           n == Len(l)
<1>1. p \in Seq(Nat) /\ w = p \o a \o l /\ w \in Seq(Nat) /\ l \in Label
  <2>1. k - 1 \in 0..Len(name) /\ k \in 0..Len(name)
    OBVIOUS
  <2>2. out \in [0..Len(name) -> Seq(Nat)]
    BY DEF Spells
  <2>3. w = p \o a \o l
    BY DEF Spells
  <2>4. p \in Seq(Nat) /\ w \in Seq(Nat) /\ l \in Label
    <3>1. p \in Seq(Nat) /\ w \in Seq(Nat)
      BY <2>1, <2>2
    <3>2. l \in Label
      OBVIOUS
    <3> QED
      BY <3>1, <3>2
  <2> QED
    BY <2>3, <2>4
<1> HIDE DEF p, w, l
<1>2. l \in Seq(Nat) /\ n \in Nat
  BY <1>1, LabelLen DEF Label
<1> HIDE DEF n
<1>3. a \in Seq(Nat) /\ Len(a) = 1 /\ a[1] = n
  BY <1>2 DEF n
<1> HIDE DEF a
<1>4. p \o a \in Seq(Nat) /\ Len(p \o a) = o + 1 /\ o \in Nat
  <2>1. p \in Seq(Nat)
    BY <1>1
  <2>2. a \in Seq(Nat) /\ Len(a) = 1
    BY <1>3
  <2>3. p \o a \in Seq(Nat) /\ Len(p \o a) = Len(p) + Len(a) /\ Len(p) \in Nat
    BY <2>1, <2>2, Join
  <2> QED
    BY <2>2, <2>3
<1> DEFINE q == p \o a
<1>5. q \in Seq(Nat) /\ w = q \o l /\ q = p \o a /\ Len(q) = o + 1
  BY <1>1, <1>4
<1> HIDE DEF q
<1>6. Len(w) = o + 1 + n
  <2>1. Len(q \o l) = Len(q) + Len(l)
    BY <1>2, <1>5, Join
  <2> QED
    BY <1>5, <2>1 DEF n
<1>7. ASSUME NEW d \in Seq(Nat), Begins(d, w)
      PROVE  /\ Begins(d, p) /\ d[o + 1] = n /\ o + 1 + n <= Len(d)
             /\ \A j \in 1..n : d[o + 1 + j] = l[j]
  <2>1. Begins(d, q \o l)
    BY <1>5, <1>7
  <2>2. Begins(d, q) /\ Len(q) + Len(l) <= Len(d) /\ \A j \in 1..Len(l) : d[Len(q) + j] = l[j]
    <3>1. q \in Seq(Nat) /\ l \in Seq(Nat)
      BY <1>2, <1>5
    <3> QED
      BY <2>1, <3>1, BeginsShorter
  <2>3. Begins(d, p \o a)
    BY <1>5, <2>2
  <2>4. Begins(d, p) /\ \A j \in 1..Len(a) : d[Len(p) + j] = a[j]
    <3>1. p \in Seq(Nat) /\ a \in Seq(Nat)
      BY <1>1, <1>3
    <3> QED
      BY <2>3, <3>1, BeginsShorter
  <2>5. d[o + 1] = n
    BY <1>3, <2>4
  <2> QED
    BY <1>5, <2>2, <2>4, <2>5 DEF n
<1>8. Begins(w, w)
  BY DEF Begins
<1>9. Begins(w, p) /\ w[o + 1] = n
  BY <1>1, <1>7, <1>8
<1>10. ASSUME Begins(c, w)
       PROVE  /\ Begins(c, p) /\ At(c, o) = n /\ o + n < Len(c) /\ SubSeq(c, o + 2, o + 1 + n) = l
  <2>1. /\ Begins(c, p) /\ c[o + 1] = n /\ o + 1 + n <= Len(c) /\ \A j \in 1..n : c[o + 1 + j] = l[j]
    BY <1>7, <1>10
  <2>2. Len(c) \in Nat /\ o + n < Len(c) /\ o < Len(c)
    BY <1>2, <1>4, <2>1
  <2>3. At(c, o) = n
    BY <1>4, <2>1, <2>2, AtIs
  <2> DEFINE x == SubSeq(c, (o + 1) + 1, (o + 1) + n)
  <2>4. x \in Seq(Nat) /\ Len(x) = n /\ \A j \in 1..n : x[j] = c[(o + 1) + j]
    <3>1. o + 1 \in Nat /\ (o + 1) + n <= Len(c)
      BY <1>4, <2>1
    <3> HIDE DEF o
    <3> QED
      BY <1>2, <3>1, Stretch
  <2>5. x = SubSeq(c, o + 2, o + 1 + n)
    <3>1. (o + 1) + 1 = o + 2
      BY <1>4
    <3> QED
      BY <3>1
  <2> HIDE DEF x
  <2>6. x = l
    BY <1>2, <2>1, <2>4, Alike DEF n
  <2> QED
    BY <2>1, <2>2, <2>3, <2>5, <2>6
<1>11. /\ o \in Nat /\ l \in Label /\ p \in Seq(Nat) /\ w \in Seq(Nat)
  BY <1>1, <1>4
<1> QED
  BY <1>6, <1>9, <1>10, <1>11 DEF Labelled, p, w, l, n

\* What stands behind the labels spelled out is found from each of them.
LEMMA SpelledFound ==
  ASSUME NEW c \in Seq(Nat), NEW before, NEW name \in Seq(Label), NEW out, Spells(out, before, name),
         NEW n \in 0..Len(name), Begins(c, out[n]), NEW jumps \in Nat, NEW next \in Nat,
         NameAt(c, Len(out[n]), SuffixFrom(name, n + 1), jumps, next), StepsAt(c, Len(out[n]), 0, next)
  PROVE  \A k \in 0..n : /\ Begins(c, out[k]) /\ NameAt(c, Len(out[k]), SuffixFrom(name, k + 1), jumps, next)
                         /\ StepsAt(c, Len(out[k]), n - k, next)
<1> DEFINE Found(k) == /\ Begins(c, out[k]) /\ NameAt(c, Len(out[k]), SuffixFrom(name, k + 1), jumps, next)
                       /\ StepsAt(c, Len(out[k]), n - k, next)
           T == {k \in 0..n : Found(k)}
<1>1. n \in Nat /\ Len(name) \in Nat
  OBVIOUS
<1>2. n \in T
  <2>1. n - n = 0 /\ n \in 0..n
    OBVIOUS
  <2> QED
    BY <2>1
<1>3. ASSUME NEW k \in 1..n, k \in T PROVE k - 1 \in T
  <2> DEFINE o == Len(out[k - 1])
             l == name[k]
             p == Len(out[k])
             rest == SuffixFrom(name, k + 1)
  <2>1. k \in 1..Len(name) /\ (k - 1) + 1 = k /\ n - k + 1 = n - (k - 1) /\ n - k \in Nat /\ k - 1 \in 0..n
    BY <1>1
  <2>2. Found(k)
    BY <1>3
  <2>3. /\ o \in Nat /\ l \in Label /\ p = o + 1 + Len(l)
        /\ Begins(c, out[k - 1]) /\ At(c, o) = Len(l) /\ o + Len(l) < Len(c)
        /\ SubSeq(c, o + 2, o + 1 + Len(l)) = l
    <3>1. Labelled(c, out[k - 1], l, out[k])
      BY <2>1, LabelAt
    <3> QED
      BY <2>2, <3>1 DEF Labelled
  <2>4. rest \in Seq(Label) /\ SuffixFrom(name, k) = <<l>> \o rest
    <3>1. SuffixLaws(Label, name)
      BY SuffixIs
    <3>2. k + 1 \in 1..(Len(name) + 1)
      BY <1>1, <2>1
    <3> QED
      BY <2>1, <3>1, <3>2 DEF SuffixLaws
  <2>5. NameAt(c, p, rest, jumps, next) /\ StepsAt(c, p, n - k, next)
    BY <2>2
  <2> HIDE DEF o, l, p, rest
  <2>6. NameAt(c, o, SuffixFrom(name, k), jumps, next)
    BY <2>3, <2>4, <2>5, NameSpells
  <2>7. StepsAt(c, o, n - k + 1, next)
    BY <2>1, <2>3, <2>5, StepsOverLabel
  <2>8. Found(k - 1)
    BY <2>1, <2>3, <2>6, <2>7 DEF o
  <2> QED
    BY <2>1, <2>8
<1>4. \A k \in 0..n : k \in T
  <2> HIDE DEF T
  <2> QED
    BY <1>1, <1>2, <1>3, Downward
<1> QED
  BY <1>4

\* What is cut off behind them is found from none.
LEMMA SpelledCut ==
  ASSUME NEW c \in Seq(Nat), NEW w \in Seq(Nat), NEW before, NEW name \in Seq(Label), NEW out,
         Spells(out, before, name), NEW n \in 0..Len(name), Begins(w, out[n]), Begins(w, c),
         NoNameAt(c, Len(out[n])), NoStepsAt(c, Len(out[n]))
  PROVE  \A k \in 0..n : Begins(w, out[k]) /\ NoNameAt(c, Len(out[k])) /\ NoStepsAt(c, Len(out[k]))
<1> DEFINE Cut(k) == Begins(w, out[k]) /\ NoNameAt(c, Len(out[k])) /\ NoStepsAt(c, Len(out[k]))
           T == {k \in 0..n : Cut(k)}
<1>1. n \in Nat /\ Len(name) \in Nat /\ Len(c) \in Nat /\ Len(w) \in Nat
  OBVIOUS
<1>2. n \in T
  <2>1. n \in 0..n
    OBVIOUS
  <2> QED
    BY <2>1
<1>3. ASSUME NEW k \in 1..n, k \in T PROVE k - 1 \in T
  <2> DEFINE o == Len(out[k - 1])
             l == name[k]
             p == Len(out[k])
  <2>1. k \in 1..Len(name) /\ k - 1 \in 0..n
    BY <1>1
  <2>2. Cut(k)
    BY <1>3
  <2>3. /\ o \in Nat /\ l \in Label /\ p = o + 1 + Len(l)
        /\ Begins(w, out[k - 1]) /\ At(w, o) = Len(l) /\ o + Len(l) < Len(w)
    <3>1. Labelled(w, out[k - 1], l, out[k])
      BY <2>1, LabelAt
    <3> QED
      BY <2>2, <3>1 DEF Labelled
  <2>4. NoNameAt(c, p) /\ NoStepsAt(c, p)
    BY <2>2
  <2> HIDE DEF o, l, p
  <2>5. At(c, o) = Nowhere \/ At(c, o) = Len(l)
    <3>1. CASE ~(o < Len(c))
      BY <2>3, <3>1, AtIs
    <3>2. CASE o < Len(c)
      <4>1. o + 1 \in 1..Len(c) /\ o < Len(w)
        <5>1. Len(l) \in Nat
          BY <2>3, LabelLen
        <5> QED
          BY <1>1, <2>3, <3>2, <5>1
      <4>2. At(c, o) = c[o + 1] /\ At(w, o) = w[o + 1]
        BY <2>3, <3>2, <4>1, AtIs
      <4> QED
        BY <2>3, <4>1, <4>2 DEF Begins
    <3> QED
      BY <3>1, <3>2
  <2>6. Len(l) \in LabelLens
    BY <2>3, LabelLen
  <2>7. NoNameAt(c, o)
    BY <2>3, <2>4, <2>5, <2>6, NameCut
  <2>8. NoStepsAt(c, o)
    BY <2>3, <2>4, <2>5, <2>6, StepsCut
  <2>9. Cut(k - 1)
    BY <2>3, <2>7, <2>8 DEF o
  <2> QED
    BY <2>1, <2>9
<1>4. \A k \in 0..n : k \in T
  <2> HIDE DEF T
  <2> QED
    BY <1>1, <1>2, <1>3, Downward
<1> QED
  BY <1>4

LEMMA SpelledGrows ==
  ASSUME NEW c \in Seq(Nat), NEW before, NEW name \in Seq(Label), NEW out, Spells(out, before, name),
         NEW n \in 0..Len(name), Begins(c, out[n])
  PROVE  \A k \in 0..n : Begins(c, out[k]) /\ (k < n => Len(out[k]) < Len(c))
<1> DEFINE T == {k \in 0..n : Begins(c, out[k])}
<1>1. n \in Nat /\ Len(name) \in Nat /\ n \in 0..n /\ Len(c) \in Nat
  OBVIOUS
<1>2. ASSUME NEW k \in 1..n PROVE Labelled(c, out[k - 1], name[k], out[k]) /\ k - 1 \in 0..n
  <2>1. k \in 1..Len(name)
    BY <1>1
  <2> QED
    BY <2>1, LabelAt
<1>3. \A k \in 0..n : k \in T
  <2>1. n \in T
    BY <1>1
  <2>2. ASSUME NEW k \in 1..n, k \in T PROVE k - 1 \in T
    <3>1. Begins(c, out[k])
      BY <2>2
    <3> QED
      BY <1>2, <3>1 DEF Labelled
  <2> HIDE DEF T
  <2> QED
    BY <1>1, <2>1, <2>2, Downward
<1>4. ASSUME NEW k \in 0..n, k < n PROVE Len(out[k]) < Len(c)
  <2>1. k + 1 \in 1..n /\ (k + 1) - 1 = k /\ k + 1 \in 0..n
    BY <1>1, <1>4
  <2>2. Labelled(c, out[k], name[k + 1], out[k + 1])
    BY <1>2, <2>1
  <2>3. Begins(c, out[k + 1])
    BY <1>3, <2>1
  <2>4. Len(out[k]) \in Nat /\ Len(name[k + 1]) \in Nat /\ Len(out[k + 1]) = Len(out[k]) + 1 + Len(name[k + 1])
    BY <2>2, LabelLen DEF Labelled
  <2>5. Len(out[k + 1]) <= Len(c)
    BY <2>3 DEF Begins
  <2> DEFINE x == Len(out[k])
             y == Len(name[k + 1])
             z == Len(out[k + 1])
  <2> HIDE DEF x, y, z
  <2>6. x \in Nat /\ y \in Nat /\ z = x + 1 + y /\ z <= Len(c)
    BY <2>4, <2>5 DEF x, y, z
  <2>7. x < Len(c)
    BY <1>1, <2>6
  <2> QED
    BY <2>7 DEF x
<1> QED
  BY <1>3, <1>4

-----------------------------------------------------------------------------
(* The encoder and what it remembers *)

\* What is remembered can be read from any record that holds what was written.
Remembered(enc, e) ==
  /\ e.name \in Seq(Label) /\ e.off \in Nat /\ e.off < Len(enc.out) /\ e.jumps \in Nat
  /\ \A c \in Seq(Nat) : Begins(c, enc.out) => \E next \in Nat : NameAt(c, e.off, e.name, e.jumps, next)

Sound(enc) == enc.out \in Seq(Nat) /\ \A e \in enc.dict : Remembered(enc, e)

\* The two ways a name ends: the empty label, and a pointer to what is remembered.
LEMMA EndFound ==
  ASSUME NEW c \in Seq(Nat), NEW p \in Seq(Nat), Begins(c, p \o <<End>>)
  PROVE  NameAt(c, Len(p), <<>>, 0, Len(p) + 1) /\ StepsAt(c, Len(p), 0, Len(p) + 1)
<1> DEFINE t == <<End>>
<1>1. t \in Seq(Nat) /\ Len(t) = 1 /\ t[1] = End
  BY DEF End
<1> HIDE DEF t
<1>2. Begins(c, p \o t)
  BY DEF t
<1>3. Len(p) + Len(t) <= Len(c) /\ \A k \in 1..Len(t) : c[Len(p) + k] = t[k]
  BY <1>1, <1>2, BeginsShorter
<1>4. Len(p) \in Nat /\ Len(c) \in Nat
  OBVIOUS
<1>5. Len(p) < Len(c) /\ c[Len(p) + 1] = End
  BY <1>1, <1>3, <1>4
<1>6. At(c, Len(p)) = End
  BY <1>4, <1>5, AtIs
<1> QED
  BY <1>4, <1>6, NameEnds

LEMMA PointerFound ==
  ASSUME NEW c \in Seq(Nat), NEW p \in Seq(Nat), NEW enc, Sound(enc), Begins(p, enc.out), NEW e \in enc.dict,
         Begins(c, p \o <<Ptr, e.off>>)
  PROVE  NameAt(c, Len(p), e.name, e.jumps + 1, Len(p) + 2) /\ StepsAt(c, Len(p), 0, Len(p) + 2)
<1> DEFINE t == <<Ptr, e.off>>
           o == Len(p)
           x == e.off
<1>1. Remembered(enc, e)
  BY DEF Sound
<1>2. x \in Nat /\ x < Len(enc.out) /\ e.name \in Seq(Label) /\ e.jumps \in Nat /\ enc.out \in Seq(Nat)
  BY <1>1 DEF Remembered, Sound
<1>3. t \in Seq(Nat) /\ Len(t) = 2 /\ t[1] = Ptr /\ t[2] = x
  BY <1>2 DEF Ptr
<1>4. o \in Nat /\ Len(c) \in Nat /\ Len(enc.out) \in Nat
  BY <1>2
<1> HIDE DEF t
<1>5. Begins(c, p \o t)
  BY DEF t
<1>6. Begins(c, p) /\ o + Len(t) <= Len(c) /\ \A k \in 1..Len(t) : c[o + k] = t[k]
  BY <1>3, <1>5, BeginsShorter
<1>7. o + 1 < Len(c) /\ c[o + 1] = Ptr /\ c[(o + 1) + 1] = x
  <2>1. 1 \in 1..Len(t) /\ 2 \in 1..Len(t) /\ (o + 1) + 1 = o + 2
    BY <1>3, <1>4
  <2> QED
    BY <1>3, <1>4, <1>6, <2>1
<1>8. At(c, o) = Ptr /\ At(c, o + 1) = x
  <2>1. o + 1 \in Nat /\ o < Len(c)
    BY <1>4, <1>7
  <2> QED
    BY <1>4, <1>7, <2>1, AtIs
<1>9. Begins(c, enc.out)
  BY <1>2, <1>6, BeginsEach
<1>10. x < o
  <2>1. Len(enc.out) <= o
    BY DEF Begins
  <2> QED
    BY <1>2, <1>4, <2>1
<1>11. PICK next \in Nat : NameAt(c, x, e.name, e.jumps, next)
  BY <1>1, <1>9 DEF Remembered
<1>12. Len(e.name) \in Nat
  BY <1>2
<1> HIDE DEF x, o
<1>13. NameAt(c, o, e.name, e.jumps + 1, o + 2)
  BY <1>2, <1>4, <1>8, <1>10, <1>11, <1>12, NamePoints
<1>14. StepsAt(c, o, 0, o + 2)
  <2>1. At(c, o + 1) # Nowhere
    BY <1>2, <1>8 DEF Nowhere
  <2> QED
    BY <1>4, <1>8, <2>1, StepsOverPointer
<1> QED
  BY <1>13, <1>14 DEF o

\* An end cut off is no name.
LEMMA TailCut ==
  ASSUME NEW c \in Seq(Nat), NEW p \in Seq(Nat), NEW t \in Seq(Nat),
         \/ Len(t) = 1
         \/ Len(t) = 2 /\ t[1] = Ptr,
         Begins(p \o t, c), Len(c) < Len(p \o t)
  PROVE  NoNameAt(c, Len(p)) /\ NoStepsAt(c, Len(p))
<1> DEFINE o == Len(p)
           w == p \o t
<1>1. w \in Seq(Nat) /\ Len(w) = o + Len(t) /\ o \in Nat /\ Len(t) \in Nat /\ Len(c) \in Nat
  BY Join
<1>2. \A k \in 1..Len(t) : w[o + k] = t[k]
  OBVIOUS
<1> HIDE DEF w
<1>3. Begins(w, c) /\ Len(c) < o + Len(t)
  BY <1>1 DEF w
<1>4. CASE ~(o < Len(c))
  BY <1>1, <1>4, AtIs, NameCut, StepsCut
<1>5. CASE o < Len(c)
  <2>1. Len(t) = 2 /\ t[1] = Ptr /\ Len(c) = o + 1
    <3> DEFINE m == Len(c)
               n == Len(t)
    <3>1. m \in Nat /\ n \in Nat /\ o \in Nat /\ o < m /\ m < o + n
      BY <1>1, <1>3, <1>5
    <3>2. n = 1 \/ (n = 2 /\ t[1] = Ptr)
      OBVIOUS
    <3> HIDE DEF m, n, o
    <3>3. n # 1
      BY <3>1
    <3>4. n = 2 => m = o + 1
      BY <3>1
    <3> QED
      BY <3>2, <3>3, <3>4 DEF m, n
  <2>2. c[o + 1] = Ptr
    <3>1. o + 1 \in 1..Len(c) /\ 1 \in 1..Len(t)
      BY <1>1, <2>1
    <3> QED
      BY <1>2, <1>3, <2>1, <3>1 DEF Begins
  <2>3. At(c, o) = Ptr
    BY <1>1, <1>5, <2>2, AtIs
  <2>4. At(c, o + 1) = Nowhere
    <3>1. o + 1 \in Nat /\ ~(o + 1 < Len(c))
      BY <1>1, <2>1
    <3> QED
      BY <3>1, AtIs
  <2> QED
    BY <1>1, <2>3, <2>4, NameCut, StepsCut
<1> QED
  BY <1>4, <1>5

\* The least of a set of numbers.
LEMMA MinIs ==
  ASSUME NEW S \in SUBSET Nat, S # {}
  PROVE  Min(S) \in S /\ \A k \in S : Min(S) <= k
<1>1. \E n \in S : \A m \in S : n <= m
  BY NatLeast
<1>2. Min(S) = CHOOSE n \in S : \A m \in S : n <= m
  BY DEF Min
<1> QED
  BY <1>1, <1>2

\* A name is written so that it is found where it starts by those who have it
\* whole and is no name to the others.
Written(enc, e, name) ==
  /\ Sound(e) /\ Begins(e.out, enc.out) /\ e.jumps \in Nat /\ e.spelled \in Nat
  /\ \A c \in Seq(Nat) : Begins(c, e.out) =>
       /\ NameAt(c, Len(enc.out), name, e.jumps, Len(e.out))
       /\ StepsAt(c, Len(enc.out), e.spelled, Len(e.out))
  /\ \A c \in Seq(Nat) : Begins(e.out, c) /\ Len(c) < Len(e.out) =>
       NoNameAt(c, Len(enc.out)) /\ NoStepsAt(c, Len(enc.out))

\* PutName writes a name: what it replaces by a pointer was remembered, and every
\* suffix it spells out is remembered rightly.
LEMMA PutNameWrites ==
  ASSUME NEW enc, Sound(enc), NEW name \in Seq(Label), NEW compress
  PROVE  Written(enc, PutName(enc, name, compress), name)
<1> DEFINE n == Len(name)
           known(k) == {e \in enc.dict : compress /\ k <= n /\ e.name = SuffixFrom(name, k)}
           M == {k \in 1..(n + 1) : k = n + 1 \/ known(k) # {}}
           cut == Min(M)
           target == CHOOSE e \in known(cut) : TRUE
           out == Spelled(enc.out, name)
           jumps == IF cut = n + 1 THEN 0 ELSE target.jumps + 1
           tail == IF cut = n + 1 THEN <<End>> ELSE <<Ptr, target.off>>
           new == {[name |-> SuffixFrom(name, k), off |-> Len(out[k - 1]), jumps |-> jumps] : k \in 1..(cut - 1)}
           s == cut - 1
           p == out[s]
           w == p \o tail
           put == PutName(enc, name, compress)
<1>1. put = [out |-> w, dict |-> enc.dict \cup new, spelled |-> s, jumps |-> jumps]
  BY DEF PutName
<1>2. n \in Nat /\ enc.out \in Seq(Nat)
  BY DEF Sound
<1>3. cut \in M
  <2>1. M \in SUBSET Nat /\ n + 1 \in M
    BY <1>2
  <2> HIDE DEF M
  <2> QED
    BY <2>1, MinIs
<1>4. cut \in 1..(n + 1) /\ (cut = n + 1 \/ target \in known(cut))
  <2>1. cut \in 1..(n + 1) /\ (cut = n + 1 \/ known(cut) # {})
    BY <1>3
  <2> HIDE DEF cut, known
  <2> QED
    BY <2>1
<1>5. Spells(out, enc.out, name)
  BY <1>2, SpelledIs
<1>6. s \in 0..n /\ s \in Nat /\ s + 1 = cut /\ cut \in Nat
  BY <1>2, <1>4
<1> HIDE DEF cut, M, out
<1>7. p \in Seq(Nat) /\ out[0] = enc.out /\ 0 \in 0..s /\ (\A k \in 0..s : out[k] \in Seq(Nat))
  <2>1. \A k \in 0..s : k \in 0..n
    BY <1>2, <1>6
  <2>2. out \in [0..n -> Seq(Nat)] /\ out[0] = enc.out
    BY <1>5 DEF Spells
  <2>3. 0 \in 0..s /\ s \in 0..s
    <3> HIDE DEF s
    <3> QED
      BY <1>6
  <2> HIDE DEF s, n
  <2> QED
    BY <2>1, <2>2, <2>3
<1>8. cut # n + 1 => /\ target \in enc.dict /\ target.name = SuffixFrom(name, cut)
                     /\ target.off \in Nat /\ target.jumps \in Nat
  BY <1>4 DEF Sound, Remembered
<1>9. jumps \in Nat /\ tail \in Seq(Nat) /\ (Len(tail) = 1 \/ (Len(tail) = 2 /\ tail[1] = Ptr))
  <2>1. CASE cut = n + 1
    <3>1. <<End>> \in Seq(Nat) /\ Len(<<End>>) = 1
      BY DEF End
    <3> QED
      BY <2>1, <3>1
  <2>2. CASE cut # n + 1
    <3> DEFINE x == target.off
    <3>1. x \in Nat /\ target.jumps \in Nat
      BY <1>8, <2>2
    <3> HIDE DEF x, target
    <3>2. <<Ptr, x>> \in Seq(Nat) /\ Len(<<Ptr, x>>) = 2 /\ <<Ptr, x>>[1] = Ptr
      BY <3>1 DEF Ptr
    <3>3. tail = <<Ptr, x>> /\ jumps = target.jumps + 1
      BY <2>2 DEF x
    <3> QED
      BY <3>1, <3>2, <3>3
  <2> QED
    BY <2>1, <2>2
<1>10. w \in Seq(Nat) /\ Len(w) = Len(p) + Len(tail) /\ Len(p) \in Nat /\ Len(tail) \in Nat
  <2> HIDE DEF tail, p
  <2> QED
    BY <1>7, <1>9, Join
<1>11. ASSUME NEW c \in Seq(Nat), Begins(c, w) PROVE Begins(c, p)
  <2> HIDE DEF tail, p
  <2> QED
    BY <1>7, <1>9, <1>11, BeginsShorter
<1>12. Begins(w, w) /\ Begins(w, p)
  <2>1. Begins(w, w)
    <3> HIDE DEF w
    <3> QED
      BY <1>10 DEF Begins
  <2> QED
    BY <1>10, <1>11, <2>1
<1>13. Begins(p, enc.out)
  <2>1. Begins(p, p)
    BY <1>7 DEF Begins
  <2>2. \A k \in 0..s : Begins(p, out[k])
    <3>1. \A k \in 0..s : Begins(out[s], out[k]) /\ (k < s => Len(out[k]) < Len(out[s]))
      <4> HIDE DEF s
      <4> QED
        BY <1>5, <1>6, <1>7, <2>1, SpelledGrows
    <3> QED
      BY <3>1
  <2> QED
    BY <1>7, <2>2
<1>14. ASSUME NEW c \in Seq(Nat), Begins(c, w)
       PROVE  NameAt(c, Len(p), SuffixFrom(name, s + 1), jumps, Len(w)) /\ StepsAt(c, Len(p), 0, Len(w))
  <2>1. CASE cut = n + 1
    <3>1. tail = <<End>> /\ jumps = 0 /\ Len(w) = Len(p) + 1
      <4>1. tail = <<End>> /\ jumps = 0 /\ Len(<<End>>) = 1
        BY <2>1
      <4> HIDE DEF tail, jumps, w, p
      <4> QED
        BY <1>10, <4>1
    <3>2. SuffixFrom(name, s + 1) = <<>>
      BY <1>6, <2>1, SuffixIs DEF SuffixLaws
    <3>3. Begins(c, p \o <<End>>)
      BY <1>14, <3>1
    <3> HIDE DEF jumps, w, p, s, tail
    <3>4. NameAt(c, Len(p), <<>>, 0, Len(p) + 1) /\ StepsAt(c, Len(p), 0, Len(p) + 1)
      BY <1>7, <3>3, EndFound
    <3> QED
      BY <3>1, <3>2, <3>4
  <2>2. CASE cut # n + 1
    <3>1. tail = <<Ptr, target.off>> /\ jumps = target.jumps + 1
      BY <2>2
    <3>2. Len(w) = Len(p) + 2
      <4>1. Len(<<Ptr, target.off>>) = 2
        OBVIOUS
      <4> HIDE DEF tail, jumps, w, p
      <4> QED
        BY <1>10, <3>1, <4>1
    <3>3. target \in enc.dict /\ target.name = SuffixFrom(name, s + 1)
      BY <1>6, <1>8, <2>2
    <3>4. Begins(c, p \o <<Ptr, target.off>>)
      BY <1>14, <3>1
    <3> HIDE DEF jumps, w, p, s, tail, target
    <3>5. NameAt(c, Len(p), target.name, target.jumps + 1, Len(p) + 2) /\ StepsAt(c, Len(p), 0, Len(p) + 2)
      BY <1>7, <1>13, <3>3, <3>4, PointerFound
    <3> QED
      BY <3>1, <3>2, <3>3, <3>5
  <2> QED
    BY <2>1, <2>2
<1>15. Len(w) \in Nat
  <2>1. w \in Seq(Nat)
    BY <1>10
  <2> HIDE DEF w
  <2> QED
    BY <2>1
<1>16. ASSUME NEW c \in Seq(Nat), Begins(c, w)
       PROVE  \A k \in 0..s : /\ Begins(c, out[k]) /\ NameAt(c, Len(out[k]), SuffixFrom(name, k + 1), jumps, Len(w))
                              /\ StepsAt(c, Len(out[k]), s - k, Len(w))
  <2>1. Begins(c, out[s])
    BY <1>11, <1>16
  <2>2. NameAt(c, Len(out[s]), SuffixFrom(name, s + 1), jumps, Len(w)) /\ StepsAt(c, Len(out[s]), 0, Len(w))
    BY <1>14, <1>16
  <2> HIDE DEF s, w, jumps
  <2> QED
    BY <1>5, <1>6, <1>9, <1>15, <2>1, <2>2, SpelledFound
<1>17. ASSUME NEW c \in Seq(Nat), Begins(w, c), Len(c) < Len(w)
       PROVE  NoNameAt(c, Len(enc.out)) /\ NoStepsAt(c, Len(enc.out))
  <2>1. NoNameAt(c, Len(out[s])) /\ NoStepsAt(c, Len(out[s]))
    <3> HIDE DEF tail, s
    <3> QED
      BY <1>7, <1>9, <1>17, TailCut
  <2>2. Begins(w, out[s])
    BY <1>12
  <2> HIDE DEF s, w
  <2>3. \A k \in 0..s : Begins(w, out[k]) /\ NoNameAt(c, Len(out[k])) /\ NoStepsAt(c, Len(out[k]))
    BY <1>5, <1>6, <1>10, <1>17, <2>1, <2>2, SpelledCut
  <2> QED
    BY <1>7, <2>3
<1>18. ASSUME NEW c \in Seq(Nat), Begins(c, w)
       PROVE  NameAt(c, Len(enc.out), name, jumps, Len(w)) /\ StepsAt(c, Len(enc.out), s, Len(w))
  <2>1. SuffixFrom(name, 0 + 1) = name
    <3>1. SuffixLaws(Label, name) /\ 0 + 1 = 1
      BY SuffixIs
    <3> QED
      BY <3>1 DEF SuffixLaws
  <2>2. s - 0 = s
    BY <1>6
  <2>3. NameAt(c, Len(out[0]), SuffixFrom(name, 0 + 1), jumps, Len(w)) /\ StepsAt(c, Len(out[0]), s - 0, Len(w))
    BY <1>7, <1>16, <1>18
  <2> QED
    BY <1>7, <2>1, <2>2, <2>3
<1>19. Begins(w, enc.out)
  <2> HIDE DEF w, p
  <2> QED
    BY <1>2, <1>7, <1>10, <1>12, <1>13, BeginsEach
<1> DEFINE stored == enc.dict \cup new
<1>20. ASSUME NEW e \in stored
       PROVE  /\ e.name \in Seq(Label) /\ e.off \in Nat /\ e.off < Len(w) /\ e.jumps \in Nat
              /\ \A c \in Seq(Nat) : Begins(c, w) => \E next \in Nat : NameAt(c, e.off, e.name, e.jumps, next)
  <2>1. CASE e \in enc.dict
    <3>1. Remembered(enc, e)
      BY <2>1 DEF Sound
    <3>2. Len(enc.out) <= Len(w)
      BY <1>19 DEF Begins
    <3>3. e.off < Len(w)
      <4>1. e.off \in Nat /\ e.off < Len(enc.out) /\ Len(enc.out) \in Nat
        BY <1>2, <3>1 DEF Remembered
      <4> HIDE DEF w
      <4> QED
        BY <1>15, <3>2, <4>1
    <3>4. ASSUME NEW c \in Seq(Nat), Begins(c, w) PROVE Begins(c, enc.out)
      <4> HIDE DEF w
      <4> QED
        BY <1>2, <1>10, <1>19, <3>4, BeginsEach
    <3> QED
      BY <3>1, <3>3, <3>4 DEF Remembered
  <2>2. CASE e \in new
    <3>1. PICK k \in 1..(cut - 1) : e = [name |-> SuffixFrom(name, k), off |-> Len(out[k - 1]), jumps |-> jumps]
      BY <2>2
    <3>2. k - 1 \in 0..s /\ (k - 1) + 1 = k /\ k - 1 < s /\ k \in 1..(n + 1)
      BY <1>2, <1>6
    <3>3. e.name = SuffixFrom(name, k) /\ e.off = Len(out[k - 1]) /\ e.jumps = jumps
      <4> HIDE DEF jumps
      <4> QED
        BY <3>1
    <3>4. e.name \in Seq(Label)
      BY <3>2, <3>3, SuffixIs DEF SuffixLaws
    <3>5. Len(out[k - 1]) \in Nat /\ Len(out[k - 1]) < Len(w)
      <4>1. \A j \in 0..s : Begins(p, out[j]) /\ (j < s => Len(out[j]) < Len(p))
        <5>1. Begins(p, p)
          BY <1>7 DEF Begins
        <5> HIDE DEF s
        <5> QED
          BY <1>5, <1>6, <1>7, <5>1, SpelledGrows
      <4>2. Len(out[k - 1]) < Len(p) /\ out[k - 1] \in Seq(Nat)
        BY <1>7, <3>2, <4>1
      <4>3. Len(p) <= Len(w)
        BY <1>12 DEF Begins
      <4>4. Len(out[k - 1]) \in Nat
        BY <4>2
      <4> HIDE DEF p, w
      <4> QED
        BY <1>10, <1>15, <4>2, <4>3, <4>4
    <3>6. ASSUME NEW c \in Seq(Nat), Begins(c, w) PROVE NameAt(c, e.off, e.name, e.jumps, Len(w))
      <4>1. NameAt(c, Len(out[k - 1]), SuffixFrom(name, (k - 1) + 1), jumps, Len(w))
        BY <1>16, <3>2, <3>6
      <4> HIDE DEF jumps, w
      <4> QED
        BY <3>2, <3>3, <4>1
    <3> HIDE DEF jumps, w
    <3> QED
      BY <1>9, <1>15, <3>3, <3>4, <3>5, <3>6
  <2> QED
    BY <2>1, <2>2
<1>21. put.out = w /\ put.dict = stored /\ put.spelled = s /\ put.jumps = jumps
  <2> HIDE DEF w, stored, s, jumps
  <2> QED
    BY <1>1 DEF stored
<1> HIDE DEF w, stored, s, jumps, put
<1>22. Sound(put)
  BY <1>10, <1>20, <1>21 DEF Sound, Remembered
<1> QED
  BY <1>6, <1>9, <1>17, <1>18, <1>19, <1>21, <1>22 DEF Written, put

-----------------------------------------------------------------------------
(* Names with what follows them *)

\* Where the name of a part ends.
NameEnd(e, part) == Len(e.out) - Len(part.rest)

\* As much of what follows the name as the record holds.
Follows(c, m, rest) == \A k \in 1..Len(rest) : m + k <= Len(c) => c[m + k] = rest[k]

\* A part written behind enc, seen by readers of a cut of the body: whole, or cut
\* in its name, or behind it.
PartWritten(enc, e, part) ==
  /\ Sound(e) /\ Begins(e.out, enc.out) /\ e.jumps \in Nat /\ e.spelled \in Nat
  /\ NameEnd(e, part) \in Nat
  /\ \A c \in Seq(Nat) : Begins(c, e.out) \/ Begins(e.out, c) =>
       IF Len(c) < NameEnd(e, part) THEN NoNameAt(c, Len(enc.out)) /\ NoStepsAt(c, Len(enc.out))
       ELSE /\ NameAt(c, Len(enc.out), part.name, e.jumps, NameEnd(e, part))
            /\ StepsAt(c, Len(enc.out), e.spelled, NameEnd(e, part))
            /\ Follows(c, NameEnd(e, part), part.rest)

\* What is remembered stays right while the body grows.
LEMMA SoundLater ==
  ASSUME NEW enc, Sound(enc), NEW e, e.out \in Seq(Nat), Begins(e.out, enc.out), e.dict = enc.dict
  PROVE  Sound(e)
<1> SUFFICES ASSUME NEW x \in enc.dict PROVE Remembered(e, x)
  BY DEF Sound
<1>1. Remembered(enc, x) /\ enc.out \in Seq(Nat)
  BY DEF Sound
<1>2. ASSUME NEW c \in Seq(Nat), Begins(c, e.out) PROVE Begins(c, enc.out)
  BY <1>1, <1>2, BeginsEach
<1>3. x.off < Len(e.out)
  <2> DEFINE m == Len(enc.out)
             n == Len(e.out)
  <2>1. m \in Nat /\ n \in Nat /\ x.off \in Nat /\ x.off < m /\ m <= n
    BY <1>1 DEF Remembered, Begins
  <2> HIDE DEF m, n
  <2>2. x.off < n
    BY <2>1
  <2> QED
    BY <2>2 DEF n
<1> QED
  BY <1>1, <1>2, <1>3 DEF Remembered

LEMMA PutPartWrites ==
  ASSUME NEW enc, Sound(enc), NEW part, part.name \in Seq(Label), part.rest \in Seq(Nat), NEW compress
  PROVE  PartWritten(enc, PutPart(enc, part, compress), part)
<1> DEFINE h == PutName(enc, part.name, compress)
           e == PutPart(enc, part, compress)
           o == Len(enc.out)
           m == Len(h.out)
           rest == part.rest
           w == h.out \o rest
<1>1. Written(enc, h, part.name)
  BY PutNameWrites
<1>2. e.out = w /\ e.dict = h.dict /\ e.spelled = h.spelled /\ e.jumps = h.jumps
  BY DEF PutPart
<1> HIDE DEF h, e
<1>3. h.out \in Seq(Nat) /\ Sound(h) /\ rest \in Seq(Nat) /\ enc.out \in Seq(Nat)
  BY <1>1 DEF Written, Sound
<1>4. w \in Seq(Nat) /\ Len(w) = m + Len(rest) /\ m \in Nat /\ Len(rest) \in Nat
  BY <1>3, Join
<1>5. ASSUME NEW c \in Seq(Nat), Begins(c, w)
      PROVE  Begins(c, h.out) /\ \A k \in 1..Len(rest) : c[m + k] = rest[k]
  <2>1. Begins(c, h.out \o rest)
    BY <1>5
  <2> HIDE DEF w, rest
  <2> QED
    <3> DEFINE s == h.out
    <3>1. s \in Seq(Nat) /\ rest \in Seq(Nat) /\ Begins(c, s \o rest) /\ m = Len(s)
      BY <1>3, <2>1
    <3> HIDE DEF s, m
    <3>2. Begins(c, s) /\ \A k \in 1..Len(rest) : c[Len(s) + k] = rest[k]
      BY <3>1, BeginsShorter
    <3> QED
      BY <3>1, <3>2 DEF s
<1>6. ASSUME NEW c \in Seq(Nat), Begins(w, c), m <= Len(c)
      PROVE  Begins(c, h.out) /\ \A k \in 1..Len(rest) : m + k <= Len(c) => c[m + k] = rest[k]
  <2>1. Begins(w, w)
    <3> HIDE DEF w
    <3> QED
      BY <1>4, BeginsSelf
  <2>2. Begins(w, h.out) /\ \A k \in 1..Len(rest) : w[m + k] = rest[k]
    BY <1>4, <1>5, <2>1
  <2>3. Len(c) \in Nat
    OBVIOUS
  <2> HIDE DEF w
  <2>4. ASSUME NEW k \in 1..m PROVE c[k] = h.out[k]
    <3>1. k \in 1..Len(c)
      BY <1>4, <1>6, <2>3
    <3>2. c[k] = w[k]
      BY <1>6, <3>1 DEF Begins
    <3> QED
      BY <2>2, <3>2 DEF Begins
  <2>5. ASSUME NEW k \in 1..Len(rest), m + k <= Len(c) PROVE c[m + k] = rest[k]
    <3>1. m + k \in 1..Len(c)
      BY <1>4, <2>3, <2>5
    <3>2. c[m + k] = w[m + k]
      BY <1>6, <3>1 DEF Begins
    <3> QED
      BY <2>2, <3>2
  <2> QED
    BY <1>6, <2>4, <2>5 DEF Begins
<1>7. ASSUME NEW c \in Seq(Nat), Begins(w, c), Len(c) < m PROVE Begins(h.out, c)
  <2>1. Begins(w, w)
    <3> HIDE DEF w
    <3> QED
      BY <1>4, BeginsSelf
  <2>2. Begins(w, h.out)
    BY <1>4, <1>5, <2>1
  <2>3. Len(c) \in Nat
    OBVIOUS
  <2> HIDE DEF w
  <2>4. ASSUME NEW k \in 1..Len(c) PROVE h.out[k] = c[k]
    <3>1. k \in 1..m
      BY <1>4, <1>7, <2>3
    <3> QED
      BY <1>7, <2>2, <3>1 DEF Begins
  <2> QED
    BY <1>4, <1>7, <2>3, <2>4 DEF Begins
<1>8. NameEnd(e, part) = m
  <2> HIDE DEF w, m, rest
  <2>1. Len(w) - Len(rest) = m
    BY <1>4
  <2> QED
    BY <1>2, <2>1 DEF NameEnd, rest
<1>9. ASSUME NEW c \in Seq(Nat), Begins(c, w) \/ Begins(w, c)
      PROVE  IF Len(c) < m THEN NoNameAt(c, o) /\ NoStepsAt(c, o)
             ELSE /\ NameAt(c, o, part.name, h.jumps, m) /\ StepsAt(c, o, h.spelled, m)
                  /\ Follows(c, m, rest)
  <2>1. Len(c) \in Nat
    OBVIOUS
  <2>2. CASE Len(c) < m
    <3>1. Begins(w, c)
      <4>1. ~(Len(w) <= Len(c))
        <5> HIDE DEF w, m, rest
        <5> QED
          BY <1>4, <2>1, <2>2
      <4> QED
        BY <1>9, <4>1 DEF Begins
    <3>2. Begins(h.out, c)
      BY <1>7, <2>2, <3>1
    <3> QED
      BY <1>1, <2>2, <3>2 DEF Written
  <2>3. CASE ~(Len(c) < m)
    <3>1. m <= Len(c)
      BY <1>4, <2>1, <2>3
    <3>2. Begins(c, h.out) /\ Follows(c, m, rest)
      BY <1>5, <1>6, <1>9, <3>1 DEF Follows
    <3> QED
      BY <1>1, <2>3, <3>2 DEF Written
  <2> QED
    BY <2>2, <2>3
<1>10. Begins(w, enc.out)
  <2>1. Begins(w, w)
    <3> HIDE DEF w
    <3> QED
      BY <1>4, BeginsSelf
  <2>2. Begins(w, h.out) /\ Begins(h.out, enc.out)
    BY <1>1, <1>4, <1>5, <2>1 DEF Written
  <2> HIDE DEF w
  <2> QED
    BY <1>3, <1>4, <2>2, BeginsEach
<1>11. Sound(e)
  <2>1. Begins(w, h.out)
    <3>1. Begins(w, w)
      <4> HIDE DEF w
      <4> QED
        BY <1>4, BeginsSelf
    <3> QED
      BY <1>4, <1>5, <3>1
  <2> HIDE DEF w
  <2> QED
    BY <1>2, <1>3, <1>4, <2>1, SoundLater
<1> HIDE DEF w, m
<1>12. e.jumps \in Nat /\ e.spelled \in Nat /\ NameEnd(e, part) \in Nat /\ Begins(e.out, enc.out)
  BY <1>1, <1>2, <1>4, <1>8, <1>10 DEF Written
<1>13. \A c \in Seq(Nat) : Begins(c, e.out) \/ Begins(e.out, c) =>
         IF Len(c) < NameEnd(e, part) THEN NoNameAt(c, Len(enc.out)) /\ NoStepsAt(c, Len(enc.out))
         ELSE /\ NameAt(c, Len(enc.out), part.name, e.jumps, NameEnd(e, part))
              /\ StepsAt(c, Len(enc.out), e.spelled, NameEnd(e, part))
              /\ Follows(c, NameEnd(e, part), part.rest)
  BY <1>2, <1>8, <1>9
<1> QED
  BY <1>11, <1>12, <1>13 DEF PartWritten, e

-----------------------------------------------------------------------------
(* The body, part by part *)

\* What the encoder keeps.
Entry == [name : Seq(Label), off : Nat, jumps : Nat]
Encs == {enc \in [out : Seq(Nat), dict : SUBSET Entry, spelled : Nat, jumps : Nat] : Sound(enc)}
Nothing == [out |-> <<>>, dict |-> {}, spelled |-> 0, jumps |-> 0]

Encodable(part) == part.name \in Seq(Label) /\ part.rest \in Seq(Nat)

\* A part written keeps it so.
LEMMA PutPartIn ==
  ASSUME NEW enc \in Encs, NEW part, Encodable(part), NEW compress
  PROVE  PutPart(enc, part, compress) \in Encs /\ PartWritten(enc, PutPart(enc, part, compress), part)
<1> DEFINE h == PutName(enc, part.name, compress)
           e == PutPart(enc, part, compress)
<1>1. PartWritten(enc, e, part)
  BY PutPartWrites DEF Encs, Encodable
<1>2. e = [out |-> h.out \o part.rest, dict |-> h.dict, spelled |-> h.spelled, jumps |-> h.jumps]
  BY DEF PutPart
<1>3. \A x \in h.dict : x \in enc.dict \/ \E f, g, j : x = [name |-> f, off |-> g, jumps |-> j]
  BY DEF PutName
<1> HIDE DEF h, e
<1>4. Sound(e) /\ e.out \in Seq(Nat) /\ e.spelled \in Nat /\ e.jumps \in Nat
  BY <1>1 DEF PartWritten, Sound
<1>5. e.dict \in SUBSET Entry
  <2> SUFFICES ASSUME NEW x \in e.dict PROVE x \in Entry
    OBVIOUS
  <2>1. x \in enc.dict \/ \E f, g, j : x = [name |-> f, off |-> g, jumps |-> j]
    BY <1>2, <1>3
  <2>2. Remembered(e, x)
    BY <1>4 DEF Sound
  <2>3. x.name \in Seq(Label) /\ x.off \in Nat /\ x.jumps \in Nat
    BY <2>2 DEF Remembered
  <2>4. CASE x \in enc.dict
    BY <2>4 DEF Encs
  <2>5. CASE \E f, g, j : x = [name |-> f, off |-> g, jumps |-> j]
    BY <2>3, <2>5 DEF Entry
  <2> QED
    BY <2>1, <2>4, <2>5
<1>6. e = [out |-> e.out, dict |-> e.dict, spelled |-> e.spelled, jumps |-> e.jumps]
  BY <1>2
<1>7. e \in [out : Seq(Nat), dict : SUBSET Entry, spelled : Nat, jumps : Nat]
  <2> DEFINE a == e.out
             d == e.dict
             k == e.spelled
             j == e.jumps
  <2>1. e = [out |-> a, dict |-> d, spelled |-> k, jumps |-> j] /\ a \in Seq(Nat) /\ d \in SUBSET Entry
        /\ k \in Nat /\ j \in Nat
    BY <1>4, <1>5, <1>6
  <2> HIDE DEF a, d, k, j
  <2> QED
    BY <2>1
<1> QED
  BY <1>1, <1>4, <1>7 DEF Encs, e

LEMMA NothingIs == Nothing \in Encs
<1>1. <<>> \in Seq(Nat) /\ {} \in SUBSET Entry
  OBVIOUS
<1> QED
  BY <1>1 DEF Nothing, Encs, Sound

\* The parts of a response are names and numbers.
LEMMA PartsWell ==
  ASSUME NEW r \in Response
  PROVE  /\ Parts(r) \in Nat /\ Len(r.questions) \in Nat /\ Len(r.answers) \in Nat
         /\ Parts(r) = Len(r.questions) + Len(r.answers)
         /\ \A k \in 1..Parts(r) : Encodable(Part(r, k))
<1> DEFINE q == r.questions
           a == r.answers
<1>1. q \in Seq(Seq(Label)) /\ a \in Seq([owner : Seq(Label), type : Nat, class : Nat, data : Seq(Nat)])
  BY DEF Response
<1> HIDE DEF q, a
<1>2. Len(q) \in Nat /\ Len(a) \in Nat
  BY <1>1
<1>3. Parts(r) = Len(q) + Len(a)
  BY DEF Parts, q, a
<1>4. ASSUME NEW k \in 1..Parts(r) PROVE Encodable(Part(r, k))
  <2>1. CASE k <= Len(q)
    <3>1. k \in 1..Len(q)
      BY <1>2, <1>3, <2>1
    <3>2. Part(r, k) = [name |-> q[k], rest |-> <<TypeA, ClassIn>>]
      BY <2>1 DEF Part, q
    <3>3. q[k] \in Seq(Label)
      BY <1>1, <3>1
    <3>4. <<TypeA, ClassIn>> \in Seq(Nat)
      BY DEF TypeA, ClassIn
    <3> QED
      BY <3>2, <3>3, <3>4 DEF Encodable
  <2>2. CASE ~(k <= Len(q))
    <3>1. k - Len(q) \in 1..Len(a)
      BY <1>2, <1>3, <2>2
    <3> DEFINE x == a[k - Len(q)]
               d == x.data
               t == <<x.type, x.class, Len(d)>>
    <3>2. x \in [owner : Seq(Label), type : Nat, class : Nat, data : Seq(Nat)]
      <4> DEFINE RR == [owner : Seq(Label), type : Nat, class : Nat, data : Seq(Nat)]
                 j == k - Len(q)
      <4>1. a \in Seq(RR) /\ j \in 1..Len(a)
        BY <1>1, <3>1
      <4> HIDE DEF RR, j
      <4>2. a[j] \in RR
        BY <4>1
      <4> QED
        BY <4>2 DEF RR, j
    <3>3. Part(r, k) = [name |-> x.owner, rest |-> t \o d]
      BY <2>2 DEF Part, q, a
    <3> HIDE DEF x
    <3>4. d \in Seq(Nat) /\ x.owner \in Seq(Label) /\ x.type \in Nat /\ x.class \in Nat
      BY <3>2
    <3> HIDE DEF d
    <3>5. Len(d) \in Nat
      BY <3>4
    <3>6. t \in Seq(Nat)
      BY <3>4, <3>5
    <3> HIDE DEF t
    <3>7. t \o d \in Seq(Nat)
      BY <3>4, <3>6
    <3> QED
      BY <3>3, <3>4, <3>7 DEF Encodable
  <2> QED
    BY <2>1, <2>2
<1>5. Parts(r) \in Nat
  BY <1>2, <1>3
<1>6. Len(r.questions) \in Nat /\ Len(r.answers) \in Nat /\ Parts(r) = Len(r.questions) + Len(r.answers)
  BY <1>2, <1>3 DEF q, a
<1> QED
  BY <1>4, <1>5, <1>6

\* The body grows part by part.
Grows(r) ==
  /\ \A k \in 0..Parts(r) : Encodings(r)[k] \in Encs
  /\ Encodings(r)[0] = Nothing
  /\ \A k \in 1..Parts(r) : PartWritten(Encodings(r)[k - 1], Encodings(r)[k], Part(r, k))

\* The recursion of Encodings has its value at every part.
LEMMA EncodingsGrow == ASSUME NEW r \in Response PROVE Grows(r)
<1> DEFINE N == Parts(r)
           S == Encs
           Put(e, n) == PutPart(e, Part(r, n), r.compress)
           Row(n) == [e \in S |-> Put(e, n)]
           F == [n \in 1..N |-> Row(n)]
           Unfold(f, n) == IF n = 0 THEN Nothing ELSE Put(f[n - 1], n)
           Rec(f) == f = [n \in 0..N |-> Unfold(f, n)]
<1>1. N \in Nat /\ Nothing \in S
  BY PartsWell, NothingIs
<1>2. ASSUME NEW n \in 1..N, NEW e \in S
      PROVE  Put(e, n) \in S /\ PartWritten(e, Put(e, n), Part(r, n))
  <2>1. Encodable(Part(r, n))
    BY PartsWell
  <2> QED
    BY <2>1, PutPartIn
<1>3. Encodings(r) = CHOOSE f : Rec(f)
  BY DEF Encodings, Nothing
<1> HIDE DEF N, S, Put
<1>4. \A n \in 1..N : Row(n) \in [S -> S]
  BY <1>2
<1>5. F \in [1..N -> [S -> S]]
  <2> HIDE DEF Row
  <2> QED
    BY <1>4
<1>6. PICK f : Unfolds(f, N, S, Nothing, F)
  <2> HIDE DEF F
  <2> QED
    BY <1>1, <1>5, Recursion
<1>7. f \in [0..N -> S] /\ f[0] = Nothing /\ \A n \in 1..N : f[n] = F[n][f[n - 1]]
  <2> HIDE DEF F
  <2> QED
    BY <1>6 DEF Unfolds
<1>8. ASSUME NEW n \in 1..N PROVE f[n] = Put(f[n - 1], n)
  <2>1. n - 1 \in 0..N
    BY <1>1
  <2>2. f[n - 1] \in S
    BY <1>7, <2>1
  <2>3. f[n] = F[n][f[n - 1]]
    BY <1>7
  <2>4. F[n][f[n - 1]] = Row(n)[f[n - 1]]
    <3> HIDE DEF Row
    <3> QED
      OBVIOUS
  <2> QED
    BY <2>2, <2>3, <2>4
<1>9. \A n \in 0..N : f[n] = Unfold(f, n)
  <2> SUFFICES ASSUME NEW n \in 0..N PROVE f[n] = Unfold(f, n)
    OBVIOUS
  <2>1. CASE n = 0
    BY <1>7, <2>1
  <2>2. CASE n # 0
    <3>1. n \in 1..N
      BY <1>1, <2>2
    <3> QED
      BY <1>8, <2>2, <3>1
  <2> QED
    BY <2>1, <2>2
<1> HIDE DEF Unfold
<1>10. Rec(f)
  BY <1>7, <1>9
<1> DEFINE g == Encodings(r)
<1>12. Rec(g)
  <2>1. \E x : Rec(x)
    BY <1>10
  <2> HIDE DEF Rec
  <2> QED
    BY <1>3, <2>1
<1>13. \A n \in 0..N : g[n] = Unfold(g, n)
  <2> HIDE DEF g
  <2> QED
    BY <1>12
<1> HIDE DEF g
<1>14. g[0] = Nothing
  <2>1. 0 \in 0..N
    BY <1>1
  <2>2. g[0] = Unfold(g, 0)
    BY <1>13, <2>1
  <2> QED
    BY <2>2 DEF Unfold
<1>15. ASSUME NEW n \in 1..N PROVE g[n] = Put(g[n - 1], n) /\ n \in 0..N
  <2>1. n \in 0..N /\ n # 0
    BY <1>1
  <2>2. g[n] = Unfold(g, n)
    BY <1>13, <2>1
  <2> QED
    BY <2>1, <2>2 DEF Unfold
<1>16. \A n \in 0..N : g[n] \in S
  <2> DEFINE T == {n \in 0..N : g[n] \in S}
  <2>1. 0 \in T
    BY <1>1, <1>14
  <2>2. ASSUME NEW n \in 1..N, n - 1 \in T PROVE n \in T
    BY <1>2, <1>15, <2>2
  <2>3. \A n \in 0..N : n \in T
    <3> HIDE DEF T
    <3> QED
      BY <1>1, <2>1, <2>2, Upward
  <2> QED
    BY <2>3
<1>17. ASSUME NEW n \in 1..N PROVE PartWritten(g[n - 1], g[n], Part(r, n))
  <2>1. n - 1 \in 0..N
    BY <1>1
  <2>2. g[n - 1] \in S
    BY <1>16, <2>1
  <2> QED
    BY <1>2, <1>15, <2>2
<1> QED
  BY <1>14, <1>16, <1>17 DEF Grows, N, S, g

-----------------------------------------------------------------------------
(* One question, one record *)

\* The bytes after a name, one at a time.
LEMMA ByteAfter ==
  ASSUME NEW c \in Seq(Nat), NEW m \in Nat, NEW rest \in Seq(Nat), Follows(c, m, rest),
         NEW k \in 0..(Len(rest) - 1)
  PROVE  At(c, m + k) = IF m + k < Len(c) THEN rest[k + 1] ELSE Nowhere
<1>1. k \in Nat /\ k + 1 \in 1..Len(rest) /\ m + k \in Nat /\ (m + k) + 1 = m + (k + 1) /\ Len(c) \in Nat
  OBVIOUS
<1>2. CASE m + k < Len(c)
  <2>1. m + (k + 1) <= Len(c)
    BY <1>1, <1>2
  <2>2. c[m + (k + 1)] = rest[k + 1]
    BY <1>1, <2>1 DEF Follows
  <2>3. At(c, m + k) = c[(m + k) + 1]
    BY <1>1, <1>2, AtIs
  <2> QED
    BY <1>1, <1>2, <2>2, <2>3
<1>3. CASE ~(m + k < Len(c))
  BY <1>1, <1>3, AtIs
<1> QED
  BY <1>2, <1>3

\* Stepping over a question.
LEMMA QuestionRead ==
  ASSUME NEW enc, NEW e, NEW part, PartWritten(enc, e, part), part.rest = <<TypeA, ClassIn>>,
         NEW c \in Seq(Nat), Begins(c, e.out) \/ Begins(e.out, c)
  PROVE  SkipQuestion(c, Len(enc.out)) =
           IF Len(e.out) <= Len(c) /\ e.spelled < MaxLabels THEN Len(e.out) ELSE Nowhere
<1> DEFINE m == NameEnd(e, part)
           o == Len(enc.out)
           z == Len(e.out)
           n == Len(c)
           rest == <<TypeA, ClassIn>>
<1>1. m \in Nat /\ e.spelled \in Nat /\ n \in Nat
  BY DEF PartWritten
<1>2. rest \in Seq(Nat) /\ Len(rest) = 2
  BY DEF TypeA, ClassIn
<1>3. z \in Nat
  <2>1. e.out \in Seq(Nat)
    BY DEF PartWritten, Sound
  <2> QED
    BY <2>1
<1>4. m = z - 2
  BY <1>2 DEF NameEnd
<1>5. IF n < m THEN NoStepsAt(c, o) ELSE StepsAt(c, o, e.spelled, m) /\ Follows(c, m, rest)
  BY DEF PartWritten
<1> HIDE DEF m, o, z, n, rest
<1>6. MaxLabels \in 0..MaxLabels
  BY ParserAssumption
<1>7. CASE n < m
  <2>1. SkipName(c, o) = Nowhere
    BY <1>5, <1>6, <1>7 DEF NoStepsAt, SkipName
  <2>2. SkipQuestion(c, o) = Nowhere
    BY <2>1 DEF SkipQuestion
  <2>3. ~(z <= n)
    BY <1>1, <1>3, <1>4, <1>7
  <2> QED
    BY <2>2, <2>3 DEF o, z, n
<1>8. CASE ~(n < m)
  <2>1. SkipName(c, o) = IF e.spelled < MaxLabels THEN m ELSE Nowhere
    BY <1>5, <1>6, <1>8 DEF StepsAt, SkipName
  <2>2. At(c, m + 1) = IF m + 1 < n THEN rest[2] ELSE Nowhere
    <3>1. 1 \in 0..(Len(rest) - 1) /\ 1 + 1 = 2
      BY <1>2
    <3>2. At(c, m + 1) = IF m + 1 < Len(c) THEN rest[1 + 1] ELSE Nowhere
      BY <1>1, <1>2, <1>5, <1>8, <3>1, ByteAfter
    <3> QED
      BY <3>1, <3>2 DEF n
  <2>3. rest[2] # Nowhere
    BY DEF rest, ClassIn, Nowhere
  <2>4. m # Nowhere /\ m + 2 = z /\ (m + 1 < n <=> z <= n)
    BY <1>1, <1>3, <1>4 DEF Nowhere
  <2>5. SkipQuestion(c, o) = IF SkipName(c, o) = Nowhere \/ At(c, SkipName(c, o) + 1) = Nowhere THEN Nowhere
                             ELSE SkipName(c, o) + 2
    BY DEF SkipQuestion
  <2>6. CASE e.spelled < MaxLabels
    <3>1. SkipName(c, o) = m
      BY <2>1, <2>6
    <3>2. SkipQuestion(c, o) = IF z <= n THEN z ELSE Nowhere
      BY <2>2, <2>3, <2>4, <2>5, <3>1
    <3> QED
      BY <2>6, <3>2 DEF o, z, n
  <2>7. CASE ~(e.spelled < MaxLabels)
    BY <2>1, <2>5, <2>7 DEF o, z, n
  <2> QED
    BY <2>6, <2>7
<1> QED
  BY <1>7, <1>8

\* A record of the message, and the name before it.
Record == [owner : Seq(Label), type : Nat, class : Nat, data : Seq(Nat)]
Answered(part, a) == part.name = a.owner /\ part.rest = <<a.type, a.class, Len(a.data)>> \o a.data
Told(a) == IF AddressOf(a) THEN <<[name |-> a.owner, ip |-> a.data]>> ELSE <<>>
Within(name, jumps) == Len(name) + jumps < MaxLabels /\ jumps <= MaxLabelJumps /\ NameLen(name) <= MaxNameLen

\* What is read of the name.
LEMMA NameRead ==
  ASSUME NEW enc, NEW e, NEW part, PartWritten(enc, e, part),
         NEW c \in Seq(Nat), Begins(c, e.out) \/ Begins(e.out, c)
  PROVE  LET n == ReadName(c, Len(enc.out))
         IN IF ~(Len(c) < NameEnd(e, part)) /\ Within(part.name, e.jumps)
              THEN n.labels = part.name /\ n.next = NameEnd(e, part)
            ELSE n.next = Nowhere
<1> DEFINE m == NameEnd(e, part)
           o == Len(enc.out)
           x == Reads(c)[MaxLabels][o]
           n == ReadName(c, o)
<1>1. MaxLabels \in 0..MaxLabels
  BY ParserAssumption
<1>2. n = IF x.jumps <= MaxLabelJumps /\ NameLen(x.labels) <= MaxNameLen THEN x ELSE NoName
  BY DEF ReadName
<1>3. IF Len(c) < m THEN NoNameAt(c, o) ELSE NameAt(c, o, part.name, e.jumps, m)
  BY DEF PartWritten
<1>4. NoName.next = Nowhere
  BY DEF NoName
<1>5. CASE Len(c) < m
  <2>1. x = NoName
    BY <1>1, <1>3, <1>5 DEF NoNameAt
  <2> HIDE DEF x, n, m
  <2>2. n = NoName
    BY <1>2, <2>1
  <2> QED
    BY <1>4, <1>5, <2>2 DEF n, m
<1>6. CASE ~(Len(c) < m)
  <2>1. x = IF Len(part.name) + e.jumps < MaxLabels THEN [labels |-> part.name, jumps |-> e.jumps, next |-> m]
            ELSE NoName
    BY <1>1, <1>3, <1>6 DEF NameAt
  <2> HIDE DEF x, n, m
  <2>2. CASE Len(part.name) + e.jumps < MaxLabels
    <3>1. x.labels = part.name /\ x.jumps = e.jumps /\ x.next = m
      BY <2>1, <2>2
    <3>2. CASE e.jumps <= MaxLabelJumps /\ NameLen(part.name) <= MaxNameLen
      <4>1. n = x
        BY <1>2, <3>1, <3>2
      <4> QED
        BY <1>6, <2>2, <3>1, <3>2, <4>1 DEF Within, n, m
    <3>3. CASE ~(e.jumps <= MaxLabelJumps /\ NameLen(part.name) <= MaxNameLen)
      <4>1. n = NoName
        BY <1>2, <3>1, <3>3
      <4> QED
        BY <1>4, <3>3, <4>1 DEF Within, n, m
    <3> QED
      BY <3>2, <3>3
  <2>3. CASE ~(Len(part.name) + e.jumps < MaxLabels)
    <3>1. n = NoName
      BY <1>2, <2>1, <2>3
    <3> QED
      BY <1>4, <2>3, <3>1 DEF Within, n, m
  <2> QED
    BY <2>2, <2>3
<1> QED
  BY <1>5, <1>6

\* Reading a record.
LEMMA AnswerRead ==
  ASSUME NEW enc, NEW e, NEW part, PartWritten(enc, e, part), NEW a \in Record, Answered(part, a),
         NEW c \in Seq(Nat), Begins(c, e.out) \/ Begins(e.out, c)
  PROVE  ParseAnswerAt(c, Len(enc.out)) =
           IF Len(e.out) <= Len(c) /\ Within(part.name, e.jumps)
             THEN [next |-> Len(e.out), told |-> Told(a)] ELSE NoRecord
<1> DEFINE m == NameEnd(e, part)
           o == Len(enc.out)
           z == Len(e.out)
           n == Len(c)
           d == a.data
           h == <<a.type, a.class, Len(d)>>
           rest == h \o d
           w == ReadName(c, o)
<1>1. m \in Nat /\ n \in Nat
  BY DEF PartWritten
<1>2. d \in Seq(Nat) /\ a.owner \in Seq(Label) /\ a.type \in Nat /\ a.class \in Nat
  BY DEF Record
<1>3. Len(d) \in Nat
  BY <1>2
<1>4. h \in Seq(Nat) /\ Len(h) = 3 /\ h[1] = a.type /\ h[2] = a.class /\ h[3] = Len(d)
  <2> HIDE DEF d
  <2> QED
    BY <1>2, <1>3
<1>5. /\ rest \in Seq(Nat) /\ Len(rest) = 3 + Len(d)
      /\ rest[1] = a.type /\ rest[2] = a.class /\ rest[3] = Len(d)
      /\ \A k \in 1..Len(d) : rest[3 + k] = d[k]
  <2> HIDE DEF h, d
  <2>1. rest \in Seq(Nat) /\ Len(rest) = 3 + Len(d)
    BY <1>2, <1>4, Join
  <2> DEFINE u == 3
  <2>2. h \in Seq(Nat) /\ d \in Seq(Nat) /\ Len(h) = u
    BY <1>2, <1>4
  <2>3. u = 3
    OBVIOUS
  <2> HIDE DEF u
  <2>4. rest = h \o d
    OBVIOUS
  <2> HIDE DEF rest
  <2>5. Len(h) \in Nat /\ Len(d) \in Nat
    BY <2>2
  <2>6. \A k \in 1..Len(h) : rest[k] = h[k]
    BY <2>2, <2>4, <2>5, SMTT(30)
  <2>7. \A k \in 1..Len(d) : rest[Len(h) + k] = d[k]
    BY <2>2, <2>4, <2>5, SMTT(30)
  <2>8. rest[1] = h[1] /\ rest[2] = h[2] /\ rest[3] = h[3]
    <3>1. 1 \in 1..Len(h) /\ 2 \in 1..Len(h) /\ 3 \in 1..Len(h)
      BY <2>2, <2>3
    <3> QED
      BY <2>6, <3>1
  <2>9. \A k \in 1..Len(d) : rest[u + k] = d[k]
    BY <2>2, <2>7
  <2> QED
    BY <1>4, <2>1, <2>3, <2>8, <2>9
<1>6. z \in Nat
  <2>1. e.out \in Seq(Nat)
    BY DEF PartWritten, Sound
  <2> QED
    BY <2>1
<1>7. m = z - (3 + Len(d))
  BY <1>5 DEF NameEnd, Answered
<1>8. ~(n < m) => Follows(c, m, rest)
  BY DEF PartWritten, Answered
<1>9. IF ~(n < m) /\ Within(part.name, e.jumps) THEN w.labels = part.name /\ w.next = m ELSE w.next = Nowhere
  BY NameRead
<1>10. ParseAnswerAt(c, o) = AnswerAfter(c, w)
  BY DEF ParseAnswerAt
<1>11. NoRecord = AnswerAfter(c, w) \/ w.next # Nowhere
  BY DEF AnswerAfter
<1> HIDE DEF m, n, z, w, h, d, rest
<1>12. CASE ~(~(n < m) /\ Within(part.name, e.jumps))
  <2>1. ParseAnswerAt(c, o) = NoRecord
    BY <1>9, <1>10, <1>11, <1>12
  <2>2. ~(z <= n /\ Within(part.name, e.jumps))
    BY <1>1, <1>3, <1>6, <1>7, <1>12
  <2> QED
    BY <2>1, <2>2 DEF z, n
<1>13. CASE ~(n < m) /\ Within(part.name, e.jumps)
  <2>1. w.labels = part.name /\ w.next = m /\ m # Nowhere
    BY <1>1, <1>9, <1>13 DEF Nowhere
  <2>2. \A k \in 0..2 : At(c, m + k) = IF m + k < n THEN rest[k + 1] ELSE Nowhere
    <3> SUFFICES ASSUME NEW k \in 0..2 PROVE At(c, m + k) = IF m + k < n THEN rest[k + 1] ELSE Nowhere
      OBVIOUS
    <3>1. k \in 0..(Len(rest) - 1)
      BY <1>3, <1>5
    <3> QED
      BY <1>1, <1>5, <1>8, <1>13, <3>1, ByteAfter DEF n
  <2>3. /\ At(c, m) = IF m < n THEN a.type ELSE Nowhere
        /\ At(c, m + 1) = IF m + 1 < n THEN a.class ELSE Nowhere
        /\ At(c, m + 2) = IF m + 2 < n THEN Len(d) ELSE Nowhere
    <3>1. m + 0 = m /\ 0 \in 0..2 /\ 1 \in 0..2 /\ 2 \in 0..2 /\ 0 + 1 = 1 /\ 1 + 1 = 2 /\ 2 + 1 = 3
      BY <1>1
    <3> QED
      BY <1>5, <2>2, <3>1
  <2> DEFINE rdlength == At(c, m + 2)
             rdata == m + 3
             said == IF /\ At(c, m + 1) = ClassIn /\ part.name # <<>>
                         /\ <<At(c, m), rdlength>> \in {<<TypeA, 1>>, <<TypeAAAA, 2>>}
                        THEN <<[name |-> part.name, ip |-> SubSeq(c, rdata + 1, rdata + rdlength)]>> ELSE <<>>
  <2>4. AnswerAfter(c, w) = IF rdlength = Nowhere \/ rdata + rdlength > n THEN NoRecord
                            ELSE [next |-> rdata + rdlength, told |-> said]
    BY <2>1 DEF AnswerAfter, n
  <2>5. CASE z <= n
    <3>1. m < n /\ m + 1 < n /\ m + 2 < n /\ rdata + Len(d) = z /\ rdata \in Nat
      BY <1>1, <1>3, <1>6, <1>7, <2>5
    <3>2. At(c, m) = a.type /\ At(c, m + 1) = a.class /\ rdlength = Len(d) /\ rdlength # Nowhere
      BY <1>3, <2>3, <3>1 DEF Nowhere
    <3>3. SubSeq(c, rdata + 1, rdata + Len(d)) = d
      <4> DEFINE s == SubSeq(c, rdata + 1, rdata + Len(d))
      <4>1. s \in Seq(Nat) /\ Len(s) = Len(d) /\ \A k \in 1..Len(d) : s[k] = c[rdata + k]
        BY <1>3, <2>5, <3>1, Stretch DEF n
      <4>2. ASSUME NEW k \in 1..Len(d) PROVE c[rdata + k] = d[k]
        <5>1. 3 + k \in 1..Len(rest) /\ m + (3 + k) <= n /\ m + (3 + k) = rdata + k
          BY <1>1, <1>3, <1>5, <2>5, <3>1
        <5>2. c[m + (3 + k)] = rest[3 + k]
          BY <1>8, <1>13, <5>1 DEF Follows, n
        <5> QED
          BY <1>5, <5>1, <5>2
      <4> HIDE DEF s
      <4>3. s = d
        BY <1>2, <4>1, <4>2, Alike
      <4> QED
        BY <4>3 DEF s
    <3>4. said = Told(a)
      BY <3>2, <3>3 DEF Told, AddressOf, Answered, d
    <3> HIDE DEF said, rdlength, rdata
    <3>5. AnswerAfter(c, w) = [next |-> z, told |-> Told(a)]
      BY <1>1, <1>6, <2>4, <2>5, <3>1, <3>2, <3>4
    <3> QED
      BY <1>10, <1>13, <2>5, <3>5 DEF z, n
  <2>6. CASE ~(z <= n)
    <3>1. rdlength = Nowhere \/ rdata + rdlength > n
      <4>1. rdlength = Nowhere \/ rdlength = Len(d)
        BY <2>3
      <4> QED
        BY <1>1, <1>3, <1>6, <1>7, <2>6, <4>1
    <3> HIDE DEF said, rdlength, rdata
    <3>2. AnswerAfter(c, w) = NoRecord
      BY <2>4, <3>1
    <3> QED
      BY <1>10, <2>6, <3>2 DEF z, n
  <2> QED
    BY <2>5, <2>6
<1> QED
  BY <1>12, <1>13

-----------------------------------------------------------------------------
(* A cut of the body *)

\* What a copy of the body's first bytes agrees with.
Cut(r, c) == c \in Seq(Nat) /\ Begins(Body(r), c)
EndOf(r, k) == Len(Encodings(r)[k].out)

\* The body begins with every stage of it, and the stages grow.
BodyLaws(r) ==
  /\ Body(r) \in Seq(Nat)
  /\ \A k \in 0..Parts(r) :
       EndOf(r, k) \in Nat /\ Encodings(r)[k].out \in Seq(Nat) /\ Begins(Body(r), Encodings(r)[k].out)
  /\ \A k \in 1..Parts(r) : EndOf(r, k - 1) <= EndOf(r, k)

LEMMA BodyStarts == ASSUME NEW r \in Response PROVE BodyLaws(r)
<1> DEFINE N == Parts(r)
           g == Encodings(r)
           b == Body(r)
           T == {k \in 0..N : Begins(b, g[k].out)}
<1>1. N \in Nat
  BY PartsWell
<1>2. Grows(r)
  BY EncodingsGrow
<1>3. b = g[N].out
  BY DEF Body
<1> HIDE DEF g, b, N
<1>4. \A k \in 0..N : g[k].out \in Seq(Nat)
  BY <1>2 DEF Grows, Encs, g, N
<1>5. \A k \in 1..N : Begins(g[k].out, g[k - 1].out)
  BY <1>2 DEF Grows, PartWritten, g, N
<1>6. b \in Seq(Nat)
  BY <1>1, <1>3, <1>4
<1>7. N \in T
  <2>1. Begins(b, b)
    BY <1>6, BeginsSelf
  <2> QED
    BY <1>1, <1>3, <2>1
<1>8. ASSUME NEW k \in 1..N, k \in T PROVE k - 1 \in T
  <2>1. k - 1 \in 0..N
    BY <1>1
  <2>2. Begins(b, g[k].out)
    BY <1>8
  <2>3. Begins(b, g[k - 1].out)
    <3> DEFINE s == g[k].out
               t == g[k - 1].out
    <3>1. s \in Seq(Nat) /\ t \in Seq(Nat) /\ Begins(b, s) /\ Begins(s, t)
      BY <1>4, <1>5, <1>8, <2>1, <2>2
    <3> HIDE DEF s, t
    <3>2. Begins(b, t)
      BY <1>6, <3>1, BeginsEach
    <3> QED
      BY <3>2 DEF t
  <2> QED
    BY <2>1, <2>3
<1>9. \A k \in 0..N : k \in T
  <2> HIDE DEF T
  <2> QED
    BY <1>1, <1>7, <1>8, Downward
<1>10. ASSUME NEW k \in 0..N PROVE EndOf(r, k) \in Nat /\ g[k].out \in Seq(Nat) /\ Begins(b, g[k].out)
  <2> DEFINE s == g[k].out
  <2>1. s \in Seq(Nat) /\ Begins(b, s)
    BY <1>4, <1>9
  <2>2. EndOf(r, k) = Len(s)
    BY DEF EndOf, g
  <2> HIDE DEF s
  <2>3. Len(s) \in Nat
    BY <2>1
  <2> QED
    BY <2>1, <2>2, <2>3 DEF s
<1>11. ASSUME NEW k \in 1..N PROVE EndOf(r, k - 1) <= EndOf(r, k)
  BY <1>5 DEF Begins, EndOf, g
<1> QED
  BY <1>6, <1>10, <1>11 DEF BodyLaws, b, g, N

\* One question, one record, of what was copied.
QuestionStep(r, c, k) ==
  SkipQuestion(c, EndOf(r, k - 1)) = IF EndOf(r, k) <= Len(c) /\ Skippable(r, k) THEN EndOf(r, k) ELSE Nowhere

AnswerStep(r, c, n) ==
  LET k == Len(r.questions) + n
  IN ParseAnswerAt(c, EndOf(r, k - 1)) =
       IF EndOf(r, k) <= Len(c) /\ Readable(r, k) THEN [next |-> EndOf(r, k), told |-> Told(r.answers[n])]
       ELSE NoRecord

\* A cut of the body is beside every stage of it.
LEMMA PartRead ==
  ASSUME NEW r \in Response, NEW c, Cut(r, c), NEW k \in 1..Parts(r)
  PROVE  LET e == Encodings(r)[k] IN Begins(c, e.out) \/ Begins(e.out, c)
<1> DEFINE w == Encodings(r)[k].out
           b == Body(r)
<1>1. k \in 0..Parts(r)
  BY PartsWell
<1>2. w \in Seq(Nat) /\ Begins(b, w) /\ b \in Seq(Nat) /\ c \in Seq(Nat) /\ Begins(b, c)
  BY <1>1, BodyStarts DEF BodyLaws, Cut
<1> HIDE DEF w, b
<1>3. Begins(c, w) \/ Begins(w, c)
  BY <1>2, Beside
<1> QED
  BY <1>3 DEF w

\* Each question and each record of a cut body is read as it was written.
LEMMA QuestionSteps ==
  ASSUME NEW r \in Response, NEW c, Cut(r, c), NEW k \in 1..Len(r.questions)
  PROVE  QuestionStep(r, c, k)
<1> DEFINE enc == Encodings(r)[k - 1]
           e == Encodings(r)[k]
           part == Part(r, k)
<1>1. k \in 1..Parts(r) /\ k <= Len(r.questions)
  <2>1. Parts(r) = Len(r.questions) + Len(r.answers) /\ Len(r.questions) \in Nat /\ Len(r.answers) \in Nat
    BY PartsWell
  <2> DEFINE q == Len(r.questions)
             a == Len(r.answers)
  <2> HIDE DEF q, a
  <2>2. k \in 1..q /\ q \in Nat /\ a \in Nat /\ Parts(r) = q + a
    BY <2>1 DEF q, a
  <2> QED
    BY <2>2 DEF q
<1>2. PartWritten(enc, e, part)
  BY <1>1, EncodingsGrow DEF Grows
<1>3. part.rest = <<TypeA, ClassIn>>
  BY <1>1 DEF Part
<1>4. (Begins(c, e.out) \/ Begins(e.out, c)) /\ c \in Seq(Nat)
  BY <1>1, PartRead DEF Cut
<1> HIDE DEF enc, e, part
<1>5. SkipQuestion(c, Len(enc.out)) = IF Len(e.out) <= Len(c) /\ e.spelled < MaxLabels THEN Len(e.out) ELSE Nowhere
  BY <1>2, <1>3, <1>4, QuestionRead
<1> QED
  BY <1>5 DEF QuestionStep, EndOf, Skippable, enc, e

LEMMA AnswerSteps ==
  ASSUME NEW r \in Response, NEW c, Cut(r, c), NEW n \in 1..Len(r.answers)
  PROVE  AnswerStep(r, c, n) /\ r.answers[n] \in Record
<1> DEFINE q == Len(r.questions)
           k == q + n
           enc == Encodings(r)[k - 1]
           e == Encodings(r)[k]
           part == Part(r, k)
           a == r.answers[n]
           j == k - q
<1>1. k \in 1..Parts(r) /\ ~(k <= q) /\ k - q = n
  <2>1. Parts(r) = q + Len(r.answers) /\ q \in Nat /\ Len(r.answers) \in Nat
    BY PartsWell
  <2> DEFINE m == Len(r.answers)
  <2>2. n \in 1..m /\ m \in Nat /\ q \in Nat /\ Parts(r) = q + m
    BY <2>1
  <2> HIDE DEF q, m
  <2> QED
    BY <2>2
<1>2. PartWritten(enc, e, part)
  BY <1>1, EncodingsGrow DEF Grows
<1>3. a \in Record
  <2> DEFINE s == r.answers
  <2>1. s \in Seq(Record)
    BY DEF Response, Record
  <2>2. n \in 1..Len(s)
    OBVIOUS
  <2> HIDE DEF s
  <2>3. s[n] \in Record
    BY <2>1, <2>2
  <2> QED
    BY <2>3 DEF s
<1>4. Answered(part, a)
  <2>1. part = [name |-> r.answers[j].owner,
                rest |-> <<r.answers[j].type, r.answers[j].class, Len(r.answers[j].data)>> \o r.answers[j].data]
    BY <1>1 DEF Part
  <2>2. r.answers[j] = a
    BY <1>1
  <2> HIDE DEF a, j, part
  <2> QED
    BY <2>1, <2>2 DEF Answered
<1>5. (Begins(c, e.out) \/ Begins(e.out, c)) /\ c \in Seq(Nat)
  BY <1>1, PartRead DEF Cut
<1> HIDE DEF enc, e, part, a
<1>6. ParseAnswerAt(c, Len(enc.out)) =
        IF Len(e.out) <= Len(c) /\ Within(part.name, e.jumps) THEN [next |-> Len(e.out), told |-> Told(a)]
        ELSE NoRecord
  BY <1>2, <1>3, <1>4, <1>5, AnswerRead
<1>7. Readable(r, k) <=> Within(part.name, e.jumps)
  BY DEF Readable, Within, part, e
<1> QED
  BY <1>3, <1>6, <1>7 DEF AnswerStep, EndOf, enc, e, a

-----------------------------------------------------------------------------
(* The questions and the answers, from the first on *)

\* Where the questions stepped over end.
Asked(r, c, k) ==
  IF EndOf(r, k) <= Len(c) /\ \A j \in 1..k : Skippable(r, j) THEN EndOf(r, k) ELSE Nowhere

\* skip_questions, step by step and as a whole.
LEMMA AskedSteps ==
  ASSUME NEW r \in Response, NEW c, Cut(r, c), NEW k \in 1..Len(r.questions)
  PROVE  Asked(r, c, k) = IF Asked(r, c, k - 1) = Nowhere THEN Nowhere ELSE SkipQuestion(c, Asked(r, c, k - 1))
<1> DEFINE q == Len(r.questions)
           x == EndOf(r, k - 1)
           y == EndOf(r, k)
           n == Len(c)
           before == \A j \in 1..(k - 1) : Skippable(r, j)
<1>1. q \in Nat /\ k \in 1..Parts(r) /\ k - 1 \in 0..Parts(r) /\ k \in 0..Parts(r)
  <2>1. Parts(r) = q + Len(r.answers) /\ q \in Nat /\ Len(r.answers) \in Nat
    BY PartsWell
  <2> DEFINE a == Len(r.answers)
  <2>2. k \in 1..q /\ q \in Nat /\ a \in Nat /\ Parts(r) = q + a
    BY <2>1
  <2> HIDE DEF q, a
  <2> QED
    BY <2>2
<1>2. x \in Nat /\ y \in Nat /\ x <= y
  BY <1>1, BodyStarts DEF BodyLaws
<1>3. n \in Nat
  BY DEF Cut
<1>4. SkipQuestion(c, x) = IF y <= n /\ Skippable(r, k) THEN y ELSE Nowhere
  BY QuestionSteps DEF QuestionStep
<1>5. (\A j \in 1..k : Skippable(r, j)) <=> before /\ Skippable(r, k)
  <2>1. 1..k = 1..(k - 1) \cup {k}
    BY <1>1
  <2> QED
    BY <2>1
<1>6. Asked(r, c, k - 1) = IF x <= n /\ before THEN x ELSE Nowhere
  BY DEF Asked
<1>7. Asked(r, c, k) = IF y <= n /\ before /\ Skippable(r, k) THEN y ELSE Nowhere
  BY <1>5 DEF Asked
<1> HIDE DEF x, y, n, before
<1>8. x # Nowhere
  BY <1>2 DEF Nowhere
<1>9. y <= n => x <= n
  BY <1>2, <1>3
<1>10. CASE x <= n /\ before
  <2>1. Asked(r, c, k - 1) = x
    BY <1>6, <1>10
  <2> QED
    BY <1>4, <1>7, <1>8, <1>10, <2>1
<1>11. CASE ~(x <= n /\ before)
  BY <1>6, <1>7, <1>9, <1>11
<1> QED
  BY <1>10, <1>11

LEMMA QuestionsRead ==
  ASSUME NEW r \in Response, NEW c, Cut(r, c)
  PROVE  SkipQuestions(c, Len(r.questions)) =
           IF Len(r.questions) > MaxQuestions THEN Nowhere ELSE Asked(r, c, Len(r.questions))
<1> DEFINE q == Len(r.questions)
           Unfold(f, n) == IF n = 0 THEN 0 ELSE IF f[n - 1] = Nowhere THEN Nowhere ELSE SkipQuestion(c, f[n - 1])
           Rec(f) == f = [n \in 0..q |-> Unfold(f, n)]
           g == CHOOSE f : Rec(f)
           h == [n \in 0..q |-> Asked(r, c, n)]
<1>1. q \in Nat
  BY PartsWell
<1>2. SkipQuestions(c, q) = IF q > MaxQuestions THEN Nowhere ELSE g[q]
  BY DEF SkipQuestions
<1>3. ASSUME NEW n \in 1..q
      PROVE  Asked(r, c, n) = IF Asked(r, c, n - 1) = Nowhere THEN Nowhere ELSE SkipQuestion(c, Asked(r, c, n - 1))
  BY AskedSteps
<1>4. Asked(r, c, 0) = 0
  <2>1. 0 \in 0..Parts(r)
    <3>1. Parts(r) \in Nat
      BY PartsWell
    <3> QED
      BY <3>1
  <2>2. Encodings(r)[0].out = <<>>
    BY <2>1, EncodingsGrow DEF Grows, Nothing
  <2>3. EndOf(r, 0) = 0
    BY <2>2 DEF EndOf
  <2>4. Len(c) \in Nat
    BY DEF Cut
  <2>5. EndOf(r, 0) <= Len(c) /\ \A j \in 1..0 : Skippable(r, j)
    <3>1. 1..0 = {}
      OBVIOUS
    <3> QED
      BY <2>3, <2>4, <3>1
  <2> QED
    BY <2>3, <2>5 DEF Asked
<1> HIDE DEF q
<1>5. \A n \in 0..q : h[n] = Unfold(h, n)
  <2> SUFFICES ASSUME NEW n \in 0..q PROVE h[n] = Unfold(h, n)
    OBVIOUS
  <2>1. CASE n = 0
    BY <1>4, <2>1
  <2>2. CASE n # 0
    <3>1. n \in 1..q /\ n - 1 \in 0..q
      BY <1>1, <2>2
    <3>2. h[n] = Asked(r, c, n) /\ h[n - 1] = Asked(r, c, n - 1)
      BY <3>1
    <3> HIDE DEF h
    <3> QED
      BY <1>3, <2>2, <3>1, <3>2
  <2> QED
    BY <2>1, <2>2
<1>6. Rec(h)
  <2>1. h = [n \in 0..q |-> h[n]]
    OBVIOUS
  <2> HIDE DEF h, Unfold
  <2> QED
    BY <1>5, <2>1
<1>7. Rec(g)
  <2> HIDE DEF Rec, h
  <2> QED
    BY <1>6
<1>8. \A n \in 0..q : g[n] = Unfold(g, n)
  <2> HIDE DEF g
  <2> QED
    BY <1>7
<1> HIDE DEF g
<1>9. \A n \in 0..q : g[n] = Asked(r, c, n)
  <2> DEFINE T == {n \in 0..q : g[n] = Asked(r, c, n)}
  <2>1. 0 \in T
    <3>1. 0 \in 0..q
      BY <1>1
    <3>2. g[0] = Unfold(g, 0)
      BY <1>8, <3>1
    <3> QED
      BY <1>4, <3>1, <3>2
  <2>2. ASSUME NEW n \in 1..q, n - 1 \in T PROVE n \in T
    <3>1. n \in 0..q /\ n # 0
      BY <1>1
    <3>2. g[n] = Unfold(g, n)
      BY <1>8, <3>1
    <3>3. g[n - 1] = Asked(r, c, n - 1)
      BY <2>2
    <3>4. g[n] = Asked(r, c, n)
      BY <1>3, <3>1, <3>2, <3>3
    <3> QED
      BY <3>1, <3>4
  <2>3. \A n \in 0..q : n \in T
    <3> HIDE DEF T
    <3> QED
      BY <1>1, <2>1, <2>2, Upward
  <2> QED
    BY <2>3
<1>10. g[q] = Asked(r, c, q)
  BY <1>1, <1>9
<1> QED
  BY <1>2, <1>10 DEF q

\* The addresses of the first records.
Lists(r) ==
  /\ Addresses(r)[0] = <<>>
  /\ \A n \in 1..Len(r.answers) : Addresses(r)[n] = Addresses(r)[n - 1] \o Told(r.answers[n])
  /\ \A n \in 0..Len(r.answers) : Addresses(r)[n] \in Seq([name : Seq(Label), ip : Seq(Nat)])

\* The recursion of Addresses has its value at every record.
LEMMA AddressesList == ASSUME NEW r \in Response PROVE Lists(r)
<1> DEFINE N == Len(r.answers)
           S == Seq([name : Seq(Label), ip : Seq(Nat)])
           Put(s, n) == s \o Told(r.answers[n])
           Row(n) == [s \in S |-> Put(s, n)]
           F == [n \in 1..N |-> Row(n)]
           Unfold(f, n) == IF n = 0 THEN <<>> ELSE Put(f[n - 1], n)
           Rec(f) == f = [n \in 0..N |-> Unfold(f, n)]
<1>1. N \in Nat /\ <<>> \in S
  BY PartsWell
<1>2. ASSUME NEW n \in 1..N, NEW s \in S PROVE Put(s, n) \in S
  <2> DEFINE a == r.answers[n]
             R == [name : Seq(Label), ip : Seq(Nat)]
  <2>1. a \in Record
    <3> DEFINE z == r.answers
    <3>1. z \in Seq(Record)
      BY DEF Response, Record
    <3>2. n \in 1..Len(z)
      OBVIOUS
    <3> HIDE DEF z
    <3>3. z[n] \in Record
      BY <3>1, <3>2
    <3> QED
      BY <3>3 DEF z
  <2> HIDE DEF a
  <2>2. a.owner \in Seq(Label) /\ a.data \in Seq(Nat)
    BY <2>1 DEF Record
  <2> DEFINE x == [name |-> a.owner, ip |-> a.data]
  <2>3. x \in R
    BY <2>2
  <2> HIDE DEF x, R
  <2>4. <<x>> \in Seq(R) /\ <<>> \in Seq(R)
    BY <2>3
  <2>5. Told(a) \in Seq(R)
    BY <2>4 DEF Told, x
  <2>6. s \in Seq(R)
    BY DEF R
  <2>7. s \o Told(a) \in Seq(R)
    BY <2>5, <2>6
  <2> QED
    BY <2>7 DEF R, a
<1>3. Addresses(r) = CHOOSE f : Rec(f)
  BY DEF Addresses, Told
<1> HIDE DEF N, S, Put
<1>4. \A n \in 1..N : Row(n) \in [S -> S]
  BY <1>2
<1>5. F \in [1..N -> [S -> S]]
  <2> HIDE DEF Row
  <2> QED
    BY <1>4
<1>6. PICK f : Unfolds(f, N, S, <<>>, F)
  <2> HIDE DEF F
  <2> QED
    BY <1>1, <1>5, Recursion
<1>7. f \in [0..N -> S] /\ f[0] = <<>> /\ \A n \in 1..N : f[n] = F[n][f[n - 1]]
  <2> HIDE DEF F
  <2> QED
    BY <1>6 DEF Unfolds
<1>8. ASSUME NEW n \in 1..N PROVE f[n] = Put(f[n - 1], n)
  <2>1. n - 1 \in 0..N
    BY <1>1
  <2>2. f[n - 1] \in S
    BY <1>7, <2>1
  <2>3. f[n] = F[n][f[n - 1]]
    BY <1>7
  <2>4. F[n][f[n - 1]] = Row(n)[f[n - 1]]
    <3> HIDE DEF Row
    <3> QED
      OBVIOUS
  <2> QED
    BY <2>2, <2>3, <2>4
<1>9. \A n \in 0..N : f[n] = Unfold(f, n)
  <2> SUFFICES ASSUME NEW n \in 0..N PROVE f[n] = Unfold(f, n)
    OBVIOUS
  <2>1. CASE n = 0
    BY <1>7, <2>1
  <2>2. CASE n # 0
    <3>1. n \in 1..N
      BY <1>1, <2>2
    <3> QED
      BY <1>8, <2>2, <3>1
  <2> QED
    BY <2>1, <2>2
<1> HIDE DEF Unfold
<1>10. Rec(f)
  BY <1>7, <1>9
<1> DEFINE g == Addresses(r)
<1>11. Rec(g)
  <2>1. \E x : Rec(x)
    BY <1>10
  <2> HIDE DEF Rec
  <2> QED
    BY <1>3, <2>1
<1>12. \A n \in 0..N : g[n] = Unfold(g, n)
  <2> HIDE DEF g
  <2> QED
    BY <1>11
<1> HIDE DEF g
<1>13. g[0] = <<>>
  <2>1. 0 \in 0..N
    BY <1>1
  <2>2. g[0] = Unfold(g, 0)
    BY <1>12, <2>1
  <2> QED
    BY <2>2 DEF Unfold
<1>14. ASSUME NEW n \in 1..N PROVE g[n] = Put(g[n - 1], n) /\ n \in 0..N
  <2>1. n \in 0..N /\ n # 0
    BY <1>1
  <2>2. g[n] = Unfold(g, n)
    BY <1>12, <2>1
  <2> QED
    BY <2>1, <2>2 DEF Unfold
<1>15. \A n \in 0..N : g[n] \in S
  <2> DEFINE T == {n \in 0..N : g[n] \in S}
  <2>1. 0 \in T
    BY <1>1, <1>13
  <2>2. ASSUME NEW n \in 1..N, n - 1 \in T PROVE n \in T
    BY <1>2, <1>14, <2>2
  <2>3. \A n \in 0..N : n \in T
    <3> HIDE DEF T
    <3> QED
      BY <1>1, <2>1, <2>2, Upward
  <2> QED
    BY <2>3
<1> QED
  BY <1>13, <1>14, <1>15 DEF Lists, N, S, g, Put

\* The records read, and how far the walk over them came: m is the last that can
\* be read, if any.
Came(r, n, m) ==
  IF n <= m THEN [next |-> EndOf(r, Len(r.questions) + n), told |-> Addresses(r)[n]]
  ELSE [next |-> Nowhere, told |-> IF m = Nowhere THEN <<>> ELSE Addresses(r)[m]]

Limit(r) == Min({MaxAnswers, Len(r.answers)})

Reached(r, prefix) ==
  {n \in 0..Limit(r) : /\ Whole(r, prefix, Len(r.questions) + n)
                       /\ \A j \in 1..Len(r.questions) : Skippable(r, j)
                       /\ \A j \in 1..n : Readable(r, Len(r.questions) + j)}

LastRead(r, prefix) ==
  IF Len(r.questions) > MaxQuestions \/ Reached(r, prefix) = {} THEN Nowhere ELSE Max(Reached(r, prefix))

\* The records for_each_answer looks at.
LEMMA LimitIs ==
  ASSUME NEW r \in Response
  PROVE  /\ Limit(r) \in Nat /\ Limit(r) <= Len(r.answers) /\ Len(r.questions) \in Nat /\ Len(r.answers) \in Nat
         /\ \A n \in 0..Limit(r) : Len(r.questions) + n \in 0..Parts(r)
         /\ \A n \in 1..Limit(r) : n \in 1..Len(r.answers) /\ Len(r.questions) + n \in 1..Parts(r)
<1> DEFINE a == Len(r.answers)
           q == Len(r.questions)
           S == {MaxAnswers, a}
           l == Min(S)
<1>1. a \in Nat /\ q \in Nat /\ Parts(r) = q + a
  BY PartsWell
<1> HIDE DEF a, q
<1>2. S \in SUBSET Nat /\ S # {}
  BY <1>1, ParserAssumption
<1>3. a \in S
  OBVIOUS
<1> HIDE DEF S
<1>4. l \in S /\ \A k \in S : l <= k
  BY <1>2, MinIs
<1> HIDE DEF l
<1>5. l \in Nat /\ l <= a
  BY <1>2, <1>3, <1>4
<1>6. /\ \A n \in 0..l : q + n \in 0..(q + a)
      /\ \A n \in 1..l : n \in 1..a /\ q + n \in 1..(q + a)
  BY <1>1, <1>5
<1>7. Limit(r) = l
  BY DEF Limit, l, S, a
<1> QED
  BY <1>1, <1>5, <1>6, <1>7 DEF a, q

\* The records read are the first ones, up to the last.
LEMMA ReachedIs ==
  ASSUME NEW r \in Response, NEW prefix \in Nat
  PROVE  LET m == LastRead(r, prefix)
         IN /\ m \in Nat \cup {Nowhere} /\ m <= Limit(r)
            /\ Len(r.questions) <= MaxQuestions =>
                 \A n \in 0..Limit(r) : n <= m <=> n \in Reached(r, prefix)
            /\ Len(r.questions) > MaxQuestions => m = Nowhere
<1> DEFINE m == LastRead(r, prefix)
           l == Limit(r)
           S == Reached(r, prefix)
           q == Len(r.questions)
<1>1. l \in Nat /\ q \in Nat /\ MaxQuestions \in Nat
  BY LimitIs, ParserAssumption
<1>2. S \in SUBSET (0..l)
  BY DEF Reached
<1>3. ASSUME NEW n \in S, NEW k \in 0..n PROVE k \in S
  <2> DEFINE u == q + k
             v == q + n
  <2>1. /\ Whole(r, prefix, v) /\ \A j \in 1..q : Skippable(r, j)
        /\ \A j \in 1..n : Readable(r, q + j)
    BY DEF Reached
  <2>2. n \in 0..l /\ n \in Nat
    BY <1>1, <1>2
  <2>3. k \in 0..l /\ \A j \in 1..k : j \in 1..n
    BY <1>1, <2>2
  <2>4. EndOf(r, u) <= EndOf(r, v)
    <3> DEFINE T == {x \in 0..n : EndOf(r, q + x) <= EndOf(r, v)}
    <3>1. EndOf(r, v) \in Nat /\ \A x \in 0..n : EndOf(r, q + x) \in Nat
      <4>1. \A x \in 0..n : q + x \in 0..Parts(r)
        <5>1. \A x \in 0..n : x \in 0..l
          BY <1>1, <2>2
        <5> QED
          BY <5>1, LimitIs
      <4>2. n \in 0..n
        BY <2>2
      <4> QED
        BY <4>1, <4>2, BodyStarts DEF BodyLaws
    <3>2. n \in T
      BY <2>2, <3>1
    <3>3. ASSUME NEW x \in 1..n, x \in T PROVE x - 1 \in T
      <4>1. x \in 1..l /\ x \in 0..n /\ x - 1 \in 0..n /\ (q + x) - 1 = q + (x - 1)
        BY <1>1, <2>2
      <4>2. q + x \in 1..Parts(r)
        BY <4>1, LimitIs
      <4>3. EndOf(r, (q + x) - 1) <= EndOf(r, q + x)
        BY <4>2, BodyStarts DEF BodyLaws
      <4>4. EndOf(r, q + (x - 1)) <= EndOf(r, q + x)
        BY <4>1, <4>3
      <4>5. EndOf(r, q + x) <= EndOf(r, v)
        BY <3>3
      <4>6. EndOf(r, q + (x - 1)) \in Nat /\ EndOf(r, q + x) \in Nat
        BY <3>1, <4>1
      <4> HIDE DEF v
      <4>7. EndOf(r, q + (x - 1)) <= EndOf(r, v)
        BY <3>1, <4>4, <4>5, <4>6
      <4> QED
        BY <4>1, <4>7
    <3>4. \A x \in 0..n : x \in T
      <4> HIDE DEF T
      <4> QED
        BY <2>2, <3>2, <3>3, Downward
    <3> QED
      BY <3>4
  <2>5. Whole(r, prefix, u)
    <3>1. EndOf(r, u) \in Nat /\ EndOf(r, v) \in Nat
      <4>1. u \in 0..Parts(r) /\ v \in 0..Parts(r)
        BY <2>2, <2>3, LimitIs
      <4> QED
        BY <4>1, BodyStarts DEF BodyLaws
    <3>2. EndOf(r, v) <= prefix
      BY <2>1 DEF Whole, EndOf
    <3> HIDE DEF u, v
    <3>3. EndOf(r, u) <= prefix
      BY <2>4, <3>1, <3>2
    <3> QED
      BY <3>3 DEF Whole, EndOf
  <2> QED
    BY <2>1, <2>3, <2>5 DEF Reached
<1> HIDE DEF S, l, q
<1>4. m = IF q > MaxQuestions \/ S = {} THEN Nowhere ELSE Max(S)
  BY DEF LastRead, S, q
<1> HIDE DEF m
<1>5. CASE q > MaxQuestions \/ S = {}
  <2>1. m = Nowhere
    BY <1>4, <1>5
  <2>2. m <= l /\ \A n \in 0..l : ~(n <= m)
    BY <1>1, <2>1 DEF Nowhere
  <2>3. q <= MaxQuestions => S = {}
    BY <1>1, <1>5
  <2> QED
    BY <2>1, <2>2, <2>3 DEF m, l, S, q
<1>6. CASE ~(q > MaxQuestions \/ S = {})
  <2>1. m = Max(S) /\ S # {}
    BY <1>4, <1>6
  <2>2. m \in S /\ \A y \in S : m >= y
    BY <1>1, <1>2, <2>1, MaxIs
  <2>3. m \in 0..l
    BY <1>2, <2>2
  <2>4. \A n \in 0..l : n <= m <=> n \in S
    <3> SUFFICES ASSUME NEW n \in 0..l PROVE n <= m <=> n \in S
      OBVIOUS
    <3>1. ASSUME n <= m PROVE n \in S
      <4>1. n \in 0..m
        BY <1>1, <2>3, <3>1
      <4> QED
        BY <1>3, <2>2, <4>1
    <3>2. ASSUME n \in S PROVE n <= m
      <4>1. m >= n
        BY <2>2, <3>2
      <4> QED
        BY <1>1, <2>3, <4>1
    <3> QED
      BY <3>1, <3>2
  <2>5. m \in Nat /\ m <= l
    BY <1>1, <2>3
  <2> QED
    BY <1>1, <1>6, <2>4, <2>5 DEF m, l, S, q
<1> QED
  BY <1>5, <1>6

\* One turn of the walk.
Turn(c, x) ==
  LET p == ParseAnswerAt(c, x.next)
  IN IF x.next = Nowhere THEN x ELSE [next |-> p.next, told |-> x.told \o p.told]

\* The walk of for_each_answer, where it starts and turn by turn.
LEMMA CameStarts ==
  ASSUME NEW r \in Response, NEW c, Cut(r, c)
  PROVE  Came(r, 0, LastRead(r, Len(c))) = [next |-> SkipQuestions(c, Len(r.questions)), told |-> <<>>]
<1> DEFINE m == LastRead(r, Len(c))
           q == Len(r.questions)
           x == Came(r, 0, m)
           z == EndOf(r, q)
<1>1. Len(c) \in Nat
  BY DEF Cut
<1>2. q \in Nat /\ Limit(r) \in Nat /\ q \in 0..Parts(r) /\ q + 0 = q
  <2>1. q \in Nat /\ Limit(r) \in Nat /\ \A n \in 0..Limit(r) : q + n \in 0..Parts(r)
    BY LimitIs
  <2> HIDE DEF q
  <2> QED
    BY <2>1
<1>3. z \in Nat
  BY <1>2, BodyStarts DEF BodyLaws
<1>4. m \in Nat \cup {Nowhere} /\ (q <= MaxQuestions => \A n \in 0..Limit(r) : n <= m <=> n \in Reached(r, Len(c)))
      /\ (q > MaxQuestions => m = Nowhere)
  BY <1>1, ReachedIs
<1>5. SkipQuestions(c, q) = IF q > MaxQuestions THEN Nowhere ELSE Asked(r, c, q)
  BY QuestionsRead
<1>6. Asked(r, c, q) = IF z <= Len(c) /\ \A j \in 1..q : Skippable(r, j) THEN z ELSE Nowhere
  BY DEF Asked
<1>7. 0 \in Reached(r, Len(c)) <=> z <= Len(c) /\ \A j \in 1..q : Skippable(r, j)
  <2>1. 0 \in 0..Limit(r) /\ 1..0 = {}
    BY <1>2
  <2>2. Whole(r, Len(c), q + 0) <=> z <= Len(c)
    BY <1>2 DEF Whole, EndOf
  <2> QED
    BY <2>1, <2>2 DEF Reached
<1>8. MaxQuestions \in Nat
  BY ParserAssumption
<1>9. Addresses(r)[0] = <<>>
  BY AddressesList DEF Lists
<1>10. x = IF 0 <= m THEN [next |-> EndOf(r, q + 0), told |-> Addresses(r)[0]]
           ELSE [next |-> Nowhere, told |-> IF m = Nowhere THEN <<>> ELSE Addresses(r)[m]]
  BY DEF Came
<1> HIDE DEF m, q, x
<1>11. CASE 0 <= m
  <2>1. m # Nowhere
    BY <1>11 DEF Nowhere
  <2>2. ~(q > MaxQuestions) /\ q <= MaxQuestions
    BY <1>2, <1>4, <1>8, <2>1
  <2>3. 0 \in 0..Limit(r)
    BY <1>2
  <2>4. 0 \in Reached(r, Len(c))
    BY <1>4, <1>11, <2>2, <2>3
  <2>5. SkipQuestions(c, q) = z
    BY <1>5, <1>6, <1>7, <2>2, <2>4
  <2>6. x = [next |-> z, told |-> <<>>]
    BY <1>2, <1>9, <1>10, <1>11
  <2> QED
    BY <2>5, <2>6 DEF x, m, q
<1>12. CASE ~(0 <= m)
  <2>1. m = Nowhere
    BY <1>4, <1>12
  <2>2. SkipQuestions(c, q) = Nowhere
    <3>1. CASE q > MaxQuestions
      BY <1>5, <3>1
    <3>2. CASE ~(q > MaxQuestions)
      <4>1. q <= MaxQuestions /\ 0 \in 0..Limit(r)
        BY <1>2, <1>8, <3>2
      <4>2. 0 \notin Reached(r, Len(c))
        BY <1>4, <1>12, <4>1
      <4> QED
        BY <1>5, <1>6, <1>7, <3>2, <4>2
    <3> QED
      BY <3>1, <3>2
  <2>3. x = [next |-> Nowhere, told |-> <<>>]
    BY <1>10, <1>12, <2>1
  <2> QED
    BY <2>2, <2>3 DEF x, m, q
<1> QED
  BY <1>11, <1>12

LEMMA CameSteps ==
  ASSUME NEW r \in Response, NEW c, Cut(r, c), NEW n \in 1..Limit(r)
  PROVE  Came(r, n, LastRead(r, Len(c))) = Turn(c, Came(r, n - 1, LastRead(r, Len(c))))
<1> DEFINE m == LastRead(r, Len(c))
           q == Len(r.questions)
           x == Came(r, n - 1, m)
           y == Came(r, n, m)
           u == EndOf(r, q + (n - 1))
           v == EndOf(r, q + n)
           A == Addresses(r)
           p == ParseAnswerAt(c, u)
           S == Reached(r, Len(c))
<1>1. Len(c) \in Nat /\ MaxQuestions \in Nat
  BY ParserAssumption DEF Cut
<1>2. q \in Nat /\ Limit(r) \in Nat
  BY LimitIs
<1>3. n \in 1..Len(r.answers) /\ n \in 0..Limit(r) /\ n - 1 \in 0..Limit(r) /\ (q + n) - 1 = q + (n - 1)
  <2>1. n \in 1..Len(r.answers)
    BY LimitIs
  <2> HIDE DEF q
  <2> QED
    BY <1>2, <2>1
<1>4. u \in Nat /\ v \in Nat
  <2>1. q + n \in 0..Parts(r) /\ q + (n - 1) \in 0..Parts(r)
    BY <1>3, LimitIs
  <2> QED
    BY <2>1, BodyStarts DEF BodyLaws
<1>5. /\ m \in Nat \cup {Nowhere} /\ m <= Limit(r)
      /\ q <= MaxQuestions => \A k \in 0..Limit(r) : k <= m <=> k \in S
      /\ q > MaxQuestions => m = Nowhere
  BY <1>1, ReachedIs
<1>6. p = IF v <= Len(c) /\ Readable(r, q + n) THEN [next |-> v, told |-> Told(r.answers[n])] ELSE NoRecord
  BY <1>3, AnswerSteps DEF AnswerStep
<1>7. A[n] = A[n - 1] \o Told(r.answers[n])
  BY <1>3, AddressesList DEF Lists
<1>8. A[n - 1] \o <<>> = A[n - 1]
  <2> DEFINE s == A[n - 1]
             R == [name : Seq(Label), ip : Seq(Nat)]
  <2>1. n - 1 \in 0..Len(r.answers)
    <3>1. Limit(r) <= Len(r.answers) /\ Len(r.answers) \in Nat
      BY LimitIs
    <3> QED
      BY <1>2, <1>3, <3>1
  <2>2. s \in Seq(R)
    BY <2>1, AddressesList DEF Lists
  <2> HIDE DEF s, R
  <2>3. s \o <<>> = s
    BY <2>2
  <2> QED
    BY <2>3 DEF s
<1>9. n - 1 \in S => (n \in S <=> v <= Len(c) /\ Readable(r, q + n))
  <2>1. 1..n = 1..(n - 1) \cup {n}
    BY <1>2, <1>3
  <2>2. Whole(r, Len(c), q + n) <=> v <= Len(c)
    BY DEF Whole, EndOf
  <2> QED
    BY <1>3, <2>1, <2>2 DEF Reached
<1>10. /\ x = IF n - 1 <= m THEN [next |-> u, told |-> A[n - 1]]
              ELSE [next |-> Nowhere, told |-> IF m = Nowhere THEN <<>> ELSE A[m]]
       /\ y = IF n <= m THEN [next |-> v, told |-> A[n]]
              ELSE [next |-> Nowhere, told |-> IF m = Nowhere THEN <<>> ELSE A[m]]
  BY DEF Came
<1>11. Turn(c, x) = IF x.next = Nowhere THEN x
                    ELSE [next |-> ParseAnswerAt(c, x.next).next, told |-> x.told \o ParseAnswerAt(c, x.next).told]
  BY DEF Turn
<1> HIDE DEF m, q, x, y, u, v, A, S
<1>12. CASE ~(n - 1 <= m)
  <2>1. ~(n <= m)
    BY <1>2, <1>3, <1>5, <1>12 DEF Nowhere
  <2>2. x.next = Nowhere /\ x = y
    BY <1>10, <1>12, <2>1
  <2> QED
    BY <1>11, <2>2 DEF x, y, m
<1>13. CASE n - 1 <= m
  <2>1. x.next = u /\ x.told = A[n - 1] /\ u # Nowhere
    BY <1>4, <1>10, <1>13 DEF Nowhere
  <2>2. m # Nowhere
    BY <1>3, <1>13 DEF Nowhere
  <2>3. q <= MaxQuestions
    BY <1>1, <1>2, <1>5, <2>2
  <2>4. n - 1 \in S /\ (n <= m <=> n \in S)
    BY <1>3, <1>5, <1>13, <2>3
  <2>5. Turn(c, x) = [next |-> p.next, told |-> A[n - 1] \o p.told]
    BY <1>11, <2>1
  <2> HIDE DEF p
  <2>6. CASE n <= m
    <3>1. p = [next |-> v, told |-> Told(r.answers[n])]
      BY <1>6, <1>9, <2>4, <2>6
    <3>2. p.next = v /\ p.told = Told(r.answers[n])
      BY <3>1
    <3>3. Turn(c, x) = [next |-> v, told |-> A[n]]
      BY <1>7, <2>5, <3>2
    <3> QED
      BY <1>10, <2>6, <3>3 DEF x, y, m
  <2>7. CASE ~(n <= m)
    <3>1. p = NoRecord
      BY <1>6, <1>9, <2>4, <2>7
    <3>2. p.next = Nowhere /\ p.told = <<>>
      BY <3>1 DEF NoRecord
    <3>3. Turn(c, x) = [next |-> Nowhere, told |-> A[n - 1]]
      BY <1>8, <2>5, <3>2
    <3>4. m = n - 1
      BY <1>2, <1>3, <1>5, <1>13, <2>2, <2>7 DEF Nowhere
    <3> QED
      BY <1>10, <2>2, <2>7, <3>3, <3>4 DEF x, y, m
  <2> QED
    BY <2>6, <2>7
<1> QED
  BY <1>12, <1>13

\* What the cache is told of a copied prefix.
LEMMA WalkReads ==
  ASSUME NEW r \in Response, NEW c, Cut(r, c)
  PROVE  ForEachAnswer(r, c) =
           IF r.rcode # 0 \/ LastRead(r, Len(c)) = Nowhere THEN <<>> ELSE Addresses(r)[LastRead(r, Len(c))]
<1> DEFINE l == Limit(r)
           m == LastRead(r, Len(c))
           step(s, a) == [next |-> a.next, told |-> s.told \o a.told]
           first == [next |-> SkipQuestions(c, Len(r.questions)), told |-> <<>>]
           Unfold(f, n) == IF n = 0 THEN first
                          ELSE IF f[n - 1].next = Nowhere THEN f[n - 1]
                          ELSE step(f[n - 1], ParseAnswerAt(c, f[n - 1].next))
           Rec(f) == f = [n \in 0..l |-> Unfold(f, n)]
           g == CHOOSE f : Rec(f)
           h == [n \in 0..l |-> Came(r, n, m)]
<1>1. l \in Nat
  BY LimitIs
<1>2. ForEachAnswer(r, c) = IF HeaderUsable(r) THEN g[l].told ELSE <<>>
  BY DEF ForEachAnswer, Limit
<1>3. \A f, n : n # 0 => Unfold(f, n) = Turn(c, f[n - 1])
  BY DEF Turn
<1>4. Came(r, 0, m) = first
  BY CameStarts
<1>5. ASSUME NEW n \in 1..l PROVE Came(r, n, m) = Turn(c, Came(r, n - 1, m))
  BY CameSteps
<1> HIDE DEF m, l, first
<1>6. \A n \in 0..l : h[n] = Unfold(h, n)
  <2> SUFFICES ASSUME NEW n \in 0..l PROVE h[n] = Unfold(h, n)
    OBVIOUS
  <2>1. CASE n = 0
    BY <1>4, <2>1
  <2>2. CASE n # 0
    <3>1. n \in 1..l /\ n - 1 \in 0..l
      BY <1>1, <2>2
    <3>2. h[n] = Came(r, n, m) /\ h[n - 1] = Came(r, n - 1, m)
      BY <3>1
    <3> HIDE DEF h, Unfold
    <3>3. Unfold(h, n) = Turn(c, h[n - 1])
      BY <1>3, <2>2
    <3> QED
      BY <1>5, <3>1, <3>2, <3>3
  <2> QED
    BY <2>1, <2>2
<1> HIDE DEF Unfold
<1>7. Rec(h)
  <2>1. h = [n \in 0..l |-> h[n]]
    OBVIOUS
  <2> HIDE DEF h
  <2> QED
    BY <1>6, <2>1
<1>8. Rec(g)
  <2> HIDE DEF Rec, h
  <2> QED
    BY <1>7
<1>9. \A n \in 0..l : g[n] = Unfold(g, n)
  <2> HIDE DEF g
  <2> QED
    BY <1>8
<1> HIDE DEF g
<1>10. \A n \in 0..l : g[n] = Came(r, n, m)
  <2> DEFINE T == {n \in 0..l : g[n] = Came(r, n, m)}
  <2>1. 0 \in T
    <3>1. 0 \in 0..l
      BY <1>1
    <3>2. g[0] = Unfold(g, 0)
      BY <1>9, <3>1
    <3> QED
      BY <1>4, <3>1, <3>2 DEF Unfold
  <2>2. ASSUME NEW n \in 1..l, n - 1 \in T PROVE n \in T
    <3>1. n \in 0..l /\ n # 0
      BY <1>1
    <3>2. g[n] = Turn(c, g[n - 1])
      BY <1>3, <1>9, <3>1
    <3>3. g[n - 1] = Came(r, n - 1, m)
      BY <2>2
    <3>4. g[n] = Came(r, n, m)
      BY <1>5, <3>2, <3>3
    <3> QED
      BY <3>1, <3>4
  <2>3. \A n \in 0..l : n \in T
    <3> HIDE DEF T
    <3> QED
      BY <1>1, <2>1, <2>2, Upward
  <2> QED
    BY <2>3
<1>11. g[l].told = IF m = Nowhere THEN <<>> ELSE Addresses(r)[m]
  <2>1. g[l] = Came(r, l, m)
    BY <1>1, <1>10
  <2>2. m \in Nat \cup {Nowhere} /\ m <= l
    <3>1. Len(c) \in Nat
      BY DEF Cut
    <3> QED
      BY <3>1, ReachedIs DEF m, l
  <2>3. CASE l <= m
    <3>1. m = l /\ m # Nowhere
      BY <1>1, <2>2, <2>3 DEF Nowhere
    <3>2. g[l].told = Addresses(r)[l]
      BY <2>1, <2>3 DEF Came
    <3> QED
      BY <3>1, <3>2
  <2>4. CASE ~(l <= m)
    BY <2>1, <2>4 DEF Came
  <2> QED
    BY <2>3, <2>4
<1>12. CASE HeaderUsable(r)
  BY <1>2, <1>11, <1>12 DEF HeaderUsable, m
<1>13. CASE ~HeaderUsable(r) /\ r.rcode # 0
  BY <1>2, <1>13
<1>14. CASE ~HeaderUsable(r) /\ r.rcode = 0
  <2>1. r.answers = <<>>
    BY <1>14 DEF HeaderUsable
  <2>2. l = 0
    <3>1. l <= Len(r.answers)
      BY LimitIs DEF l
    <3>2. Len(r.answers) = 0
      BY <2>1
    <3> QED
      BY <1>1, <3>1, <3>2
  <2>3. m = Nowhere \/ m = 0
    <3>1. Len(c) \in Nat
      BY DEF Cut
    <3>2. m \in Nat \cup {Nowhere} /\ m <= l
      BY <3>1, ReachedIs DEF m, l
    <3> QED
      BY <2>2, <3>2
  <2>4. Addresses(r)[0] = <<>>
    BY AddressesList DEF Lists
  <2> QED
    BY <1>2, <1>14, <2>3, <2>4 DEF m
<1> QED
  BY <1>12, <1>13, <1>14

-----------------------------------------------------------------------------
(* The ring and what the cache is told *)

\* The ring holds prefixes of responses, and what was told is what the walk over
\* the last one taken found.
Copied == {h \in [response : Responses, prefix : Nat] : h.prefix <= Len(Body(h.response))}
CopyOf(h) == SubSeq(Body(h.response), 1, h.prefix)

FeedInv ==
  /\ ring \in Seq(Copied)
  /\ told.record # NoName =>
       told.record \in Copied /\ told.answers = ForEachAnswer(told.record.response, CopyOf(told.record))

\* What was copied of a response is a beginning of its body.
LEMMA CopyCut ==
  ASSUME NEW h \in Copied
  PROVE  h.response \in Response /\ h.prefix \in Nat /\ Cut(h.response, CopyOf(h)) /\ Len(CopyOf(h)) = h.prefix
<1> DEFINE r == h.response
           b == Body(r)
           n == h.prefix
           c == SubSeq(b, 1, n)
<1>1. r \in Response /\ n \in Nat /\ n <= Len(b)
  BY ParserAssumption DEF Copied
<1>2. b \in Seq(Nat)
  BY <1>1, BodyStarts DEF BodyLaws
<1> HIDE DEF b, n, r
<1>3. SubSeq(b, 0 + 1, 0 + n) \in Seq(Nat) /\ Len(SubSeq(b, 0 + 1, 0 + n)) = n
      /\ \A k \in 1..n : SubSeq(b, 0 + 1, 0 + n)[k] = b[0 + k]
  BY <1>1, <1>2, Stretch
<1>4. 0 + 1 = 1 /\ 0 + n = n /\ \A k \in 1..n : 0 + k = k
  BY <1>1
<1>5. c \in Seq(Nat) /\ Len(c) = n /\ \A k \in 1..n : b[k] = c[k]
  BY <1>3, <1>4
<1>6. Begins(b, c)
  <2> HIDE DEF c
  <2> QED
    BY <1>1, <1>5 DEF Begins
<1>7. c = CopyOf(h)
  BY DEF CopyOf, b, n, r
<1> QED
  BY <1>1, <1>5, <1>6, <1>7 DEF Cut, b, n, r

\* Every step of the feed keeps it so.
LEMMA FeedSteps == FeedInv /\ [DnsNext]_dnsVars => FeedInv'
<1> SUFFICES ASSUME FeedInv, [DnsNext]_dnsVars PROVE FeedInv'
  OBVIOUS
<1>1. CASE ring' = ring /\ told' = told
  BY <1>1 DEF FeedInv
<1>2. ASSUME NEW r \in Responses, NEW n \in 0..Len(Body(r)), PublishPayload(r, n) PROVE FeedInv'
  <2> DEFINE h == [response |-> r, prefix |-> n]
             l == Len(Body(r))
  <2>1. h \in Copied
    <3>1. l \in Nat
      <4>1. r \in Response
        BY ParserAssumption
      <4>2. Body(r) \in Seq(Nat)
        BY <4>1, BodyStarts DEF BodyLaws
      <4> QED
        BY <4>2
    <3>2. n \in Nat /\ n <= l
      BY <3>1
    <3> QED
      BY <3>2 DEF Copied
  <2>2. told' = told /\ (ring' = ring \/ ring' = Append(ring, h))
    BY <1>2 DEF PublishPayload
  <2> HIDE DEF h
  <2>3. Append(ring, h) \in Seq(Copied)
    BY <2>1 DEF FeedInv
  <2> QED
    BY <2>2, <2>3 DEF FeedInv
<1>3. ASSUME Consume PROVE FeedInv'
  <2> DEFINE h == Head(ring)
  <2>1. h \in Copied /\ Tail(ring) \in Seq(Copied)
    <3> DEFINE s == ring
    <3>1. s \in Seq(Copied) /\ s # <<>>
      BY <1>3 DEF FeedInv, Consume
    <3> HIDE DEF s
    <3>2. Head(s) \in Copied /\ Tail(s) \in Seq(Copied)
      BY <3>1
    <3> QED
      BY <3>2 DEF s
  <2>2. told' = [record |-> h, answers |-> ForEachAnswer(h.response, CopyOf(h))] /\ ring' = Tail(ring)
    BY <1>3 DEF Consume, CopyOf
  <2> HIDE DEF h
  <2>3. told'.record = h /\ told'.answers = ForEachAnswer(h.response, CopyOf(h))
    BY <2>2
  <2> QED
    BY <2>1, <2>2, <2>3 DEF FeedInv
<1> QED
  BY <1>1, <1>2, <1>3 DEF DnsNext, Ingress, dnsVars

\* What the cache is told of a copied response is the addresses of its own
\* records, in order, down to the last that arrived whole and within the limits
\* (dns.rs parse_header, skip_name, read_name, parse_answer_at): for every
\* message, every way its names are compressed, every place it is cut at and
\* every value of the parser's limits.
THEOREM ReadExactHolds == DnsInit /\ [][DnsNext]_dnsVars => []ReadExact
<1>1. DnsInit => FeedInv
  BY DEF DnsInit, FeedInv
<1>2. FeedInv /\ [DnsNext]_dnsVars => FeedInv'
  BY FeedSteps
<1>3. FeedInv => ReadExact
  <2> SUFFICES ASSUME FeedInv, told.record # NoName PROVE ReadExact
    BY DEF ReadExact
  <2> DEFINE h == told.record
             r == h.response
             n == h.prefix
             q == Len(r.questions)
             S == Reached(r, n)
             m == LastRead(r, n)
  <2>1. h \in Copied /\ told.answers = ForEachAnswer(r, CopyOf(h))
    BY DEF FeedInv
  <2>2. r \in Response /\ Cut(r, CopyOf(h)) /\ Len(CopyOf(h)) = n /\ n \in Nat
    BY <2>1, CopyCut
  <2>3. told.answers = IF r.rcode # 0 \/ m = Nowhere THEN <<>> ELSE Addresses(r)[m]
    <3> HIDE DEF h, n, r
    <3> QED
      BY <2>1, <2>2, WalkReads
  <2>4. m = IF q > MaxQuestions \/ S = {} THEN Nowhere ELSE Max(S)
    BY DEF LastRead
  <2>5. ~(q > MaxQuestions \/ S = {}) => m # Nowhere
    <3> SUFFICES ASSUME ~(q > MaxQuestions \/ S = {}) PROVE m # Nowhere
      OBVIOUS
    <3>1. Limit(r) \in Nat
      BY <2>2, LimitIs
    <3> DEFINE l == Limit(r)
    <3>2. S \in SUBSET (0..l) /\ S # {}
      BY DEF Reached
    <3>3. m = Max(S)
      BY <2>4
    <3> HIDE DEF S, m, l
    <3>4. m \in 0..l
      BY <3>1, <3>2, <3>3, MaxIs DEF l
    <3> QED
      BY <3>4 DEF Nowhere
  <2> HIDE DEF m
  <2>6. told.answers = IF r.rcode # 0 \/ q > MaxQuestions \/ S = {} THEN <<>> ELSE Addresses(r)[Max(S)]
    <3> HIDE DEF S, q, r
    <3> QED
      BY <2>3, <2>4, <2>5
  <2> QED
    BY <2>6 DEF ReadExact, Reached, Limit
<1> HIDE DEF FeedInv, ReadExact, DnsInit, DnsNext
<1> QED
  BY <1>1, <1>2, <1>3, PTL

\* The cache is told what the resolver said: both halves, the copy in the kernel
\* (cfc-ebpf try_dns) and the parser in the daemon (cfc-ebpf-proto dns.rs).
THEOREM AnswersAsSentHolds == DnsInit /\ [][DnsNext]_dnsVars => []AnswersAsSent
<1>1. CaptureExact /\ ReadExact => AnswersAsSent
  BY DEF AnswersAsSent
<1> HIDE DEF CaptureExact, ReadExact, AnswersAsSent, DnsInit, DnsNext
<1> QED
  BY <1>1, CaptureExactHolds, ReadExactHolds, PTL
=============================================================================
