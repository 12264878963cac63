--------------------------- MODULE RuleStoreProofs ---------------------------
(***************************************************************************)
(* Proofs about RuleStore, for every set of rules and calls: the engine    *)
(* and the rows agree, no hit is counted twice, and no write turns a timed *)
(* rule into a permanent one, however writes, flushes, packets, shutdown,  *)
(* failures and crashes interleave.                                        *)
(***************************************************************************)
EXTENDS RuleStore, TLAPS

USE DEF daemon, bounds

-----------------------------------------------------------------------------
(* Rules and maps of rules *)

LEMMA RuleFields ==
  ASSUME NEW r \in Rule
  PROVE  r.exe \in Exes \cup {BadExe} /\ r.made \in Nat /\ r.secs \in Int /\ r.hits \in Nat
<1>1. Lifetimes \cup {Always} \subseteq Int
  BY RuleStoreAssumption DEF Always, UntilRestart
<1> QED
  BY <1>1 DEF Rule

LEMMA MapIs ==
  ASSUME NEW f, IsRules(f)
  PROVE  /\ DOMAIN f \subseteq Ids /\ f \in [DOMAIN f -> Rule]
         /\ \A x \in DOMAIN f : f[x] \in Rule
BY DEF IsRules

LEMMA MapOf ==
  ASSUME NEW S \in SUBSET Ids, NEW f \in [S -> Rule]
  PROVE  IsRules(f)
BY DEF IsRules

LEMMA EmptyIsMap == IsRules(Empty) /\ DOMAIN Empty = {}
<1>1. Empty \in [{} -> Rule]
  BY DEF Empty
<1> QED
  BY <1>1, MapOf

\* Taking rules away leaves a map of rules.
LEMMA RestrictIs ==
  ASSUME NEW f, IsRules(f), NEW S, S \subseteq DOMAIN f
  PROVE  /\ IsRules(Restrict(f, S)) /\ DOMAIN Restrict(f, S) = S
         /\ \A x \in S : Restrict(f, S)[x] = f[x]
<1>1. S \in SUBSET Ids /\ Restrict(f, S) \in [S -> Rule]
  BY MapIs DEF Restrict
<1> QED
  BY <1>1, MapOf DEF Restrict

LEMMA OverlayIs ==
  ASSUME NEW f, IsRules(f), NEW g, IsRules(g)
  PROVE  /\ IsRules(Overlay(f, g)) /\ DOMAIN Overlay(f, g) = DOMAIN f \cup DOMAIN g
         /\ \A x \in DOMAIN g : Overlay(f, g)[x] = g[x]
         /\ \A x \in DOMAIN f \ DOMAIN g : Overlay(f, g)[x] = f[x]
<1>1. DOMAIN f \cup DOMAIN g \in SUBSET Ids
  BY MapIs
<1>2. Overlay(f, g) \in [DOMAIN f \cup DOMAIN g -> Rule]
  BY MapIs DEF Overlay
<1> QED
  BY <1>1, <1>2, MapOf DEF Overlay

\* Adding hits leaves everything else as it was.
LEMMA FoldedIs ==
  ASSUME NEW f, IsRules(f), NEW d \in Counts
  PROVE  /\ IsRules(Folded(f, d)) /\ DOMAIN Folded(f, d) = DOMAIN f
         /\ \A x \in DOMAIN f : /\ Content(Folded(f, d)[x]) = Content(f[x])
                                /\ Folded(f, d)[x].hits = f[x].hits + d[x]
                                /\ Folded(f, d)[x].exe = f[x].exe
                                /\ Folded(f, d)[x].made = f[x].made
                                /\ Folded(f, d)[x].secs = f[x].secs
<1>1. ASSUME NEW x \in DOMAIN f
      PROVE  /\ [f[x] EXCEPT !.hits = @ + d[x]] \in Rule
             /\ Content([f[x] EXCEPT !.hits = @ + d[x]]) = Content(f[x])
             /\ [f[x] EXCEPT !.hits = @ + d[x]].hits = f[x].hits + d[x]
             /\ [f[x] EXCEPT !.hits = @ + d[x]].exe = f[x].exe
             /\ [f[x] EXCEPT !.hits = @ + d[x]].made = f[x].made
             /\ [f[x] EXCEPT !.hits = @ + d[x]].secs = f[x].secs
  <2>1. f[x] \in Rule /\ d[x] \in Nat
    BY MapIs DEF Counts
  <2> QED
    BY <2>1 DEF Rule, Content
<1>2. Folded(f, d) \in [DOMAIN f -> Rule]
  BY <1>1 DEF Folded
<1>3. IsRules(Folded(f, d))
  BY <1>2, MapIs, MapOf
<1> QED
  BY <1>1, <1>3 DEF Folded

LEMMA PreservedIs ==
  ASSUME IsRules(engine), NEW id, NEW r \in Rule
  PROVE  LET kept == PreserveServerOwned(id, r) IN
         /\ kept \in Rule /\ kept.exe = r.exe /\ kept.secs = r.secs
         /\ id \in DOMAIN engine => kept.hits = engine[id].hits /\ kept.made = engine[id].made
         /\ id \notin DOMAIN engine => kept = r
<1>1. CASE id \in DOMAIN engine
  <2>1. engine[id].hits \in Nat /\ engine[id].made \in Nat
    BY <1>1, MapIs, RuleFields
  <2> QED
    BY <1>1, <2>1 DEF PreserveServerOwned, Rule
<1>2. CASE id \notin DOMAIN engine
  BY <1>2 DEF PreserveServerOwned
<1> QED
  BY <1>1, <1>2

LEMMA SameContent ==
  ASSUME NEW r, NEW s, Content(r) = Content(s)
  PROVE  /\ r.exe = s.exe /\ r.made = s.made /\ r.secs = s.secs
         /\ Loadable(r) <=> Loadable(s)
         /\ \A now : IsExpired(r, now) <=> IsExpired(s, now)
BY DEF Content, Loadable, IsExpired

\* What is expired stays so.
LEMMA ExpiredLater ==
  ASSUME NEW r \in Rule, NEW now \in Nat, NEW later \in Nat, later >= now, IsExpired(r, now)
  PROVE  IsExpired(r, later)
BY RuleFields DEF IsExpired

\* Agreement is about what rules say, and outlives the passing of time.
LEMMA AgreeSame ==
  ASSUME NEW a, NEW b, IsRules(b), NEW a2, NEW b2, NEW now \in Nat, NEW later \in Nat, later >= now,
         Agree(a, b, now), DOMAIN a2 = DOMAIN a, DOMAIN b2 = DOMAIN b,
         \A id \in DOMAIN a : Content(a2[id]) = Content(a[id]),
         \A id \in DOMAIN b : Content(b2[id]) = Content(b[id])
  PROVE  Agree(a2, b2, later)
<1>1. ASSUME NEW id \in DOMAIN a
      PROVE  id \in DOMAIN b2 /\ Content(a2[id]) = Content(b2[id]) /\ Loadable(a2[id])
  <2>1. id \in DOMAIN b /\ Content(a[id]) = Content(b[id]) /\ Loadable(a[id])
    BY DEF Agree
  <2> QED
    BY <2>1, SameContent
<1>2. ASSUME NEW id \in DOMAIN b2 \ DOMAIN a
      PROVE  IsExpired(b2[id], later) \/ ~Loadable(b2[id])
  <2>1. IsExpired(b[id], now) \/ ~Loadable(b[id])
    BY DEF Agree
  <2>2. b[id] \in Rule
    BY MapIs
  <2>3. IsExpired(b[id], later) \/ ~Loadable(b[id])
    BY <2>1, <2>2, ExpiredLater
  <2> QED
    BY <2>3, SameContent
<1> QED
  BY <1>1, <1>2 DEF Agree

-----------------------------------------------------------------------------
(* Types *)

\* Records of three fields.
LEMMA RecordOf ==
  ASSUME NEW r, r = [step |-> r.step, kind |-> r.kind, rules |-> r.rules], NEW S, NEW K, NEW R,
         r.step \in S, r.kind \in K, r.rules \in R
  PROVE  r \in [step : S, kind : K, rules : R]
OBVIOUS

LEMMA RecordStep ==
  ASSUME NEW r, r = [step |-> r.step, kind |-> r.kind, rules |-> r.rules], NEW step
  PROVE  [r EXCEPT !.step = step] = [step |-> step, kind |-> r.kind, rules |-> r.rules]
OBVIOUS

\* A call's fields, kept or set.
LEMMA CallIs ==
  ASSUME TypeOK, NEW c \in Calls
  PROVE  /\ call[c].step \in CallSteps /\ call[c].kind \in AllKinds \cup {"none"}
         /\ IsRules(call[c].rules) /\ DOMAIN call = Calls
         /\ call[c] = [step |-> call[c].step, kind |-> call[c].kind, rules |-> call[c].rules]
BY DEF TypeOK

CallTypes ==
  /\ call \in [Calls -> [step : CallSteps, kind : AllKinds \cup {"none"},
                         rules : {call[c].rules : c \in Calls}]]
  /\ \A c \in Calls : IsRules(call[c].rules)
OtherTypes ==
  /\ IsRules(engine) /\ IsRules(store)
  /\ hits \in Counts /\ truth \in Counts
  /\ flush \in [step : FlushSteps, deltas : Counts, now : 0..clock]
  /\ stopping \in [step : {"run", "merge", "exit", "down"}, deltas : Counts]
  /\ packet \in Ids \cup {NoId} /\ clock \in 0..MaxTime
LockTypes ==
  /\ lock \in {Free, "flush"} \cup Calls
  /\ \A c \in Calls : lock = c <=> call[c].step \in {"check", "store", "publish"}
  /\ lock = "flush" <=> flush.step # "idle"

LEMMA TypeParts == TypeOK <=> CallTypes /\ OtherTypes /\ LockTypes
BY DEF TypeOK, CallTypes, OtherTypes, LockTypes

\* One call moves on, with rules of the right type.
LEMMA CallMoves ==
  ASSUME TypeOK, NEW c \in Calls, NEW step \in CallSteps, NEW kind \in AllKinds \cup {"none"},
         NEW rules, IsRules(rules),
         call' = [call EXCEPT ![c] = [step |-> step, kind |-> kind, rules |-> rules]]
  PROVE  CallTypes'
<1>1. DOMAIN call = Calls /\ DOMAIN call' = Calls
  BY DEF TypeOK
<1>2. call'[c] = [step |-> step, kind |-> kind, rules |-> rules]
      /\ \A d \in Calls : d # c => call'[d] = call[d]
  BY <1>1
<1>3. ASSUME NEW d \in Calls
      PROVE  /\ call'[d] = [step |-> call'[d].step, kind |-> call'[d].kind, rules |-> call'[d].rules]
             /\ call'[d].step \in CallSteps /\ call'[d].kind \in AllKinds \cup {"none"}
             /\ IsRules(call'[d].rules)
  BY <1>2, CallIs
<1>4. call' = [d \in Calls |-> call'[d]]
  BY DEF TypeOK
<1> DEFINE all == {call'[d].rules : d \in Calls}
<1>5. call' \in [Calls -> [step : CallSteps, kind : AllKinds \cup {"none"}, rules : all]]
  <2>1. \A d \in Calls : call'[d].rules \in all
    OBVIOUS
  <2> HIDE DEF all
  <2>2. \A d \in Calls : call'[d] \in [step : CallSteps, kind : AllKinds \cup {"none"}, rules : all]
    BY <2>1, <1>3, RecordOf
  <2> QED
    BY <2>2, <1>4
<1> QED
  BY <1>3, <1>5 DEF CallTypes, IsRules

\* The same when only its step changes.
LEMMA CallSteps1 ==
  ASSUME TypeOK, NEW c \in Calls, NEW step \in CallSteps, call' = [call EXCEPT ![c].step = step]
  PROVE  /\ CallTypes'
         /\ \A d \in Calls : /\ call'[d].kind = call[d].kind /\ call'[d].rules = call[d].rules
                             /\ call'[d].step = IF d = c THEN step ELSE call[d].step
<1>1. [call[c] EXCEPT !.step = step] = [step |-> step, kind |-> call[c].kind, rules |-> call[c].rules]
  <2>1. call[c] = [step |-> call[c].step, kind |-> call[c].kind, rules |-> call[c].rules]
    BY CallIs
  <2> HIDE DEF CallSteps
  <2> QED
    BY <2>1, RecordStep
<1>2. call' = [call EXCEPT ![c] = [step |-> step, kind |-> call[c].kind, rules |-> call[c].rules]]
  BY <1>1
<1>3. \A d \in Calls : /\ call'[d].kind = call[d].kind /\ call'[d].rules = call[d].rules
                       /\ call'[d].step = IF d = c THEN step ELSE call[d].step
  <2>1. \A d \in Calls : call'[d] = IF d = c
                THEN [step |-> step, kind |-> call[c].kind, rules |-> call[c].rules] ELSE call[d]
    BY <1>2 DEF TypeOK
  <2>2. ASSUME NEW d \in Calls, d = c
        PROVE  call'[d].kind = call[d].kind /\ call'[d].rules = call[d].rules /\ call'[d].step = step
    BY <2>1, <2>2
  <2>3. ASSUME NEW d \in Calls, d # c
        PROVE  call'[d] = call[d]
    BY <2>1, <2>3
  <2> QED
    BY <2>2, <2>3
<1>4. PICK kind, rules : kind = call[c].kind /\ rules = call[c].rules
  OBVIOUS
<1>5. call' = [call EXCEPT ![c] = [step |-> step, kind |-> kind, rules |-> rules]]
  BY <1>2, <1>4
<1>6. kind \in AllKinds \cup {"none"} /\ IsRules(rules)
  BY <1>4, CallIs
<1>7. CallTypes'
  BY <1>5, <1>6, CallMoves, ZenonT(60)
<1> QED
  BY <1>3, <1>7

\* Who holds the lock, as one call moves on.
LEMMA LockMoves ==
  ASSUME TypeOK, NEW c \in Calls, flush' = flush, NEW step \in CallSteps,
         \A d \in Calls : call'[d].step = IF d = c THEN step ELSE call[d].step,
         \/ /\ lock' = lock
            /\ call[c].step \in {"check", "store", "publish"} <=> step \in {"check", "store", "publish"}
         \/ lock' = c /\ lock = Free /\ step \in {"check", "store", "publish"}
         \/ lock' = Free /\ lock = c /\ step \notin {"check", "store", "publish"}
  PROVE  LockTypes'
<1>1. c # Free /\ c # "flush"
  BY RuleStoreAssumption
<1>2. Free # "flush"
  BY DEF Free
<1> QED
  BY <1>1, <1>2, RuleStoreAssumption DEF TypeOK, LockTypes

LEMMA SentIs ==
  ASSUME TypeOK, NEW kind, NEW f \in Sent(kind)
  PROVE  IsRules(f) /\ \A id \in DOMAIN f : Loadable(f[id])
<1>1. PICK S \in SUBSET Ids : f \in [S -> [exe : Exes, made : 0..clock, secs : Lifetimes, hits : EchoedHits]]
  BY DEF Sent
<1>2. 0..clock \subseteq Nat /\ EchoedHits \subseteq Nat /\ BadExe \notin Exes
  BY RuleStoreAssumption DEF TypeOK
<1>3. \A id \in S : f[id] \in Rule /\ f[id].exe # BadExe
  <2> SUFFICES ASSUME NEW id \in S PROVE f[id] \in Rule /\ f[id].exe # BadExe
    OBVIOUS
  <2>1. f[id] \in [exe : Exes, made : 0..clock, secs : Lifetimes, hits : EchoedHits]
    BY <1>1
  <2> QED
    BY <1>2, <2>1 DEF Rule
<1> QED
  BY <1>1, <1>3 DEF IsRules, Loadable

LEMMA TypesOf ==
  ASSUME CallTypes', OtherTypes', LockTypes'
  PROVE  TypeOK'
BY DEF TypeOK, CallTypes, OtherTypes, LockTypes

LEMMA SameCalls ==
  ASSUME TypeOK, call' = call
  PROVE  CallTypes'
BY DEF TypeOK, CallTypes, IsRules

LEMMA SameOthers ==
  ASSUME TypeOK, UNCHANGED <<engine, hits, flush, stopping, packet, store, truth, clock>>
  PROVE  OtherTypes'
BY DEF TypeOK, OtherTypes, IsRules

LEMMA SameLock ==
  ASSUME TypeOK, UNCHANGED <<lock, call>>, flush'.step = flush.step
  PROVE  LockTypes'
BY DEF TypeOK, LockTypes

LEMMA StartsTyped == Init => TypeOK
<1> SUFFICES ASSUME Init PROVE TypeOK
  OBVIOUS
<1>1. Empty \in [{} -> Rule] /\ IsRules(Empty)
  BY EmptyIsMap DEF Empty
<1>2. IsRules(Legacy)
  <2>1. (CHOOSE y \in Ids : TRUE) \in Ids
    BY RuleStoreAssumption
  <2>2. [exe |-> BadExe, made |-> 0, secs |-> 0, hits |-> 0] \in Rule
    BY DEF Rule, Always
  <2> QED
    BY <2>1, <2>2 DEF Legacy, IsRules
<1>3. Zero \in Counts
  BY DEF Zero, Counts
<1>4. NoCall \in [step : CallSteps, kind : AllKinds \cup {"none"}, rules : {Empty}]
  BY DEF NoCall, CallSteps
<1>5. CallTypes
  <2>1. \A c \in Calls : call[c] = NoCall /\ call[c].rules = Empty
    BY DEF Init, NoCall
  <2>2. CASE Calls = {}
    BY <2>2 DEF CallTypes, Init
  <2>3. CASE Calls # {}
    <3>1. {call[c].rules : c \in Calls} = {Empty}
      BY <2>1, <2>3
    <3> QED
      BY <3>1, <2>1, <1>1, <1>4 DEF CallTypes, Init
  <2> QED
    BY <2>2, <2>3
<1>6. OtherTypes
  BY <1>1, <1>2, <1>3, RuleStoreAssumption DEF Init, OtherTypes, NoFlush, Running, FlushSteps
<1>7. LockTypes
  BY RuleStoreAssumption DEF Init, LockTypes, NoCall, NoFlush, Free
<1> QED
  BY <1>5, <1>6, <1>7, TypeParts

LEMMA BeginTyped ==
  ASSUME TypeOK, NEW c \in Calls, BeginWrite(c) \/ BeginDelete(c)
  PROVE  TypeOK'
<1>1. PICK step, kind, rules :
        /\ call' = [call EXCEPT ![c] = [step |-> step, kind |-> kind, rules |-> rules]]
        /\ step \in {"lock", "resolve"} /\ kind \in AllKinds /\ IsRules(rules)
  <2>1. CASE BeginWrite(c)
    <3>1. PICK kind \in Kinds \ {"delete"} : \E f \in Sent(kind) :
            \E step \in {"lock", "resolve"} :
              call' = [call EXCEPT ![c] = [step |-> step, kind |-> kind, rules |-> f]]
      BY <2>1 DEF BeginWrite
    <3> QED
      BY <3>1, SentIs, RuleStoreAssumption
  <2>2. CASE BeginDelete(c)
    <3>1. PICK id \in Ids :
            call' = [call EXCEPT ![c] = [step |-> "lock", kind |-> "delete",
                                         rules |-> [x \in {id} |-> Named]]]
      BY <2>2 DEF BeginDelete
    <3>2. Named \in Rule
      BY DEF Named, Rule
    <3>3. IsRules([x \in {id} |-> Named])
      BY <3>2 DEF IsRules
    <3> QED
      BY <3>1, <3>3 DEF AllKinds
  <2> QED
    BY <2>1, <2>2
<1>2. CallTypes'
  BY <1>1, CallMoves DEF CallSteps
<1>3. OtherTypes'
  BY SameOthers DEF BeginWrite, BeginDelete
<1>4. LockTypes'
  <2>1. \A d \in Calls : call'[d].step = IF d = c THEN step ELSE call[d].step
    BY <1>1, CallIs
  <2>2. call[c].step = "idle" /\ flush' = flush /\ lock' = lock
    BY DEF BeginWrite, BeginDelete
  <2>3. step \in CallSteps /\ step \notin {"check", "store", "publish"}
    BY <1>1 DEF CallSteps
  <2> QED
    BY <2>1, <2>2, <2>3, LockMoves
<1> QED
  BY <1>2, <1>3, <1>4, TypesOf

LEMMA ResolveTyped ==
  ASSUME TypeOK, NEW c \in Calls, ResolveExe(c)
  PROVE  TypeOK'
<1>1. PICK step \in {"lock", "refused"} : call' = [call EXCEPT ![c].step = step]
  BY DEF ResolveExe
<1>2. step \in CallSteps /\ step \notin {"check", "store", "publish"}
      /\ call[c].step \notin {"check", "store", "publish"} /\ lock' = lock /\ flush' = flush
  BY <1>1 DEF CallSteps, ResolveExe
<1>3. CallTypes' /\ LockTypes'
  BY <1>1, <1>2, CallSteps1, LockMoves
<1>4. OtherTypes'
  BY SameOthers DEF ResolveExe
<1> QED
  BY <1>3, <1>4, TypesOf

LEMMA LockTyped ==
  ASSUME TypeOK, NEW c \in Calls, LockMutations(c)
  PROVE  TypeOK'
<1>1. PICK step \in {"store", "check"} : call' = [call EXCEPT ![c].step = step]
  BY DEF LockMutations
<1>2. step \in CallSteps /\ step \in {"check", "store", "publish"}
      /\ lock' = c /\ lock = Free /\ flush' = flush
  BY <1>1 DEF CallSteps, LockMutations
<1>3. CallTypes' /\ LockTypes'
  BY <1>1, <1>2, CallSteps1, LockMoves
<1>4. OtherTypes'
  BY SameOthers DEF LockMutations
<1> QED
  BY <1>3, <1>4, TypesOf

LEMMA CheckedIs ==
  ASSUME TypeOK, NEW c \in Calls
  PROVE  IsRules(Checked(c)) /\ DOMAIN Checked(c) = DOMAIN call[c].rules
<1>1. IsRules(call[c].rules) /\ IsRules(engine)
  BY DEF TypeOK
<1>2. \A id \in DOMAIN call[c].rules : PreserveServerOwned(id, call[c].rules[id]) \in Rule
  BY <1>1, MapIs, PreservedIs
<1> QED
  BY <1>1, <1>2, MapIs DEF Checked, IsRules

LEMMA CheckTyped ==
  ASSUME TypeOK, NEW c \in Calls, CheckUnderLock(c)
  PROVE  TypeOK'
<1>1. call[c].step = "check" /\ flush' = flush
  BY DEF CheckUnderLock
<1>2. lock = c
  BY <1>1 DEF TypeOK
<1>3. CASE TimedToAlways(call[c].rules)
  <2>1. call' = [call EXCEPT ![c].step = "refused"] /\ lock' = Free
    BY <1>3 DEF CheckUnderLock
  <2>2. "refused" \in CallSteps /\ "refused" \notin {"check", "store", "publish"}
    BY DEF CallSteps
  <2>3. CallTypes' /\ LockTypes'
    BY <2>1, <2>2, <1>1, <1>2, CallSteps1, LockMoves
  <2>4. OtherTypes'
    BY SameOthers DEF CheckUnderLock
  <2> QED
    BY <2>3, <2>4, TypesOf
<1>4. CASE ~TimedToAlways(call[c].rules)
  <2>1. PICK step, kind, rules :
          step = "store" /\ kind = call[c].kind /\ rules = Checked(c)
    OBVIOUS
  <2>2. call' = [call EXCEPT ![c] = [step |-> step, kind |-> kind, rules |-> rules]] /\ lock' = lock
    BY <1>4, <2>1 DEF CheckUnderLock
  <2>3. step \in CallSteps /\ kind \in AllKinds \cup {"none"} /\ IsRules(rules)
    BY <2>1, CallIs, CheckedIs DEF CallSteps
  <2>4. CallTypes'
    BY <2>2, <2>3, CallMoves
  <2>5. \A d \in Calls : call'[d].step = IF d = c THEN step ELSE call[d].step
    BY <2>2, CallIs
  <2>6. LockTypes'
    BY <2>1, <2>2, <2>3, <2>5, <1>1, LockMoves
  <2>7. OtherTypes'
    BY SameOthers DEF CheckUnderLock
  <2> QED
    BY <2>4, <2>6, <2>7, TypesOf
<1> QED
  BY <1>3, <1>4

LEMMA PublishedIs ==
  ASSUME TypeOK, NEW c \in Calls
  PROVE  /\ IsRules(Published(c))
         /\ call[c].kind = "replace" => DOMAIN Published(c) = DOMAIN call[c].rules
         /\ call[c].kind # "replace" => DOMAIN Published(c) = DOMAIN engine \cup DOMAIN call[c].rules
         /\ \A id \in DOMAIN call[c].rules :
              IF call[c].kind = "upsert" THEN Published(c)[id] = call[c].rules[id]
              ELSE Published(c)[id] = PreserveServerOwned(id, call[c].rules[id])
         /\ \A id \in DOMAIN Published(c) \ DOMAIN call[c].rules :
              IF call[c].kind = "upsert" THEN Published(c)[id] = engine[id]
              ELSE Published(c)[id] = PreserveServerOwned(id, engine[id])
<1>0. PICK base : base = IF call[c].kind = "replace" THEN Empty ELSE engine
  OBVIOUS
<1> DEFINE all == Overlay(base, call[c].rules)
<1>1. IsRules(call[c].rules) /\ IsRules(engine) /\ IsRules(base)
  <2>1. base = Empty \/ base = engine
    BY <1>0
  <2> QED
    BY <2>1, EmptyIsMap DEF TypeOK, IsRules
<1>2. /\ IsRules(all) /\ DOMAIN all = DOMAIN base \cup DOMAIN call[c].rules
      /\ \A x \in DOMAIN call[c].rules : all[x] = call[c].rules[x]
      /\ \A x \in DOMAIN base \ DOMAIN call[c].rules : all[x] = base[x]
  <2>1. PICK rules : rules = call[c].rules
    OBVIOUS
  <2> QED
    BY <1>1, <2>1, OverlayIs
<1>3. /\ call[c].kind = "replace" => DOMAIN all = DOMAIN call[c].rules
      /\ call[c].kind # "replace" => DOMAIN all = DOMAIN engine \cup DOMAIN call[c].rules
  BY <1>0, <1>2, EmptyIsMap
<1>4. \A x \in DOMAIN all \ DOMAIN call[c].rules : all[x] = engine[x]
  BY <1>0, <1>2, EmptyIsMap
<1>5. Published(c) = IF call[c].kind = "upsert" THEN all
                     ELSE [id \in DOMAIN all |-> PreserveServerOwned(id, all[id])]
  BY <1>0 DEF Published
<1> HIDE DEF all
<1>6. \A id \in DOMAIN all : PreserveServerOwned(id, all[id]) \in Rule
  BY <1>1, <1>2, MapIs, PreservedIs
<1>7. IsRules(Published(c)) /\ DOMAIN Published(c) = DOMAIN all
  BY <1>2, <1>5, <1>6 DEF IsRules
<1> QED
  BY <1>2, <1>3, <1>4, <1>5, <1>7

LEMMA EngineAfterIs ==
  ASSUME TypeOK, NEW c \in Calls
  PROVE  IsRules(EngineAfter(c))
<1>1. IsRules(engine)
  BY DEF TypeOK
<1>2. IsRules(Restrict(engine, DOMAIN engine \ DOMAIN call[c].rules))
  BY <1>1, RestrictIs
<1> QED
  BY <1>2, PublishedIs DEF EngineAfter

LEMMA RowsIs ==
  ASSUME TypeOK, NEW c \in Calls
  PROVE  IsRules(Rows(c))
<1>1. IsRules(store) /\ IsRules(call[c].rules)
  BY DEF TypeOK
<1>2. IsRules(Restrict(store, DOMAIN store \ DOMAIN call[c].rules))
  BY <1>1, RestrictIs
<1>3. IsRules(Overlay(store, call[c].rules))
  BY <1>1, OverlayIs
<1> QED
  BY <1>1, <1>2, <1>3 DEF Rows

\* A call that ends, in its critical section, and lets the lock go.
LEMMA CallEnds ==
  ASSUME TypeOK, NEW c \in Calls, NEW step \in {"refused", "done"}, lock' = Free, flush' = flush,
         call[c].step \in {"store", "publish"}, call' = [call EXCEPT ![c].step = step]
  PROVE  CallTypes' /\ LockTypes'
<1>1. step \in CallSteps /\ step \notin {"check", "store", "publish"} /\ lock = c
  BY DEF CallSteps, TypeOK
<1> QED
  BY <1>1, CallSteps1, LockMoves

LEMMA WriteTyped ==
  ASSUME TypeOK, NEW c \in Calls, StoreWrite(c)
  PROVE  TypeOK'
<1>1. CallTypes' /\ LockTypes'
  <2>1. CASE call' = [call EXCEPT ![c].step = "done"] /\ lock' = Free
    BY <2>1, CallEnds DEF StoreWrite
  <2>2. CASE call' = [call EXCEPT ![c].step = "publish"] /\ lock' = lock
    <3>1. "publish" \in CallSteps /\ "publish" \in {"check", "store", "publish"} /\ flush' = flush
          /\ call[c].step \in {"check", "store", "publish"}
      BY DEF CallSteps, StoreWrite
    <3> QED
      BY <2>2, <3>1, CallSteps1, LockMoves
  <2> QED
    BY <2>1, <2>2 DEF StoreWrite
<1>2. OtherTypes'
  BY RowsIs DEF TypeOK, OtherTypes, StoreWrite, IsRules
<1> QED
  BY <1>1, <1>2, TypesOf

LEMMA FailsTyped ==
  ASSUME TypeOK, NEW c \in Calls, StoreWriteFails(c)
  PROVE  TypeOK'
<1>1. CallTypes' /\ LockTypes'
  BY CallEnds DEF StoreWriteFails
<1>2. OtherTypes'
  BY SameOthers DEF StoreWriteFails
<1> QED
  BY <1>1, <1>2, TypesOf

LEMMA PublishTyped ==
  ASSUME TypeOK, NEW c \in Calls, Publish(c)
  PROVE  TypeOK'
<1>1. CallTypes' /\ LockTypes'
  BY CallEnds DEF Publish
<1>2. IsRules(engine)'
  BY EngineAfterIs DEF Publish, IsRules
<1>3. hits' \in Counts
  BY DEF Publish, TypeOK, Counts
<1>4. truth' \in Counts
  <2>1. \A id \in DOMAIN engine' : id \in Ids /\ engine'[id].hits \in Nat
    BY <1>2, MapIs, RuleFields DEF IsRules
  <2> QED
    BY <1>3, <2>1 DEF Publish, TypeOK, Counts
<1>5. OtherTypes'
  BY <1>2, <1>3, <1>4 DEF TypeOK, OtherTypes, Publish, IsRules
<1> QED
  BY <1>1, <1>5, TypesOf

LEMMA PacketTyped ==
  ASSUME TypeOK, (\E id \in Ids : PacketMatches(id)) \/ CountHit
  PROVE  TypeOK'
<1>1. CallTypes' /\ LockTypes'
  BY SameCalls, SameLock DEF PacketMatches, CountHit
<1>2. CASE \E id \in Ids : PacketMatches(id)
  <2>1. OtherTypes'
    BY <1>2 DEF PacketMatches, TypeOK, OtherTypes, IsRules
  <2> QED
    BY <1>1, <2>1, TypesOf
<1>3. CASE CountHit
  <2>1. packet \in Ids
    BY <1>3 DEF CountHit, TypeOK
  <2>2. hits' \in Counts /\ truth' \in Counts
    BY <1>3, <2>1 DEF CountHit, TypeOK, Counts
  <2>3. OtherTypes'
    BY <1>3, <2>2 DEF CountHit, TypeOK, OtherTypes, IsRules
  <2> QED
    BY <1>1, <2>3, TypesOf
<1> QED
  BY <1>2, <1>3

LEMMA ZeroIs == Zero \in Counts
BY DEF Zero, Counts

\* The fields of the flush and of shutdown.
LEMMA TasksAre ==
  ASSUME TypeOK
  PROVE  /\ flush.step \in FlushSteps /\ flush.deltas \in Counts /\ flush.now \in Nat /\ flush.now <= clock
         /\ flush = [step |-> flush.step, deltas |-> flush.deltas, now |-> flush.now]
         /\ stopping.step \in {"run", "merge", "exit", "down"} /\ stopping.deltas \in Counts
         /\ engine = [x \in DOMAIN engine |-> engine[x]] /\ clock \in Nat
BY RuleStoreAssumption DEF TypeOK, IsRules

LEMMA FlushTyped ==
  ASSUME TypeOK, FlushStep
  PROVE  TypeOK'
<1> USE ZeroIs
<1>1. CallTypes'
  BY SameCalls DEF FlushStep, FlushLock, FlushDrain, FlushMerge, FlushLook, FlushExpire, FlushPurge
<1>2. LockTypes'
  <2>1. CASE FlushLock
    <3>1. call' = call /\ lock' = "flush" /\ lock = Free /\ flush'.step = "drain"
      BY <2>1 DEF FlushLock, TypeOK
    <3> QED
      BY <3>1, RuleStoreAssumption DEF TypeOK, LockTypes
  <2>2. CASE FlushDrain \/ FlushMerge \/ FlushExpire
    <3>1. call' = call /\ lock' = lock /\ flush'.step # "idle" /\ flush.step # "idle"
      BY <2>2 DEF FlushDrain, FlushMerge, FlushExpire, TypeOK
    <3> QED
      BY <3>1 DEF TypeOK, LockTypes
  <2>3. CASE FlushLook \/ FlushPurge
    <3>1. call' = call /\ lock = "flush"
          /\ \/ lock' = lock /\ flush'.step # "idle"
             \/ lock' = Free /\ flush'.step = "idle"
      <4>1. CASE FlushLook
        BY <4>1 DEF FlushLook, TypeOK, NoFlush
      <4>2. CASE FlushPurge
        <5>1. call' = call /\ flush.step = "purge" /\ flush' = NoFlush /\ lock' = Free
          BY <4>2 DEF FlushPurge, Keep
        <5> QED
          BY <5>1 DEF TypeOK, NoFlush
      <4> QED
        BY <2>3, <4>1, <4>2
    <3>2. Free # "flush"
      BY DEF Free
    <3> QED
      BY <3>1, <3>2, RuleStoreAssumption DEF TypeOK, LockTypes
  <2> QED
    BY <2>1, <2>2, <2>3 DEF FlushStep
<1>3. flush' \in [step : FlushSteps, deltas : Counts, now : 0..clock']
  <2>1. flush' = [step |-> flush'.step, deltas |-> flush'.deltas, now |-> flush'.now]
        /\ flush'.step \in FlushSteps /\ flush'.deltas \in Counts /\ flush'.now \in 0..clock
    <3>1. CASE FlushLook
      <4>1. CASE flush' = NoFlush
        BY <4>1, TasksAre DEF NoFlush, FlushSteps
      <4>2. CASE flush' = [step |-> "expire", deltas |-> flush.deltas, now |-> clock]
        BY <4>2, TasksAre DEF FlushSteps
      <4> QED
        BY <3>1, <4>1, <4>2 DEF FlushLook
    <3>2. CASE FlushDrain \/ FlushMerge
      BY <3>2, TasksAre DEF FlushDrain, FlushMerge, TypeOK, FlushSteps
    <3>3. CASE FlushPurge
      BY <3>3, TasksAre DEF FlushPurge, NoFlush, FlushSteps
    <3>4. CASE FlushLock \/ FlushExpire
      BY <3>4, TasksAre DEF FlushLock, FlushExpire, FlushSteps
    <3> QED
      BY <3>1, <3>2, <3>3, <3>4 DEF FlushStep
  <2>2. clock' = clock
    BY DEF FlushStep, FlushLock, FlushDrain, FlushMerge, FlushLook, FlushExpire, FlushPurge
  <2> QED
    BY <2>1, <2>2
<1>4. IsRules(engine)' /\ hits' \in Counts
  <2>1. CASE FlushDrain
    BY <2>1, FoldedIs DEF FlushDrain, TypeOK, IsRules
  <2>2. CASE FlushExpire
    <3>1. IsRules(engine)
      BY DEF TypeOK
    <3>2. PICK S : S \subseteq DOMAIN engine /\ engine' = Restrict(engine, S)
      BY <2>2 DEF FlushExpire, Keep
    <3>3. IsRules(Restrict(engine, S))
      BY <3>1, <3>2, RestrictIs
    <3> QED
      BY <2>2, <3>2, <3>3 DEF FlushExpire, TypeOK, IsRules
  <2>3. CASE UNCHANGED <<engine, hits>>
    BY <2>3 DEF TypeOK, IsRules
  <2> QED
    BY <2>1, <2>2, <2>3 DEF FlushStep, FlushLock, FlushMerge, FlushLook, FlushPurge
<1>5. IsRules(store)'
  <2>1. CASE FlushMerge /\ store' = Folded(store, flush.deltas)
    <3>1. IsRules(Folded(store, flush.deltas))
      BY TasksAre, FoldedIs DEF TypeOK
    <3> QED
      BY <2>1, <3>1 DEF IsRules
  <2>2. CASE FlushPurge /\ store' # store
    <3>1. IsRules(store)
      BY DEF TypeOK
    <3>2. PICK S : S \subseteq DOMAIN store /\ store' = Restrict(store, S)
      BY <2>2 DEF FlushPurge, Keep
    <3>3. IsRules(Restrict(store, S))
      BY <3>1, <3>2, RestrictIs
    <3> QED
      BY <3>2, <3>3 DEF IsRules
  <2>3. CASE store' = store
    BY <2>3 DEF TypeOK, IsRules
  <2> QED
    BY <2>1, <2>2, <2>3 DEF FlushStep, FlushLock, FlushDrain, FlushMerge, FlushLook, FlushExpire, FlushPurge
<1>6. UNCHANGED <<truth, stopping, packet, clock>>
  BY DEF FlushStep, FlushLock, FlushDrain, FlushMerge, FlushLook, FlushExpire, FlushPurge
<1>7. OtherTypes'
  BY <1>3, <1>4, <1>5, <1>6 DEF TypeOK, OtherTypes, IsRules
<1> QED
  BY <1>1, <1>2, <1>7, TypesOf

LEMMA StopTyped ==
  ASSUME TypeOK, StopDrain \/ StopMerge
  PROVE  TypeOK'
<1>1. CallTypes' /\ LockTypes'
  BY SameCalls, SameLock DEF StopDrain, StopMerge
<1>2. IsRules(Folded(engine, hits)) /\ IsRules(Folded(store, stopping.deltas))
  BY TasksAre, FoldedIs DEF TypeOK
<1>3. stopping' \in [step : {"run", "merge", "exit", "down"}, deltas : Counts]
  BY ZeroIs DEF StopDrain, StopMerge, TypeOK
<1>4. OtherTypes'
  <2>1. CASE StopDrain
    BY <2>1, <1>2, <1>3, ZeroIs DEF StopDrain, OtherTypes, TypeOK, IsRules
  <2>2. CASE StopMerge
    BY <2>2, <1>2, <1>3, ZeroIs DEF StopMerge, OtherTypes, TypeOK, IsRules
  <2> QED
    BY <2>1, <2>2
<1> QED
  BY <1>1, <1>4, TypesOf

LEMMA ExitTyped ==
  ASSUME TypeOK, Exit
  PROVE  TypeOK'
<1>1. [NoCall EXCEPT !.step = "done"] = [step |-> "done", kind |-> "none", rules |-> Empty]
  BY DEF NoCall
<1>2. \A c \in Calls : call'[c] = IF call[c].step = "idle" THEN call[c]
                                  ELSE [step |-> "done", kind |-> "none", rules |-> Empty]
  BY <1>1 DEF Exit
<1>3. ASSUME NEW c \in Calls
      PROVE  /\ call'[c] = [step |-> call'[c].step, kind |-> call'[c].kind, rules |-> call'[c].rules]
             /\ call'[c].step \in {"idle", "done"} /\ call'[c].kind \in AllKinds \cup {"none"}
             /\ IsRules(call'[c].rules)
  BY <1>2, CallIs, EmptyIsMap
<1>4. CallTypes'
  <2> DEFINE all == {call'[c].rules : c \in Calls}
  <2>1. \A c \in Calls : call'[c].rules \in all /\ call'[c].step \in CallSteps
    BY <1>3 DEF CallSteps
  <2> HIDE DEF all
  <2>2. \A c \in Calls : call'[c] \in [step : CallSteps, kind : AllKinds \cup {"none"}, rules : all]
    BY <2>1, <1>3, RecordOf
  <2>3. call' = [c \in Calls |-> call'[c]]
    BY DEF Exit
  <2>4. call' \in [Calls -> [step : CallSteps, kind : AllKinds \cup {"none"}, rules : all]]
    BY <2>2, <2>3
  <2> QED
    BY <1>3, <2>4 DEF CallTypes, IsRules, all
<1>5. OtherTypes'
  BY EmptyIsMap, ZeroIs, TasksAre DEF Exit, OtherTypes, TypeOK, IsRules, NoFlush, FlushSteps
<1>6. LockTypes'
  <2>1. lock' = Free /\ flush'.step = "idle"
    BY DEF Exit, NoFlush
  <2> QED
    BY <1>3, <2>1, RuleStoreAssumption DEF LockTypes, Free
<1> QED
  BY <1>4, <1>5, <1>6, TypesOf

LEMMA RestartTyped ==
  ASSUME TypeOK, Restart
  PROVE  TypeOK'
<1>1. CallTypes' /\ LockTypes'
  BY SameCalls, SameLock DEF Restart
<1>2. IsRules(store)'
  <2>1. PICK S : S \subseteq DOMAIN store /\ store' = Restrict(store, S)
    BY DEF Restart, Keep
  <2>2. IsRules(Restrict(store, S))
    BY <2>1, RestrictIs DEF TypeOK
  <2> QED
    BY <2>1, <2>2 DEF IsRules
<1>3. IsRules(engine)'
  <2>0. PICK rows : rows = store'
    OBVIOUS
  <2>1. PICK S : S \subseteq DOMAIN rows /\ engine' = Restrict(rows, S)
    BY <2>0 DEF Restart, Keep, Load
  <2>2. IsRules(rows)
    BY <1>2, <2>0 DEF IsRules
  <2>3. IsRules(Restrict(rows, S))
    BY <2>1, <2>2, RestrictIs
  <2> QED
    BY <2>1, <2>3 DEF IsRules
<1>4. truth' \in Counts
  <2>1. \A id \in DOMAIN store' : store'[id].hits \in Nat
    BY <1>2, RuleFields DEF IsRules
  <2>2. truth' = [id \in Ids |-> IF id \in DOMAIN store' THEN store'[id].hits ELSE truth[id]]
    BY DEF Restart
  <2> QED
    BY <2>1, <2>2 DEF TypeOK, Counts
<1>5. UNCHANGED <<hits, flush, packet, clock>> /\ stopping' = Running
  BY DEF Restart
<1>6. OtherTypes'
  BY <1>2, <1>3, <1>4, <1>5, ZeroIs DEF OtherTypes, TypeOK, Running
<1> QED
  BY <1>1, <1>6, TypesOf

LEMMA TickTyped ==
  ASSUME TypeOK, Tick
  PROVE  TypeOK'
<1>1. CallTypes' /\ LockTypes'
  BY SameCalls, SameLock DEF Tick
<1>2. clock \in Nat /\ clock' = clock + 1 /\ clock' \in 0..MaxTime /\ MaxTime \in Nat
  BY RuleStoreAssumption DEF Tick, TypeOK
<1>3. flush' \in [step : FlushSteps, deltas : Counts, now : 0..clock']
  BY <1>2, TasksAre DEF Tick
<1>4. OtherTypes'
  BY <1>2, <1>3 DEF Tick, TypeOK, OtherTypes, IsRules
<1> QED
  BY <1>1, <1>4, TypesOf

LEMMA StaysTyped == TypeOK /\ [Next]_vars => TypeOK'
<1> SUFFICES ASSUME TypeOK, [Next]_vars PROVE TypeOK'
  OBVIOUS
<1>1. ASSUME NEW c \in Calls, BeginWrite(c) \/ BeginDelete(c) \/ CallStep(c) PROVE TypeOK'
  BY <1>1, BeginTyped, ResolveTyped, LockTyped, CheckTyped, WriteTyped, FailsTyped, PublishTyped
     DEF CallStep
<1>2. CASE UNCHANGED vars
  BY <1>2, SameCalls, SameOthers, SameLock, TypesOf DEF vars
<1> QED
  BY <1>1, <1>2, PacketTyped, FlushTyped, StopTyped, ExitTyped, RestartTyped, TickTyped DEF Next

\* Every variable keeps its type: the maps hold rules, the counts are natural
\* numbers, and exactly the call or the flush in its critical section holds the
\* mutations lock (Engine::lock_mutations).
THEOREM TypesHold == Spec => []TypeOK
<1>1. TypeOK /\ [Next]_vars => TypeOK'
  BY StaysTyped
<1> QED
  BY <1>1, StartsTyped, PTL DEF Spec

-----------------------------------------------------------------------------
(* Calls and the lock *)

\* Only one call is in its critical section, and the flush is not.
LEMMA OneHolder ==
  ASSUME TypeOK, NEW c \in Calls, call[c].step \in {"check", "store", "publish"}
  PROVE  /\ lock = c /\ flush.step = "idle" /\ lock # Free
         /\ \A d \in Calls : d # c => call[d].step \notin {"check", "store", "publish"}
BY RuleStoreAssumption DEF TypeOK

\* What a call's step does to the calls: its own step moves, and its rules are
\* replaced only when it passes the check.
LEMMA CallStepIs ==
  ASSUME TypeOK, NEW c \in Calls, CallStep(c)
  PROVE  /\ \A d \in Calls : d # c => call'[d] = call[d]
         /\ call'[c].kind = call[c].kind
         /\ call'[c].rules = call[c].rules \/ (CheckUnderLock(c) /\ call'[c].rules = Checked(c))
         /\ call'[c].step # "idle" /\ UNCHANGED <<flush, stopping, packet, clock>>
<1>1. CASE \E step \in CallSteps \ {"idle"} : call' = [call EXCEPT ![c].step = step]
  <2>1. PICK step \in CallSteps \ {"idle"} : call' = [call EXCEPT ![c].step = step]
    BY <1>1
  <2>2. /\ call'[c].kind = call[c].kind /\ call'[c].rules = call[c].rules /\ call'[c].step = step
        /\ \A d \in Calls : d # c => call'[d] = call[d]
    <3>1. \A d \in Calls : d # c => call'[d] = call[d]
      BY <2>1, CallIs
    <3>2. step \in CallSteps /\ call' = [call EXCEPT ![c].step = step]
      BY <2>1
    <3>3. \A d \in Calls : /\ call'[d].kind = call[d].kind /\ call'[d].rules = call[d].rules
                           /\ call'[d].step = IF d = c THEN step ELSE call[d].step
      BY <3>2, CallSteps1
    <3> QED
      BY <3>1, <3>3
  <2> QED
    BY <2>2 DEF CallStep, ResolveExe, LockMutations, CheckUnderLock, StoreWrite, StoreWriteFails, Publish
<1>2. CASE CheckUnderLock(c) /\ ~TimedToAlways(call[c].rules)
  <2>1. call' = [call EXCEPT ![c] = [step |-> "store", kind |-> call[c].kind, rules |-> Checked(c)]]
    BY <1>2 DEF CheckUnderLock
  <2>2. \A d \in Calls : call'[d] = IF d = c
           THEN [step |-> "store", kind |-> call[c].kind, rules |-> Checked(c)] ELSE call[d]
    BY <2>1, CallIs
  <2> QED
    BY <2>2, <1>2 DEF CheckUnderLock
<1> QED
  BY <1>1, <1>2 DEF CallStep, ResolveExe, LockMutations, CheckUnderLock, StoreWrite, StoreWriteFails,
                    Publish, CallSteps

LEMMA BeginIs ==
  ASSUME TypeOK, NEW c \in Calls, BeginWrite(c) \/ BeginDelete(c)
  PROVE  /\ \A d \in Calls : d # c => call'[d] = call[d]
         /\ call'[c].step \in {"lock", "resolve"}
         /\ call'[c].kind # "delete" => \A id \in DOMAIN call'[c].rules : Loadable(call'[c].rules[id])
         /\ UNCHANGED <<engine, hits, lock, flush, stopping, packet, store, truth, clock>>
<1>1. CASE BeginWrite(c)
  <2>1. PICK kind \in Kinds \ {"delete"} : \E f \in Sent(kind) : \E step \in {"lock", "resolve"} :
          call' = [call EXCEPT ![c] = [step |-> step, kind |-> kind, rules |-> f]]
    BY <1>1 DEF BeginWrite
  <2>2. PICK f \in Sent(kind), step \in {"lock", "resolve"} :
          call' = [call EXCEPT ![c] = [step |-> step, kind |-> kind, rules |-> f]]
    BY <2>1
  <2>3. \A d \in Calls : call'[d] = IF d = c THEN [step |-> step, kind |-> kind, rules |-> f] ELSE call[d]
    BY <2>2, CallIs
  <2>4. \A id \in DOMAIN f : Loadable(f[id])
    BY SentIs
  <2>5. call'[c].step = step /\ call'[c].rules = f /\ \A d \in Calls : d # c => call'[d] = call[d]
    BY <2>3
  <2>6. UNCHANGED <<engine, hits, lock, flush, stopping, packet, store, truth, clock>>
    BY <1>1 DEF BeginWrite
  <2> QED
    BY <2>4, <2>5, <2>6
<1>2. CASE BeginDelete(c)
  <2>1. \E f : call' = [call EXCEPT ![c] = [step |-> "lock", kind |-> "delete", rules |-> f]]
    BY <1>2 DEF BeginDelete
  <2>2. PICK f : call' = [call EXCEPT ![c] = [step |-> "lock", kind |-> "delete", rules |-> f]]
    BY <2>1
  <2>3. \A d \in Calls : call'[d] = IF d = c THEN [step |-> "lock", kind |-> "delete", rules |-> f] ELSE call[d]
    BY <2>2, CallIs
  <2> QED
    BY <1>2, <2>3 DEF BeginDelete
<1> QED
  BY <1>1, <1>2

\* What a checked rule says is what was sent, apart from its creation time.
LEMMA CheckedRule ==
  ASSUME TypeOK, NEW c \in Calls, NEW id \in DOMAIN call[c].rules
  PROVE  /\ Checked(c)[id].exe = call[c].rules[id].exe /\ Checked(c)[id].secs = call[c].rules[id].secs
         /\ id \in DOMAIN engine => /\ Checked(c)[id].hits = engine[id].hits
                                    /\ Checked(c)[id].made = engine[id].made
<1>1. IsRules(engine) /\ call[c].rules[id] \in Rule
  BY MapIs DEF TypeOK
<1> QED
  BY <1>1, PreservedIs DEF Checked

LEMMA FlushIs ==
  ASSUME TypeOK, FlushStep
  PROVE  /\ UNCHANGED <<call, stopping, packet, truth, clock>>
         /\ \A c \in Calls : call[c].step \notin {"store", "publish"} \/ FlushLock
<1>1. UNCHANGED <<call, stopping, packet, truth, clock>>
  BY DEF FlushStep, FlushLock, FlushDrain, FlushMerge, FlushLook, FlushExpire, FlushPurge
<1>2. flush.step # "idle" \/ FlushLock
  BY DEF FlushStep, FlushDrain, FlushMerge, FlushLook, FlushExpire, FlushPurge
<1> QED
  BY <1>1, <1>2, OneHolder

LEMMA ExitIs ==
  ASSUME TypeOK, Exit
  PROVE  /\ \A c \in Calls : call'[c] = call[c] \/ call'[c].rules = Empty
         /\ \A c \in Calls : call'[c].step \in {"idle", "done"}
         /\ stopping'.step = "down" /\ engine' = Empty /\ hits' = Zero /\ lock' = Free /\ flush' = NoFlush
<1>1. [NoCall EXCEPT !.step = "done"] = [step |-> "done", kind |-> "none", rules |-> Empty]
  BY DEF NoCall
<1>2. \A c \in Calls : call'[c] = IF call[c].step = "idle" THEN call[c]
                                  ELSE [step |-> "done", kind |-> "none", rules |-> Empty]
  BY <1>1 DEF Exit
<1> QED
  BY <1>2 DEF Exit

-----------------------------------------------------------------------------
(* What is held at rest, and what the check saw *)

LEMMA AtRestKept ==
  ASSUME TypeOK, AtRest, [Next]_vars
  PROVE  AtRest'
<1>1. ASSUME NEW c \in Calls, call'[c].kind # "delete", NEW id \in DOMAIN call'[c].rules
      PROVE  Loadable(call'[c].rules[id])
  <2>1. CASE call'[c].kind = call[c].kind /\ call'[c].rules = call[c].rules
    BY <2>1, <1>1 DEF AtRest
  <2>2. CASE BeginWrite(c) \/ BeginDelete(c)
    BY <2>2, <1>1, BeginIs
  <2>3. CASE CallStep(c) /\ call'[c].kind = call[c].kind /\ call'[c].rules = Checked(c)
    <3>1. id \in DOMAIN call[c].rules /\ call'[c].rules[id].exe = call[c].rules[id].exe
      BY <2>3, <1>1, CheckedIs, CheckedRule
    <3>2. Loadable(call[c].rules[id])
      BY <2>3, <3>1, <1>1 DEF AtRest
    <3> QED
      BY <3>1, <3>2 DEF Loadable
  <2>4. CASE call'[c].rules = Empty
    BY <2>4, <1>1, EmptyIsMap
  <2>5. CASE \E d \in Calls : BeginWrite(d) \/ BeginDelete(d) \/ CallStep(d)
    BY <2>5, <2>1, <2>2, <2>3, BeginIs, CallStepIs
  <2>6. CASE FlushStep
    BY <2>1, <2>6, FlushIs
  <2>7. CASE Exit
    BY <2>1, <2>4, <2>7, ExitIs
  <2>8. CASE call' = call
    BY <2>1, <2>8
  <2> QED
    BY <2>5, <2>6, <2>7, <2>8
       DEF Next, vars, PacketMatches, CountHit, StopDrain, StopMerge, Restart, Tick
<1>2. flush'.step # "merge" => flush'.deltas = Zero
  <2>1. (flush'.deltas = flush.deltas /\ flush.step # "merge") \/ flush'.deltas = Zero \/ flush'.step = "merge"
    <3>1. CASE FlushLock
      BY <3>1, TasksAre DEF FlushLock
    <3>2. CASE FlushDrain \/ FlushMerge
      BY <3>2, TasksAre DEF FlushDrain, FlushMerge
    <3>3. CASE FlushLook
      BY <3>3, TasksAre DEF FlushLook, NoFlush
    <3>4. CASE FlushExpire
      BY <3>4, TasksAre DEF FlushExpire, Keep
    <3>5. CASE FlushPurge
      BY <3>5 DEF FlushPurge, Keep, NoFlush
    <3>6. CASE Exit
      BY <3>6, ExitIs DEF NoFlush
    <3>7. CASE flush' = flush
      BY <3>7, TasksAre
    <3>8. CASE \E d \in Calls : BeginWrite(d) \/ BeginDelete(d) \/ CallStep(d)
      BY <3>7, <3>8, BeginIs, CallStepIs
    <3> QED
      BY <3>1, <3>2, <3>3, <3>4, <3>5, <3>6, <3>7, <3>8
         DEF Next, vars, FlushStep, PacketMatches, CountHit, StopDrain, StopMerge, Restart, Tick
  <2> QED
    BY <2>1 DEF AtRest
<1>3. ASSUME ~Up'
      PROVE  engine' = Empty /\ hits' = Zero /\ lock' = Free /\ flush' = NoFlush
  <2>1. CASE Exit
    BY <2>1, ExitIs
  <2>2. CASE ~Exit
    <3>1. stopping' = stopping
      <4>1. CASE \E d \in Calls : BeginWrite(d) \/ BeginDelete(d) \/ CallStep(d)
        BY <4>1, BeginIs, CallStepIs
      <4>2. CASE FlushStep
        BY <4>2, FlushIs
      <4>3. CASE StopDrain \/ StopMerge \/ Restart
        BY <4>3, <1>3 DEF StopDrain, StopMerge, Restart, Up, Running
      <4> QED
        BY <4>1, <4>2, <4>3, <2>2 DEF Next, vars, PacketMatches, CountHit, Tick
    <3>2. ~Up /\ stopping.step = "down" /\ flush.step = "idle"
      BY <3>1, <1>3 DEF Up, AtRest, NoFlush
    <3>3. UNCHANGED <<engine, hits, lock, flush>>
      BY <3>1, <3>2, <2>2
         DEF Next, vars, BeginWrite, BeginDelete, CallStep, ResolveExe, LockMutations, CheckUnderLock,
             StoreWrite, StoreWriteFails, Publish, PacketMatches, CountHit, FlushStep, FlushLock,
             FlushDrain, FlushMerge, FlushLook, FlushExpire, FlushPurge, StopDrain, StopMerge,
             Restart, Running, Tick
    <3> QED
      BY <3>2, <3>3 DEF AtRest
  <2> QED
    BY <2>1, <2>2
<1> QED
  BY <1>1, <1>2, <1>3 DEF AtRest, Up, Loadable

LEMMA WritesKept ==
  ASSUME TypeOK, AtRest, WritesAreChecked, [Next]_vars
  PROVE  WritesAreChecked'
<1> SUFFICES ASSUME NEW c \in Calls, call'[c].step \in {"store", "publish"}, call'[c].kind # "delete",
                    NEW id \in DOMAIN call'[c].rules \cap DOMAIN engine'
             PROVE  /\ call'[c].rules[id].made = engine'[id].made
                    /\ engine'[id].secs > 0 => call'[c].rules[id].secs # Always
                    /\ stopping'.step = "run" => call'[c].rules[id].hits = engine'[id].hits
  BY DEF WritesAreChecked
\* The call was already writing and nobody touched the engine.
<1>1. CASE /\ call'[c].kind = call[c].kind /\ call'[c].rules = call[c].rules
           /\ call[c].step \in {"store", "publish"} /\ engine' = engine /\ stopping' = stopping
  BY <1>1 DEF WritesAreChecked
<1>2. CASE CallStep(c)
  <2>1. CASE CheckUnderLock(c)
    <3>1. call'[c].step = "store" /\ ~TimedToAlways(call[c].rules) /\ call'[c].rules = Checked(c)
          /\ engine' = engine
      <4>1. ~TimedToAlways(call[c].rules)
        BY <2>1, CallSteps1 DEF CheckUnderLock, CallSteps
      <4>2. call' = [call EXCEPT ![c] = [step |-> "store", kind |-> call[c].kind, rules |-> Checked(c)]]
        BY <4>1, <2>1 DEF CheckUnderLock
      <4> QED
        BY <2>1, <4>1, <4>2, CallIs DEF CheckUnderLock
    <3>2. id \in DOMAIN call[c].rules /\ id \in DOMAIN engine
      BY <3>1, CheckedIs
    <3>3. ~(engine[id].secs > 0 /\ call[c].rules[id].secs = Always)
      BY <3>1, <3>2 DEF TimedToAlways
    <3> QED
      BY <3>1, <3>2, <3>3, CheckedRule
  <2>2. CASE StoreWrite(c)
    BY <1>1, <2>2, <1>2, CallStepIs DEF StoreWrite, CheckUnderLock
  <2>3. CASE LockMutations(c)
    <3>1. PICK step : step = (IF call[c].kind = "delete" THEN "store" ELSE "check")
                      /\ call' = [call EXCEPT ![c].step = step] /\ step \in CallSteps
      BY <2>3 DEF LockMutations, CallSteps
    <3>2. \A d \in Calls : /\ call'[d].kind = call[d].kind /\ call'[d].rules = call[d].rules
                           /\ call'[d].step = IF d = c THEN step ELSE call[d].step
      BY <3>1, CallSteps1
    <3> QED
      BY <3>1, <3>2
  <2>4. CASE ResolveExe(c) \/ StoreWriteFails(c) \/ Publish(c)
    <3>1. PICK step \in {"lock", "refused", "done"} : call' = [call EXCEPT ![c].step = step]
      BY <2>4 DEF ResolveExe, StoreWriteFails, Publish
    <3>2. step \in CallSteps
      BY DEF CallSteps
    <3>3. \A d \in Calls : /\ call'[d].kind = call[d].kind /\ call'[d].rules = call[d].rules
                           /\ call'[d].step = IF d = c THEN step ELSE call[d].step
      BY <3>1, <3>2, CallSteps1
    <3> QED
      BY <3>3
  <2> QED
    BY <1>2, <2>1, <2>2, <2>3, <2>4 DEF CallStep
<1>3. CASE \E d \in Calls \ {c} : CallStep(d)
  <2>1. PICK d \in Calls \ {c} : CallStep(d)
    BY <1>3
  <2>2. call'[c] = call[c] /\ stopping' = stopping
    BY <2>1, CallStepIs
  <2>3. call[d].step \notin {"check", "store", "publish"}
    BY <2>2, OneHolder
  <2>4. engine' = engine
    BY <2>1, <2>3 DEF CallStep, ResolveExe, LockMutations, CheckUnderLock, StoreWrite, StoreWriteFails, Publish
  <2> QED
    BY <1>1, <2>2, <2>4
<1>4. CASE \E d \in Calls : BeginWrite(d) \/ BeginDelete(d)
  BY <1>1, <1>4, BeginIs
<1>5. CASE FlushStep
  <2>1. call' = call /\ FlushLock
    BY <1>5, FlushIs
  <2> QED
    BY <1>1, <2>1 DEF FlushLock
<1>6. CASE StopDrain
  <2>1. call' = call /\ engine' = Folded(engine, hits) /\ stopping'.step # "run"
    BY <1>6 DEF StopDrain
  <2>2. id \in DOMAIN engine /\ engine'[id].made = engine[id].made /\ engine'[id].secs = engine[id].secs
    <3>1. IsRules(engine) /\ hits \in Counts
      BY DEF TypeOK
    <3>2. DOMAIN engine' = DOMAIN engine
      BY <2>1, <3>1, FoldedIs
    <3> QED
      BY <2>1, <3>1, <3>2, FoldedIs
  <2> QED
    BY <2>1, <2>2 DEF WritesAreChecked
<1>7. CASE StopMerge
  <2>1. call' = call /\ engine' = engine /\ stopping'.step # "run"
    BY <1>7 DEF StopMerge
  <2> QED
    BY <2>1 DEF WritesAreChecked
<1>8. CASE Exit
  BY <1>8, ExitIs
<1>9. CASE Restart
  <2>1. call' = call /\ lock = Free
    BY <1>9 DEF Restart, AtRest, Up
  <2> QED
    BY <2>1, OneHolder
<1>10. CASE UNCHANGED <<call, engine, stopping>>
  BY <1>1, <1>10
<1> QED
  BY <1>2, <1>3, <1>4, <1>5, <1>6, <1>7, <1>8, <1>9, <1>10 DEF Next, vars, PacketMatches, CountHit, Tick

-----------------------------------------------------------------------------
(* What a write publishes *)

\* The rule a write leaves under id, before the server's own fields are kept.
Source(c, id) == IF id \in DOMAIN call[c].rules THEN call[c].rules[id] ELSE engine[id]

\* The engine's rules after a write, rule by rule: a batch keeps the counts and
\* creation times of the rules the engine has.
AfterIs(c) ==
  IF call[c].kind = "delete"
  THEN /\ DOMAIN EngineAfter(c) = DOMAIN engine \ DOMAIN call[c].rules
       /\ \A id \in DOMAIN EngineAfter(c) : EngineAfter(c)[id] = engine[id]
  ELSE /\ DOMAIN EngineAfter(c) = (IF call[c].kind = "replace" THEN {} ELSE DOMAIN engine)
                                    \cup DOMAIN call[c].rules
       /\ \A id \in DOMAIN EngineAfter(c) :
            /\ EngineAfter(c)[id].exe = Source(c, id).exe
            /\ EngineAfter(c)[id].secs = Source(c, id).secs
            /\ IF call[c].kind # "upsert" /\ id \in DOMAIN engine
               THEN EngineAfter(c)[id].made = engine[id].made /\ EngineAfter(c)[id].hits = engine[id].hits
               ELSE EngineAfter(c)[id].made = Source(c, id).made /\ EngineAfter(c)[id].hits = Source(c, id).hits

LEMMA WhatIsPublished == TypeOK => \A c \in Calls : AfterIs(c)
<1> SUFFICES ASSUME TypeOK, NEW c \in Calls PROVE AfterIs(c)
  OBVIOUS
<1>1. IsRules(engine) /\ IsRules(call[c].rules)
  BY DEF TypeOK
<1>2. CASE call[c].kind = "delete"
  <2>1. EngineAfter(c) = Restrict(engine, DOMAIN engine \ DOMAIN call[c].rules)
    BY <1>2 DEF EngineAfter
  <2>2. DOMAIN engine \ DOMAIN call[c].rules \subseteq DOMAIN engine
    OBVIOUS
  <2> QED
    BY <1>1, <1>2, <2>1, <2>2, RestrictIs DEF AfterIs
<1>3. CASE call[c].kind # "delete"
  <2>1. EngineAfter(c) = Published(c)
    BY <1>3 DEF EngineAfter
  <2>2. DOMAIN Published(c) = (IF call[c].kind = "replace" THEN {} ELSE DOMAIN engine)
                                \cup DOMAIN call[c].rules
    BY PublishedIs
  <2>3. ASSUME NEW id \in DOMAIN Published(c)
        PROVE  /\ Published(c)[id].exe = Source(c, id).exe
               /\ Published(c)[id].secs = Source(c, id).secs
               /\ IF call[c].kind # "upsert" /\ id \in DOMAIN engine
                  THEN Published(c)[id].made = engine[id].made /\ Published(c)[id].hits = engine[id].hits
                  ELSE Published(c)[id].made = Source(c, id).made /\ Published(c)[id].hits = Source(c, id).hits
    <3>1. PICK r : r = Source(c, id)
      OBVIOUS
    <3>2. r \in Rule
      BY <1>1, <2>2, <2>3, <3>1, MapIs DEF Source
    <3>3. Published(c)[id] = IF call[c].kind = "upsert" THEN r ELSE PreserveServerOwned(id, r)
      BY <2>3, <3>1, PublishedIs DEF Source
    <3> QED
      BY <1>1, <3>1, <3>2, <3>3, PreservedIs
  <2> QED
    BY <1>3, <2>1, <2>2, <2>3 DEF AfterIs
<1> QED
  BY <1>2, <1>3

LEMMA PublishedNext == TypeOK' => \A c \in Calls : AfterIs(c)'
<1>1. (TypeOK => \A c \in Calls : AfterIs(c))'
  BY WhatIsPublished, PTL
<1> QED
  BY <1>1

\* A checked write stores what it will publish.
LEMMA WriteAgrees ==
  ASSUME TypeOK, AtRest, WritesAreChecked, NEW c \in Calls, call[c].step = "store",
         Agree(engine, store, clock)
  PROVE  Agree(EngineAfter(c), Rows(c), clock)
<1>1. AfterIs(c) /\ IsRules(engine) /\ IsRules(store) /\ IsRules(call[c].rules)
  BY WhatIsPublished DEF TypeOK
<1>2. CASE call[c].kind = "delete"
  <2>1. Rows(c) = Restrict(store, DOMAIN store \ DOMAIN call[c].rules)
    BY <1>2 DEF Rows
  <2>2. DOMAIN Rows(c) = DOMAIN store \ DOMAIN call[c].rules
        /\ \A id \in DOMAIN Rows(c) : Rows(c)[id] = store[id]
    BY <1>1, <2>1, RestrictIs
  <2> QED
    BY <1>1, <1>2, <2>2 DEF Agree, AfterIs
<1>3. CASE call[c].kind # "delete"
  <2>1. DOMAIN Rows(c) = (IF call[c].kind = "replace" THEN {} ELSE DOMAIN store) \cup DOMAIN call[c].rules
        /\ \A id \in DOMAIN Rows(c) :
             Rows(c)[id] = IF id \in DOMAIN call[c].rules THEN call[c].rules[id] ELSE store[id]
    <3>1. CASE call[c].kind = "replace"
      BY <1>3, <3>1 DEF Rows
    <3>2. CASE call[c].kind # "replace"
      BY <1>3, <3>2 DEF Rows, Overlay
    <3> QED
      BY <3>1, <3>2
  <2>2. ASSUME NEW id \in DOMAIN EngineAfter(c)
        PROVE  /\ id \in DOMAIN Rows(c) /\ Content(EngineAfter(c)[id]) = Content(Rows(c)[id])
               /\ Loadable(EngineAfter(c)[id])
    <3>1. CASE id \in DOMAIN call[c].rules
      <4>1. Source(c, id) = call[c].rules[id] /\ Rows(c)[id] = call[c].rules[id] /\ id \in DOMAIN Rows(c)
        BY <3>1, <2>1 DEF Source
      <4>2. id \in DOMAIN engine => call[c].rules[id].made = engine[id].made
        BY <1>3, <3>1 DEF WritesAreChecked
      <4>3. Loadable(call[c].rules[id])
        BY <1>3, <3>1 DEF AtRest
      <4> QED
        BY <1>1, <1>3, <2>2, <4>1, <4>2, <4>3 DEF AfterIs, Content, Loadable
    <3>2. CASE id \notin DOMAIN call[c].rules
      <4>1. id \in DOMAIN engine /\ call[c].kind # "replace" /\ Source(c, id) = engine[id]
        BY <1>1, <1>3, <2>2, <3>2 DEF AfterIs, Source
      <4>2. id \in DOMAIN store /\ Content(engine[id]) = Content(store[id]) /\ Loadable(engine[id])
        BY <4>1 DEF Agree
      <4>3. id \in DOMAIN Rows(c) /\ Rows(c)[id] = store[id]
        BY <2>1, <3>2, <4>1, <4>2
      <4> QED
        BY <1>1, <1>3, <2>2, <4>1, <4>2, <4>3 DEF AfterIs, Content, Loadable
    <3> QED
      BY <3>1, <3>2
  <2>3. ASSUME NEW id \in DOMAIN Rows(c) \ DOMAIN EngineAfter(c)
        PROVE  IsExpired(Rows(c)[id], clock) \/ ~Loadable(Rows(c)[id])
    <3>1. id \notin DOMAIN call[c].rules /\ call[c].kind # "replace" /\ id \in DOMAIN store \ DOMAIN engine
      BY <1>1, <1>3, <2>1 DEF AfterIs
    <3> QED
      BY <2>1, <3>1 DEF Agree
  <2> QED
    BY <2>2, <2>3 DEF Agree
<1> QED
  BY <1>2, <1>3

\* Folding counts into the engine leaves what a write will publish as it was.
LEMMA FoldedAfter ==
  ASSUME TypeOK, TypeOK', NEW c \in Calls, call' = call, engine' = Folded(engine, hits)
  PROVE  /\ DOMAIN EngineAfter(c)' = DOMAIN EngineAfter(c)
         /\ \A id \in DOMAIN EngineAfter(c) : Content(EngineAfter(c)'[id]) = Content(EngineAfter(c)[id])
<1>1. AfterIs(c) /\ AfterIs(c)'
  BY WhatIsPublished, PublishedNext
<1>2. /\ DOMAIN engine' = DOMAIN engine
      /\ \A id \in DOMAIN engine : /\ engine'[id].exe = engine[id].exe /\ engine'[id].made = engine[id].made
                                   /\ engine'[id].secs = engine[id].secs
  <2>1. IsRules(engine) /\ hits \in Counts
    BY DEF TypeOK
  <2> QED
    BY <2>1, FoldedIs
<1>3. DOMAIN EngineAfter(c)' = DOMAIN EngineAfter(c)
  BY <1>1, <1>2 DEF AfterIs
<1>4. ASSUME NEW id \in DOMAIN EngineAfter(c)
      PROVE  Content(EngineAfter(c)'[id]) = Content(EngineAfter(c)[id])
  <2>1. id \in DOMAIN engine \/ id \in DOMAIN call[c].rules
    BY <1>1, <1>4 DEF AfterIs
  <2>2. EngineAfter(c)'[id].exe = EngineAfter(c)[id].exe
    BY <1>1, <1>2, <1>3, <2>1 DEF AfterIs, Source
  <2>3. EngineAfter(c)'[id].made = EngineAfter(c)[id].made
    BY <1>1, <1>2, <1>3, <2>1 DEF AfterIs, Source
  <2>4. EngineAfter(c)'[id].secs = EngineAfter(c)[id].secs
    BY <1>1, <1>2, <1>3, <2>1 DEF AfterIs, Source
  <2> QED
    BY <2>2, <2>3, <2>4 DEF Content
<1> QED
  BY <1>3, <1>4

-----------------------------------------------------------------------------
(* The engine and the rows *)

LEMMA SameAfter ==
  ASSUME NEW c \in Calls, engine' = engine, call'[c].kind = call[c].kind, call'[c].rules = call[c].rules
  PROVE  EngineAfter(c)' = EngineAfter(c)
BY DEF EngineAfter, Published, PreserveServerOwned

\* Nothing the copies depend on has changed.
LEMMA CopiesQuiet ==
  ASSUME CopiesAgree, UNCHANGED <<engine, store, clock>>, Up' => Up,
         \A c \in Calls : /\ call'[c].step = "publish" <=> call[c].step = "publish"
                          /\ call[c].step = "publish" => /\ call'[c].kind = call[c].kind
                                                         /\ call'[c].rules = call[c].rules
  PROVE  CopiesAgree'
<1> SUFFICES ASSUME Up' PROVE CopiesAgree'
  BY DEF CopiesAgree
<1>1. CASE \E c \in Calls : call[c].step = "publish"
  <2>1. ASSUME NEW c \in Calls, call'[c].step = "publish"
        PROVE  Agree(EngineAfter(c), store, clock)'
    <3>1. call[c].step = "publish" /\ Agree(EngineAfter(c), store, clock)
      BY <1>1, <2>1 DEF CopiesAgree
    <3>2. EngineAfter(c)' = EngineAfter(c)
      BY <3>1, SameAfter
    <3> QED
      BY <3>1, <3>2 DEF Agree
  <2> QED
    BY <1>1, <2>1 DEF CopiesAgree
<1>2. CASE ~\E c \in Calls : call[c].step = "publish"
  <2>1. Agree(engine, store, clock)
    BY <1>2 DEF CopiesAgree
  <2>2. Agree(engine, store, clock)'
    BY <2>1 DEF Agree
  <2> QED
    BY <1>2, <2>2 DEF CopiesAgree
<1> QED
  BY <1>1, <1>2

\* Nobody is between the two halves of a write.
LEMMA CopiesAtRest ==
  ASSUME Up' => Agree(engine, store, clock)', \A c \in Calls : call'[c].step # "publish"
  PROVE  CopiesAgree'
BY DEF CopiesAgree

\* Hit counts move, or time passes.
LEMMA CopiesFolded ==
  ASSUME TypeOK, TypeOK', CopiesAgree, call' = call, Up' => Up, clock' >= clock,
         engine' = engine \/ engine' = Folded(engine, hits),
         DOMAIN store' = DOMAIN store, \A id \in DOMAIN store : Content(store'[id]) = Content(store[id])
  PROVE  CopiesAgree'
<1> SUFFICES ASSUME Up' PROVE CopiesAgree'
  BY DEF CopiesAgree
<1>0. clock \in Nat /\ clock' \in Nat /\ IsRules(store) /\ IsRules(engine) /\ hits \in Counts
  BY RuleStoreAssumption DEF TypeOK
<1>1. DOMAIN engine' = DOMAIN engine /\ \A id \in DOMAIN engine : Content(engine'[id]) = Content(engine[id])
  BY <1>0, FoldedIs
<1>2. ASSUME NEW c \in Calls
      PROVE  /\ DOMAIN EngineAfter(c)' = DOMAIN EngineAfter(c)
             /\ \A id \in DOMAIN EngineAfter(c) : Content(EngineAfter(c)'[id]) = Content(EngineAfter(c)[id])
  <2>1. CASE engine' = engine
    BY <2>1, SameAfter
  <2>2. CASE engine' = Folded(engine, hits)
    BY <2>2, FoldedAfter
  <2> QED
    BY <2>1, <2>2
<1>3. PICK rows, rows2, now, later : rows = store /\ rows2 = store' /\ now = clock /\ later = clock'
  OBVIOUS
<1>4. /\ IsRules(rows) /\ now \in Nat /\ later \in Nat /\ later >= now /\ DOMAIN rows2 = DOMAIN rows
      /\ \A id \in DOMAIN rows : Content(rows2[id]) = Content(rows[id])
  BY <1>0, <1>3
<1>5. CASE \E c \in Calls : call[c].step = "publish"
  <2>1. ASSUME NEW c \in Calls, call'[c].step = "publish"
        PROVE  Agree(EngineAfter(c)', store', clock')
    <3>1. Agree(EngineAfter(c), store, clock)
      BY <2>1 DEF CopiesAgree
    <3>2. PICK a, a2 : a = EngineAfter(c) /\ a2 = EngineAfter(c)'
      OBVIOUS
    <3>3. /\ Agree(a, rows, now) /\ DOMAIN a2 = DOMAIN a
          /\ \A id \in DOMAIN a : Content(a2[id]) = Content(a[id])
      BY <1>2, <1>3, <3>1, <3>2
    <3>4. Agree(a2, rows2, later)
      BY <1>4, <3>3, AgreeSame
    <3> QED
      BY <1>3, <3>2, <3>4
  <2> QED
    BY <1>5, <2>1 DEF CopiesAgree, Agree
<1>6. CASE ~\E c \in Calls : call[c].step = "publish"
  <2>1. Agree(engine, store, clock)
    BY <1>6 DEF CopiesAgree
  <2>2. PICK a, a2 : a = engine /\ a2 = engine'
    OBVIOUS
  <2>3. /\ Agree(a, rows, now) /\ DOMAIN a2 = DOMAIN a
        /\ \A id \in DOMAIN a : Content(a2[id]) = Content(a[id])
    BY <1>1, <1>3, <2>1, <2>2
  <2>4. Agree(a2, rows2, later)
    BY <1>4, <2>3, AgreeSame
  <2>5. Agree(engine, store, clock)'
    BY <1>3, <2>2, <2>4 DEF Agree
  <2> QED
    BY <1>6, <2>5 DEF CopiesAgree
<1> QED
  BY <1>5, <1>6

\* The flush drops what has expired, from memory and then from the rows.
LEMMA CopiesExpire ==
  ASSUME TypeOK, CopiesAgree, PurgedHaveLeft, FlushExpire \/ FlushPurge
  PROVE  CopiesAgree'
<1>0. IsRules(engine) /\ IsRules(store) /\ clock \in Nat /\ flush.now \in Nat /\ flush.now <= clock
  BY TasksAre DEF TypeOK
<1>1. call' = call /\ clock' = clock /\ flush.step # "idle" /\ stopping' = stopping
  BY DEF FlushExpire, FlushPurge, Keep
<1>2. \A c \in Calls : call[c].step # "publish"
  BY <1>1, OneHolder
<1>3. Up => Agree(engine, store, clock)
  BY <1>2 DEF CopiesAgree
<1>4. CASE FlushExpire
  <2>1. /\ engine' = Restrict(engine, {id \in DOMAIN engine : ~IsExpired(engine[id], clock)})
        /\ store' = store
    BY <1>4 DEF FlushExpire, Keep
  <2>2. /\ DOMAIN engine' = {id \in DOMAIN engine : ~IsExpired(engine[id], clock)}
        /\ \A id \in DOMAIN engine' : engine'[id] = engine[id]
    BY <2>1 DEF Restrict
  <2>3. ASSUME Up, NEW id \in DOMAIN store' \ DOMAIN engine'
        PROVE  IsExpired(store'[id], clock) \/ ~Loadable(store'[id])
    <3>1. CASE id \in DOMAIN engine
      <4>1. IsExpired(engine[id], clock) /\ Content(engine[id]) = Content(store[id])
        BY <1>3, <2>2, <2>3, <3>1 DEF Agree
      <4> QED
        BY <2>1, <4>1, SameContent
    <3>2. CASE id \notin DOMAIN engine
      BY <1>3, <2>1, <2>3, <3>2 DEF Agree
    <3> QED
      BY <3>1, <3>2
  <2>4. Up => Agree(engine', store', clock)
    BY <1>3, <2>1, <2>2, <2>3 DEF Agree
  <2> QED
    BY <1>1, <1>2, <2>4, CopiesAtRest DEF Agree, Up
<1>5. CASE FlushPurge
  <2>1. CASE store' = store
    BY <1>1, <1>5, <2>1, CopiesQuiet DEF FlushPurge, Keep, Up
  <2>2. CASE store' # store
    <3>1. /\ store' = Restrict(store, {id \in DOMAIN store : ~IsExpired(store[id], flush.now)})
          /\ engine' = engine
      BY <1>5, <2>2 DEF FlushPurge, Keep
    <3>2. /\ DOMAIN store' = {id \in DOMAIN store : ~IsExpired(store[id], flush.now)}
          /\ \A id \in DOMAIN store' : store'[id] = store[id]
      BY <3>1 DEF Restrict
    <3>3. ASSUME Up, NEW id \in DOMAIN engine
          PROVE  id \in DOMAIN store' /\ Content(engine[id]) = Content(store'[id]) /\ Loadable(engine[id])
      <4>1. id \in DOMAIN store /\ Content(engine[id]) = Content(store[id]) /\ Loadable(engine[id])
        BY <1>3, <3>3 DEF Agree
      <4>2. ~IsExpired(engine[id], flush.now)
        BY <1>5, <3>3 DEF PurgedHaveLeft, FlushPurge, Keep
      <4>3. ~IsExpired(store[id], flush.now)
        BY <4>1, <4>2, SameContent
      <4> QED
        BY <3>2, <4>1, <4>3
    <3>4. Up => Agree(engine', store', clock)
      BY <1>3, <3>1, <3>2, <3>3 DEF Agree
    <3> QED
      BY <1>1, <1>2, <3>4, CopiesAtRest DEF Agree, Up
  <2> QED
    BY <2>1, <2>2
<1> QED
  BY <1>4, <1>5

LEMMA CopiesWritten ==
  ASSUME TypeOK, AtRest, WritesAreChecked, CopiesAgree, NEW c \in Calls, StoreWrite(c) \/ Publish(c)
  PROVE  CopiesAgree'
<1>1. /\ UNCHANGED <<clock, stopping>>
      /\ \A d \in Calls : d # c => call'[d] = call[d] /\ call[d].step # "publish"
      /\ call'[c].kind = call[c].kind /\ call'[c].rules = call[c].rules
  <2>1. call[c].step \in {"store", "publish"} /\ CallStep(c) /\ ~CheckUnderLock(c)
        /\ UNCHANGED <<clock, stopping>>
    BY DEF CallStep, StoreWrite, Publish, CheckUnderLock
  <2>2. /\ \A d \in Calls : d # c => call'[d] = call[d]
        /\ call'[c].kind = call[c].kind /\ call'[c].rules = call[c].rules
    BY <2>1, CallStepIs
  <2>3. \A d \in Calls : d # c => call[d].step # "publish"
    BY <2>1, OneHolder
  <2> QED
    BY <2>1, <2>2, <2>3
<1>2. CASE Publish(c)
  <2>1. engine' = EngineAfter(c) /\ store' = store /\ call[c].step = "publish" /\ Up
    BY <1>2 DEF Publish
  <2>2. Agree(EngineAfter(c), store, clock)
    BY <2>1 DEF CopiesAgree
  <2>3. \A d \in Calls : call'[d].step # "publish"
    <3>1. call' = [call EXCEPT ![c].step = "done"] /\ "done" \in CallSteps
      BY <1>2 DEF Publish, CallSteps
    <3>2. \A d \in Calls : /\ call'[d].kind = call[d].kind /\ call'[d].rules = call[d].rules
                           /\ call'[d].step = IF d = c THEN "done" ELSE call[d].step
      BY <3>1, CallSteps1
    <3> QED
      BY <1>1, <3>2
  <2> QED
    BY <1>1, <2>1, <2>2, <2>3, CopiesAtRest DEF Agree
<1>3. CASE StoreWrite(c)
  <2>1. Up /\ call[c].step = "store" /\ store' = Rows(c) /\ engine' = engine
    BY <1>3 DEF StoreWrite
  <2>2. Agree(engine, store, clock)
    BY <1>1, <2>1 DEF CopiesAgree
  <2>3. Agree(EngineAfter(c), Rows(c), clock)
    BY <2>1, <2>2, WriteAgrees
  <2>4. CASE call'[c].step = "publish"
    <3>1. EngineAfter(c)' = EngineAfter(c)
      BY <1>1, <2>1, SameAfter
    <3> QED
      BY <1>1, <2>1, <2>3, <2>4, <3>1 DEF CopiesAgree, Agree
  <2>5. CASE call'[c].step # "publish"
    <3>1. call[c].kind = "delete" /\ DOMAIN call[c].rules \cap DOMAIN store = {}
      BY <1>3, <2>5, CallIs DEF StoreWrite
    <3>2. EngineAfter(c) = engine
      <4>1. AfterIs(c) /\ DOMAIN engine \subseteq DOMAIN store /\ IsRules(engine) /\ IsRules(EngineAfter(c))
        BY <2>2, WhatIsPublished, EngineAfterIs DEF Agree, TypeOK
      <4>2. DOMAIN EngineAfter(c) = DOMAIN engine
        BY <3>1, <4>1 DEF AfterIs
      <4>3. \A id \in DOMAIN engine : EngineAfter(c)[id] = engine[id]
        BY <3>1, <4>1, <4>2 DEF AfterIs
      <4> QED
        BY <4>1, <4>2, <4>3 DEF IsRules
    <3> QED
      BY <1>1, <2>1, <2>3, <2>5, <3>2, CopiesAtRest DEF Agree
  <2> QED
    BY <2>4, <2>5
<1> QED
  BY <1>2, <1>3

LEMMA CopiesRestart ==
  ASSUME TypeOK, AtRest, Restart
  PROVE  CopiesAgree'
<1>1. call' = call /\ lock = Free /\ clock' = clock
  BY DEF Restart, AtRest, Up
<1>2. \A c \in Calls : call'[c].step # "publish"
  BY <1>1, OneHolder
<1>3. engine' = Restrict(store', {id \in DOMAIN store' : Loadable(store'[id])})
  BY DEF Restart, Load, Keep
<1>4. /\ DOMAIN engine' = {id \in DOMAIN store' : Loadable(store'[id])}
      /\ \A id \in DOMAIN engine' : engine'[id] = store'[id]
  BY <1>3 DEF Restrict
<1>5. Agree(engine, store, clock)'
  BY <1>4 DEF Agree
<1> QED
  BY <1>2, <1>5, CopiesAtRest

LEMMA CopiesKept ==
  ASSUME TypeOK, TypeOK', AtRest, WritesAreChecked, PurgedHaveLeft, CopiesAgree, [Next]_vars
  PROVE  CopiesAgree'
<1>1. ASSUME NEW c \in Calls, BeginWrite(c) \/ BeginDelete(c)
      PROVE  CopiesAgree'
  <2>1. call[c].step = "idle" /\ Up
    BY <1>1 DEF BeginWrite, BeginDelete
  <2> QED
    BY <1>1, <2>1, BeginIs, CopiesQuiet
<1>2. ASSUME NEW c \in Calls, CallStep(c)
      PROVE  CopiesAgree'
  <2>1. CASE StoreWrite(c) \/ Publish(c)
    BY <2>1, CopiesWritten
  <2>2. CASE ResolveExe(c) \/ LockMutations(c) \/ CheckUnderLock(c) \/ StoreWriteFails(c)
    <3>1. Up /\ UNCHANGED <<engine, store, clock>> /\ call[c].step # "publish"
      BY <2>2 DEF ResolveExe, LockMutations, CheckUnderLock, StoreWriteFails
    <3>2. call'[c].step # "publish"
      <4>1. CASE CheckUnderLock(c) /\ ~TimedToAlways(call[c].rules)
        <5>1. call' = [call EXCEPT ![c] = [step |-> "store", kind |-> call[c].kind, rules |-> Checked(c)]]
          BY <4>1 DEF CheckUnderLock
        <5> QED
          BY <5>1, CallIs
      <4>2. CASE \E step \in CallSteps \ {"publish"} : call' = [call EXCEPT ![c].step = step]
        BY <4>2, CallIs
      <4> QED
        BY <2>2, <4>1, <4>2 DEF ResolveExe, LockMutations, CheckUnderLock, StoreWriteFails, CallSteps
    <3>3. \A d \in Calls : d # c => call'[d] = call[d]
      BY <1>2, CallStepIs
    <3> QED
      BY <3>1, <3>2, <3>3, CopiesQuiet
  <2> QED
    BY <1>2, <2>1, <2>2 DEF CallStep
<1>3. CASE FlushStep
  <2>1. CASE FlushLock \/ FlushLook
    BY <2>1, CopiesQuiet DEF FlushLock, FlushLook, Up
  <2>2. CASE FlushDrain
    BY <2>2, CopiesFolded, TasksAre DEF FlushDrain
  <2>3. CASE FlushMerge
    <3>1. DOMAIN store' = DOMAIN store /\ \A id \in DOMAIN store : Content(store'[id]) = Content(store[id])
      <4>1. IsRules(store) /\ flush.deltas \in Counts
        BY TasksAre DEF TypeOK
      <4>2. store' = store \/ store' = Folded(store, flush.deltas)
        BY <2>3 DEF FlushMerge
      <4> QED
        BY <4>1, <4>2, FoldedIs
    <3> QED
      BY <2>3, <3>1, CopiesFolded, TasksAre DEF FlushMerge, Up
  <2>4. CASE FlushExpire \/ FlushPurge
    BY <2>4, CopiesExpire
  <2> QED
    BY <1>3, <2>1, <2>2, <2>3, <2>4 DEF FlushStep
<1>4. CASE StopDrain
  BY <1>4, CopiesFolded, TasksAre DEF StopDrain, Up
<1>5. CASE StopMerge
  <2>1. DOMAIN store' = DOMAIN store /\ \A id \in DOMAIN store : Content(store'[id]) = Content(store[id])
    <3>1. IsRules(store) /\ stopping.deltas \in Counts
      BY TasksAre DEF TypeOK
    <3>2. store' = store \/ store' = Folded(store, stopping.deltas)
      BY <1>5 DEF StopMerge
    <3> QED
      BY <3>1, <3>2, FoldedIs
  <2> QED
    BY <1>5, <2>1, CopiesFolded, TasksAre DEF StopMerge, Up
<1>6. CASE Exit
  BY <1>6, ExitIs DEF CopiesAgree, Up
<1>7. CASE Tick
  BY <1>7, CopiesFolded, TasksAre DEF Tick, Up
<1>8. CASE UNCHANGED <<call, engine, store, clock, stopping>>
  BY <1>8, CopiesQuiet DEF Up
<1> QED
  BY <1>1, <1>2, <1>3, <1>4, <1>5, <1>6, <1>7, <1>8, CopiesRestart
     DEF Next, vars, PacketMatches, CountHit

LEMMA PurgedKept ==
  ASSUME TypeOK, AtRest, PurgedHaveLeft, [Next]_vars
  PROVE  PurgedHaveLeft'
<1> SUFFICES ASSUME flush'.step = "purge", NEW id \in DOMAIN engine'
             PROVE  ~IsExpired(engine'[id], flush'.now)
  BY DEF PurgedHaveLeft, IsExpired
<1>0. IsRules(engine) /\ clock \in Nat /\ flush.now \in Nat /\ flush.now <= clock
  BY TasksAre DEF TypeOK
<1>1. CASE engine' = engine /\ flush' = flush
  BY <1>1 DEF PurgedHaveLeft
<1>2. ASSUME NEW c \in Calls, CallStep(c)
      PROVE  ~IsExpired(engine'[id], flush'.now)
  <2>1. flush' = flush
    BY <1>2, CallStepIs
  <2>2. ~Publish(c)
    <3>1. flush.step = "purge"
      BY <2>1
    <3> QED
      BY <3>1, OneHolder DEF Publish
  <2> QED
    BY <1>1, <1>2, <2>1, <2>2
       DEF CallStep, ResolveExe, LockMutations, CheckUnderLock, StoreWrite, StoreWriteFails
<1>3. CASE FlushStep
  <2>1. FlushExpire
    <3>1. ~FlushDrain /\ ~FlushMerge /\ ~FlushLook /\ ~FlushLock
      <4>1. ~FlushDrain /\ ~FlushMerge
        BY TasksAre DEF FlushDrain, FlushMerge
      <4>2. ~FlushLook
        BY TasksAre DEF FlushLook, NoFlush
      <4>3. ~FlushLock
        BY TasksAre DEF FlushLock
      <4> QED
        BY <4>1, <4>2, <4>3
    <3>2. ~FlushPurge
      BY DEF FlushPurge, Keep, NoFlush
    <3> QED
      BY <1>3, <3>1, <3>2 DEF FlushStep
  <2>2. /\ engine' = Restrict(engine, {x \in DOMAIN engine : ~IsExpired(engine[x], clock)})
        /\ flush'.now = flush.now
    BY <2>1, TasksAre DEF FlushExpire, Keep
  <2>3. id \in DOMAIN engine /\ ~IsExpired(engine[id], clock) /\ engine'[id] = engine[id]
    BY <2>2 DEF Restrict
  <2>4. engine[id] \in Rule
    BY <1>0, <2>3, MapIs
  <2>5. ~IsExpired(engine[id], flush.now)
    BY <1>0, <2>3, <2>4, ExpiredLater
  <2> QED
    BY <2>2, <2>3, <2>5
<1>4. CASE StopDrain
  <2>1. engine' = Folded(engine, hits) /\ flush' = flush /\ hits \in Counts
    BY <1>4 DEF StopDrain, TypeOK
  <2>2. DOMAIN engine' = DOMAIN engine
    BY <1>0, <2>1, FoldedIs
  <2>3. Content(engine'[id]) = Content(engine[id])
    BY <1>0, <2>1, <2>2, FoldedIs
  <2>4. ~IsExpired(engine[id], flush.now)
    BY <2>1, <2>2 DEF PurgedHaveLeft
  <2> QED
    BY <2>1, <2>3, <2>4, SameContent
<1>5. CASE Exit
  BY <1>5, ExitIs DEF NoFlush
<1>6. CASE Restart
  BY <1>6 DEF Restart, AtRest, Up, NoFlush
<1> QED
  BY <1>1, <1>2, <1>3, <1>4, <1>5, <1>6, BeginIs
     DEF Next, vars, PacketMatches, CountHit, StopMerge, Tick

-----------------------------------------------------------------------------
(* The hit counts *)

\* What CountsInOrder says of one rule, and of one call.
CountsAre(id) ==
  /\ id \in DOMAIN engine => engine[id].hits + hits[id] = truth[id]
  /\ id \in DOMAIN store \cap DOMAIN engine => store[id].hits + flush.deltas[id] <= engine[id].hits
Wrote(c) ==
  call[c].step = "publish" /\ call[c].kind # "delete" =>
    \A id \in DOMAIN call[c].rules : id \in DOMAIN store /\ store[id].hits = call[c].rules[id].hits

LEMMA CountsOf ==
  ASSUME CountsInOrder, stopping.step = "run"
  PROVE  (\A id \in Ids : CountsAre(id)) /\ (\A c \in Calls : Wrote(c))
BY DEF CountsInOrder, CountsAre, Wrote

LEMMA CountsNext ==
  ASSUME TypeOK', stopping'.step = "run" =>
                    (\A id \in Ids : CountsAre(id)') /\ (\A c \in Calls : Wrote(c)')
  PROVE  CountsInOrder'
<1>1. DOMAIN engine' \subseteq Ids
  BY DEF TypeOK, IsRules
<1> QED
  BY <1>1 DEF CountsInOrder, CountsAre, Wrote

LEMMA CountsQuiet ==
  ASSUME CountsInOrder, UNCHANGED <<engine, hits, store, truth, stopping>>, flush'.deltas = flush.deltas,
         \A c \in Calls : call'[c].step = "publish" => call'[c] = call[c]
  PROVE  CountsInOrder'
BY DEF CountsInOrder

\* The counts are natural numbers.
LEMMA CountTypes ==
  ASSUME TypeOK, NEW id \in Ids
  PROVE  /\ hits[id] \in Nat /\ truth[id] \in Nat /\ flush.deltas[id] \in Nat /\ stopping.deltas[id] \in Nat
         /\ id \in DOMAIN engine => engine[id].hits \in Nat
         /\ id \in DOMAIN store => store[id].hits \in Nat
<1>1. hits \in Counts /\ truth \in Counts /\ flush.deltas \in Counts /\ stopping.deltas \in Counts
  BY TasksAre DEF TypeOK
<1>2. \A x \in DOMAIN engine : engine[x] \in Rule
  BY DEF TypeOK, IsRules
<1>3. \A x \in DOMAIN store : store[x] \in Rule
  BY DEF TypeOK, IsRules
<1> QED
  BY <1>1, <1>2, <1>3, RuleFields DEF Counts

LEMMA CountsWritten ==
  ASSUME TypeOK, TypeOK', AtRest, WritesAreChecked, CountsInOrder, NEW c \in Calls, StoreWrite(c)
  PROVE  CountsInOrder'
<1> SUFFICES ASSUME stopping'.step = "run"
             PROVE  (\A id \in Ids : CountsAre(id)') /\ (\A d \in Calls : Wrote(d)')
  BY CountsNext
<1>1. /\ call[c].step = "store" /\ UNCHANGED <<engine, hits, flush, stopping, truth>> /\ store' = Rows(c)
      /\ CallStep(c) /\ ~CheckUnderLock(c)
  BY DEF StoreWrite, CallStep, CheckUnderLock
<1>2. /\ \A d \in Calls : d # c => call'[d] = call[d] /\ call[d].step # "publish"
      /\ call'[c].kind = call[c].kind /\ call'[c].rules = call[c].rules
  BY <1>1, OneHolder, CallStepIs
<1>3. /\ \A id \in Ids : CountsAre(id)
      /\ flush.deltas = Zero
  BY <1>1, CountsOf, OneHolder DEF AtRest
<1>4. IsRules(store) /\ IsRules(call[c].rules)
  BY DEF TypeOK
<1>5. CASE call[c].kind = "delete"
  <2>1. store' = Restrict(store, DOMAIN store \ DOMAIN call[c].rules)
    BY <1>1, <1>5 DEF Rows
  <2>2. DOMAIN store' \subseteq DOMAIN store /\ \A id \in DOMAIN store' : store'[id] = store[id]
    BY <2>1 DEF Restrict
  <2> QED
    BY <1>1, <1>2, <1>3, <1>5, <2>2 DEF CountsAre, Wrote
<1>6. CASE call[c].kind # "delete"
  <2>1. DOMAIN store' = (IF call[c].kind = "replace" THEN {} ELSE DOMAIN store) \cup DOMAIN call[c].rules
        /\ \A id \in DOMAIN store' :
             store'[id] = IF id \in DOMAIN call[c].rules THEN call[c].rules[id] ELSE store[id]
    <3>1. CASE call[c].kind = "replace"
      BY <1>1, <1>6, <3>1 DEF Rows
    <3>2. CASE call[c].kind # "replace"
      BY <1>1, <1>6, <3>2 DEF Rows, Overlay
    <3> QED
      BY <3>1, <3>2
  <2>2. ASSUME NEW id \in Ids
        PROVE  CountsAre(id)'
    <3>1. CASE id \in DOMAIN call[c].rules /\ id \in DOMAIN engine
      <4>1. store'[id].hits = engine[id].hits
        BY <1>1, <1>6, <2>1, <3>1 DEF WritesAreChecked
      <4>2. flush.deltas[id] = 0 /\ engine[id].hits \in Nat
        BY <1>3, <3>1, CountTypes DEF Zero
      <4> QED
        BY <1>1, <1>3, <4>1, <4>2 DEF CountsAre
    <3>2. CASE id \notin DOMAIN call[c].rules \/ id \notin DOMAIN engine
      BY <1>1, <1>3, <2>1, <3>2 DEF CountsAre
    <3> QED
      BY <3>1, <3>2
  <2>3. ASSUME NEW d \in Calls
        PROVE  Wrote(d)'
    BY <1>2, <2>1 DEF Wrote
  <2> QED
    BY <2>2, <2>3
<1> QED
  BY <1>5, <1>6

LEMMA CountsPublished ==
  ASSUME TypeOK, TypeOK', AtRest, WritesAreChecked, CountsInOrder, NEW c \in Calls, Publish(c)
  PROVE  CountsInOrder'
<1> SUFFICES ASSUME stopping'.step = "run"
             PROVE  (\A id \in Ids : CountsAre(id)') /\ (\A d \in Calls : Wrote(d)')
  BY CountsNext
<1>1. /\ call[c].step = "publish" /\ UNCHANGED <<store, flush, stopping>> /\ engine' = EngineAfter(c)
      /\ CallStep(c) /\ AfterIs(c)
  BY WhatIsPublished DEF Publish, CallStep
<1>2. /\ \A id \in Ids : CountsAre(id)
      /\ Wrote(c) /\ flush.deltas = Zero
  BY <1>1, CountsOf, OneHolder DEF AtRest
<1>3. ASSUME NEW d \in Calls
      PROVE  call'[d].step # "publish"
  <2>1. call' = [call EXCEPT ![c].step = "done"] /\ "done" \in CallSteps
    BY DEF Publish, CallSteps
  <2>2. call'[d].step = IF d = c THEN "done" ELSE call[d].step
    BY <2>1, CallSteps1
  <2> QED
    BY <1>1, <2>2, OneHolder
\* A rule the engine had keeps its count.
<1>4. ASSUME NEW id \in DOMAIN engine \cap DOMAIN engine'
      PROVE  engine'[id].hits = engine[id].hits
  <2>1. CASE call[c].kind = "delete" \/ call[c].kind # "upsert"
    BY <1>1, <1>4, <2>1 DEF AfterIs
  <2>2. CASE call[c].kind = "upsert"
    <3>1. engine'[id].hits = Source(c, id).hits
      BY <1>1, <1>4, <2>2 DEF AfterIs
    <3>2. id \in DOMAIN call[c].rules => call[c].rules[id].hits = engine[id].hits
      BY <1>1, <1>4, <2>2 DEF WritesAreChecked
    <3> QED
      BY <3>1, <3>2 DEF Source
  <2> QED
    BY <2>1, <2>2
\* A rule it did not have gets the count that was written.
<1>5. ASSUME NEW id \in DOMAIN engine' \ DOMAIN engine
      PROVE  id \in DOMAIN store /\ store[id].hits = engine'[id].hits
  <2>1. id \in DOMAIN call[c].rules /\ call[c].kind # "delete" /\ engine'[id].hits = Source(c, id).hits
    BY <1>1, <1>5 DEF AfterIs
  <2> QED
    BY <1>1, <1>2, <2>1 DEF Wrote, Source
<1>6. ASSUME NEW id \in Ids
      PROVE  CountsAre(id)'
  <2>1. id \in DOMAIN engine' => hits'[id] = hits[id]
    BY DEF Publish
  <2>2. truth'[id] = IF id \in DOMAIN engine' \ DOMAIN engine THEN engine'[id].hits + hits'[id] ELSE truth[id]
    BY DEF Publish
  <2>3. flush'.deltas[id] = 0
    BY <1>1, <1>2 DEF Zero
  <2>4. CASE id \in DOMAIN engine \cap DOMAIN engine'
    BY <1>1, <1>2, <1>4, <2>1, <2>2, <2>4 DEF CountsAre
  <2>5. CASE id \in DOMAIN engine' \ DOMAIN engine
    <3>1. store'[id].hits = engine'[id].hits /\ engine'[id].hits \in Nat
      BY <1>1, <1>5, <2>5, RuleFields DEF TypeOK, IsRules
    <3> QED
      BY <2>2, <2>3, <2>5, <3>1 DEF CountsAre
  <2>6. CASE id \notin DOMAIN engine'
    BY <2>6 DEF CountsAre
  <2> QED
    BY <2>4, <2>5, <2>6
<1> QED
  BY <1>3, <1>6 DEF Wrote

LEMMA CountsFlushed ==
  ASSUME TypeOK, TypeOK', AtRest, CountsInOrder, FlushStep
  PROVE  CountsInOrder'
<1> SUFFICES ASSUME stopping'.step = "run"
             PROVE  (\A id \in Ids : CountsAre(id)') /\ (\A d \in Calls : Wrote(d)')
  BY CountsNext
<1>1. UNCHANGED <<call, stopping, truth>> /\ stopping.step = "run"
  BY FlushIs
<1>2. (\A id \in Ids : CountsAre(id)) /\ (\A c \in Calls : Wrote(c))
  BY <1>1, CountsOf
<1>3. \A c \in Calls : Wrote(c)'
  <2>1. CASE FlushLock
    BY <1>1, <1>2, <2>1 DEF FlushLock, Wrote
  <2>2. CASE ~FlushLock
    BY <1>1, <2>2, FlushIs DEF Wrote
  <2> QED
    BY <2>1, <2>2
<1>4. ASSUME NEW id \in Ids
      PROVE  CountsAre(id)'
  <2>0. /\ hits[id] \in Nat /\ flush.deltas[id] \in Nat
        /\ id \in DOMAIN engine => engine[id].hits \in Nat
        /\ id \in DOMAIN store => store[id].hits \in Nat
    BY CountTypes
  <2>00. IsRules(engine) /\ IsRules(store) /\ hits \in Counts /\ flush.deltas \in Counts
    BY TasksAre DEF TypeOK
  <2>000. CountsAre(id)
    BY <1>2
  <2>1. CASE FlushLock \/ FlushLook
    <3>1. UNCHANGED <<engine, hits, store>>
      BY <2>1 DEF FlushLock, FlushLook
    <3>2. flush'.deltas = flush.deltas
      BY <2>1, TasksAre DEF FlushLock, FlushLook, NoFlush, AtRest
    <3> QED
      BY <1>1, <2>000, <3>1, <3>2 DEF CountsAre
  <2>2. CASE FlushDrain
    <3>1. engine' = Folded(engine, hits) /\ hits' = Zero /\ store' = store
      BY <2>2 DEF FlushDrain
    <3>2. flush'.deltas = hits /\ flush.deltas = Zero
      BY <2>2, TasksAre DEF FlushDrain, AtRest
    <3>3. DOMAIN engine' = DOMAIN engine
          /\ (id \in DOMAIN engine => engine'[id].hits = engine[id].hits + hits[id])
      BY <2>00, <3>1, FoldedIs
    <3>4. hits'[id] = 0 /\ flush'.deltas[id] = hits[id] /\ flush.deltas[id] = 0
      BY <3>1, <3>2 DEF Zero
    <3> QED
      BY <1>1, <2>0, <2>000, <3>1, <3>3, <3>4 DEF CountsAre
  <2>3. CASE FlushMerge
    <3>1. UNCHANGED <<engine, hits>>
      BY <2>3 DEF FlushMerge
    <3>2. flush'.deltas[id] = 0
      BY <2>3, TasksAre DEF FlushMerge, Zero
    <3>3. DOMAIN store' = DOMAIN store
          /\ (id \in DOMAIN store => store'[id].hits \in {store[id].hits, store[id].hits + flush.deltas[id]})
      <4>1. store' = store \/ store' = Folded(store, flush.deltas)
        BY <2>3 DEF FlushMerge
      <4> QED
        BY <2>00, <4>1, FoldedIs
    <3> QED
      BY <1>1, <2>0, <2>000, <3>1, <3>2, <3>3 DEF CountsAre
  <2>4. CASE FlushExpire
    <3>1. /\ engine' = Restrict(engine, {x \in DOMAIN engine : ~IsExpired(engine[x], clock)})
          /\ UNCHANGED <<hits, store>>
      BY <2>4 DEF FlushExpire, Keep
    <3>2. flush'.deltas = flush.deltas
      BY <2>4, TasksAre DEF FlushExpire, Keep
    <3>3. DOMAIN engine' \subseteq DOMAIN engine /\ \A x \in DOMAIN engine' : engine'[x] = engine[x]
      BY <3>1 DEF Restrict
    <3> QED
      BY <1>1, <2>000, <3>1, <3>2, <3>3 DEF CountsAre
  <2>5. CASE FlushPurge
    <3>1. UNCHANGED <<engine, hits>> /\ flush' = NoFlush /\ flush.step = "purge"
      BY <2>5 DEF FlushPurge, Keep
    <3>2. store' = store
          \/ store' = Restrict(store, {x \in DOMAIN store : ~IsExpired(store[x], flush.now)})
      BY <2>5 DEF FlushPurge, Keep
    <3>3. DOMAIN store' \subseteq DOMAIN store /\ \A x \in DOMAIN store' : store'[x] = store[x]
      BY <3>2 DEF Restrict
    <3>4. flush'.deltas = flush.deltas
      BY <3>1 DEF NoFlush, AtRest
    <3> QED
      BY <1>1, <2>000, <3>1, <3>3, <3>4 DEF CountsAre
  <2> QED
    BY <2>1, <2>2, <2>3, <2>4, <2>5 DEF FlushStep
<1> QED
  BY <1>3, <1>4

LEMMA CountsRestart ==
  ASSUME TypeOK, TypeOK', AtRest, Restart
  PROVE  CountsInOrder'
<1> SUFFICES ASSUME stopping'.step = "run"
             PROVE  (\A id \in Ids : CountsAre(id)') /\ (\A d \in Calls : Wrote(d)')
  BY CountsNext
<1>1. hits' = Zero /\ flush' = NoFlush /\ lock = Free /\ call' = call
  BY DEF Restart, AtRest, Up
<1>2. \A c \in Calls : Wrote(c)'
  BY <1>1, OneHolder DEF Wrote
<1>3. engine' = Restrict(store', {id \in DOMAIN store' : Loadable(store'[id])})
  BY DEF Restart, Load, Keep
<1>4. DOMAIN engine' \subseteq DOMAIN store' /\ \A id \in DOMAIN engine' : engine'[id] = store'[id]
  BY <1>3 DEF Restrict
<1>5. truth' = [id \in Ids |-> IF id \in DOMAIN store' THEN store'[id].hits ELSE truth[id]]
  BY DEF Restart
<1>6. ASSUME NEW id \in Ids
      PROVE  CountsAre(id)'
  <2>1. hits'[id] = 0 /\ flush'.deltas[id] = 0
    BY <1>1 DEF NoFlush, Zero
  <2>2. id \in DOMAIN store' => store'[id].hits \in Nat
    BY RuleFields DEF TypeOK, IsRules
  <2> QED
    BY <1>4, <1>5, <2>1, <2>2 DEF CountsAre
<1> QED
  BY <1>2, <1>6

LEMMA CountsKept ==
  ASSUME TypeOK, TypeOK', AtRest, WritesAreChecked, CountsInOrder, [Next]_vars
  PROVE  CountsInOrder'
<1>1. ASSUME NEW c \in Calls, BeginWrite(c) \/ BeginDelete(c)
      PROVE  CountsInOrder'
  BY <1>1, BeginIs, CountsQuiet
<1>2. ASSUME NEW c \in Calls, ResolveExe(c) \/ LockMutations(c) \/ CheckUnderLock(c) \/ StoreWriteFails(c)
      PROVE  CountsInOrder'
  <2>1. UNCHANGED <<engine, hits, store, truth, flush, stopping>>
    BY <1>2 DEF ResolveExe, LockMutations, CheckUnderLock, StoreWriteFails
  <2>2. call'[c].step # "publish"
    <3>1. CASE CheckUnderLock(c) /\ ~TimedToAlways(call[c].rules)
      <4>1. call' = [call EXCEPT ![c] = [step |-> "store", kind |-> call[c].kind, rules |-> Checked(c)]]
        BY <3>1 DEF CheckUnderLock
      <4> QED
        BY <4>1, CallIs
    <3>2. CASE \E step \in CallSteps \ {"publish"} : call' = [call EXCEPT ![c].step = step]
      BY <3>2, CallIs
    <3> QED
      BY <1>2, <3>1, <3>2 DEF ResolveExe, LockMutations, CheckUnderLock, StoreWriteFails, CallSteps
  <2>3. \A d \in Calls : d # c => call'[d] = call[d]
    BY <1>2, CallStepIs DEF CallStep
  <2> QED
    BY <2>1, <2>2, <2>3, CountsQuiet
<1>3. CASE CountHit
  <2> SUFFICES ASSUME stopping'.step = "run"
               PROVE  (\A id \in Ids : CountsAre(id)') /\ (\A d \in Calls : Wrote(d)')
    BY CountsNext
  <2>1. /\ UNCHANGED <<engine, call, flush, stopping, store>> /\ packet \in Ids
        /\ hits' = [hits EXCEPT ![packet] = @ + 1] /\ truth' = [truth EXCEPT ![packet] = @ + 1]
    BY <1>3 DEF CountHit, TypeOK
  <2>2. (\A id \in Ids : CountsAre(id)) /\ (\A c \in Calls : Wrote(c))
    BY <2>1, CountsOf
  <2>3. ASSUME NEW id \in Ids
        PROVE  CountsAre(id)'
    <3>1. \/ hits'[id] = hits[id] /\ truth'[id] = truth[id]
          \/ hits'[id] = hits[id] + 1 /\ truth'[id] = truth[id] + 1
      BY <2>1 DEF TypeOK, Counts
    <3>2. hits[id] \in Nat /\ truth[id] \in Nat /\ (id \in DOMAIN engine => engine[id].hits \in Nat)
      BY CountTypes
    <3> QED
      BY <2>1, <2>2, <3>1, <3>2 DEF CountsAre
  <2> QED
    BY <2>1, <2>2, <2>3 DEF Wrote
<1>4. CASE StopDrain \/ StopMerge \/ Exit
  BY <1>4, ExitIs DEF CountsInOrder, StopDrain, StopMerge
<1>5. CASE UNCHANGED <<call, engine, hits, store, truth, flush, stopping>>
  BY <1>5, CountsQuiet
<1> QED
  BY <1>1, <1>2, <1>3, <1>4, <1>5, CountsWritten, CountsPublished, CountsFlushed, CountsRestart
     DEF Next, CallStep, vars, PacketMatches, Tick

-----------------------------------------------------------------------------
(* The theorems *)

LEMMA StartsRight == Init => StoreInv
<1> SUFFICES ASSUME Init PROVE StoreInv
  OBVIOUS
<1>1. TypeOK
  BY StartsTyped
<1>2. \A c \in Calls : call[c].step = "idle" /\ call[c].rules = Empty
  BY DEF Init, NoCall
<1>3. AtRest
  BY <1>2, EmptyIsMap DEF Init, AtRest, NoFlush, Up, Running
<1>4. WritesAreChecked /\ PurgedHaveLeft
  BY <1>2 DEF Init, WritesAreChecked, PurgedHaveLeft, NoFlush
<1>5. Agree(engine, store, clock)
  <2>1. engine = Empty /\ DOMAIN engine = {}
    BY EmptyIsMap DEF Init
  <2>2. \A id \in DOMAIN store : ~Loadable(store[id])
    <3>1. CASE store = Empty
      BY <3>1, EmptyIsMap
    <3>2. CASE store = Legacy
      <4>1. \A id \in DOMAIN Legacy : Legacy[id] = [exe |-> BadExe, made |-> 0, secs |-> 0, hits |-> 0]
        BY DEF Legacy
      <4>2. \A id \in DOMAIN Legacy : Legacy[id].exe = BadExe
        BY <4>1
      <4> QED
        BY <3>2, <4>2 DEF Loadable
    <3> QED
      BY <3>1, <3>2 DEF Init
  <2> QED
    BY <2>1, <2>2 DEF Agree
<1>6. CopiesAgree
  BY <1>2, <1>5 DEF CopiesAgree
<1>7. CountsInOrder
  BY <1>2, EmptyIsMap DEF Init, CountsInOrder
<1> QED
  BY <1>1, <1>3, <1>4, <1>6, <1>7 DEF StoreInv

LEMMA StaysRight == StoreInv /\ [Next]_vars => StoreInv'
<1> SUFFICES ASSUME StoreInv, [Next]_vars PROVE StoreInv'
  OBVIOUS
<1>1. TypeOK /\ AtRest /\ WritesAreChecked /\ CopiesAgree /\ PurgedHaveLeft /\ CountsInOrder
  BY DEF StoreInv
<1>2. TypeOK'
  BY <1>1, StaysTyped
<1> QED
  BY <1>1, <1>2, AtRestKept, WritesKept, CopiesKept, PurgedKept, CountsKept DEF StoreInv

\* The inductive invariant: between any two accesses of the calls, the flush,
\* the packet path, the shutdown and a crash, what each has read still holds.
THEOREM StoreInvHolds == Spec => []StoreInv
BY StartsRight, StaysRight, PTL DEF Spec

\* What the engine enforces is what is stored, and a row it does not hold is
\* expired or quarantined, except between the two halves of a write
\* (ipc/mod.rs writes the rows and then publishes, under the mutations lock).
THEOREM EngineStoreAgreeHolds == Spec => []EngineStoreAgree
<1>1. StoreInv => EngineStoreAgree
  BY DEF StoreInv, CopiesAgree, EngineStoreAgree
<1> QED
  BY <1>1, StoreInvHolds, PTL

\* No hit is counted twice before shutdown begins, whatever clients echo back
\* (preserve_server_owned) and whenever the flush drains and merges.
THEOREM HitsCountedOnceHolds == Spec => []HitsCountedOnce
<1>1. StoreInv => HitsCountedOnce
  <2> SUFFICES ASSUME StoreInv, stopping.step = "run" PROVE HitsCountedOnce
    BY DEF HitsCountedOnce
  <2>1. TypeOK /\ (\A id \in Ids : CountsAre(id)) /\ DOMAIN engine \subseteq Ids
    BY CountsOf DEF StoreInv, TypeOK, IsRules
  <2>2. ASSUME NEW id \in DOMAIN store \cap DOMAIN engine
        PROVE  store[id].hits <= truth[id]
    <3>1. id \in Ids /\ CountsAre(id)
      BY <2>1
    <3>2. /\ hits[id] \in Nat /\ truth[id] \in Nat /\ flush.deltas[id] \in Nat
          /\ engine[id].hits \in Nat /\ store[id].hits \in Nat
      BY <2>1, <3>1, CountTypes
    <3> QED
      BY <3>1, <3>2 DEF CountsAre
  <2> QED
    BY <2>1, <2>2 DEF HitsCountedOnce, CountsAre
<1> QED
  BY <1>1, StoreInvHolds, PTL

\* No step turns a timed rule into an Always one in place: the check made under
\* the lock (apply_rules_checked) still holds when the rules are published.
THEOREM TimedStaysTimedHolds == Spec => TimedStaysTimed
<1>1. StoreInv /\ [Next]_vars =>
        [\A id \in DOMAIN engine \cap DOMAIN engine' : engine[id].secs > 0 => engine'[id].secs # Always]_vars
  <2> SUFFICES ASSUME StoreInv, [Next]_vars, NEW id \in DOMAIN engine \cap DOMAIN engine',
                      engine[id].secs > 0
               PROVE  engine'[id].secs # Always
    OBVIOUS
  <2>0. TypeOK /\ AtRest /\ WritesAreChecked /\ IsRules(engine) /\ hits \in Counts
    BY DEF StoreInv, TypeOK
  <2>1. CASE engine' = engine
    BY <2>1 DEF Always
  <2>2. CASE engine' = Folded(engine, hits)
    <3>1. engine'[id].secs = engine[id].secs
      BY <2>0, <2>2, FoldedIs
    <3> QED
      BY <3>1 DEF Always
  <2>3. CASE FlushExpire
    <3>1. engine' = Restrict(engine, {x \in DOMAIN engine : ~IsExpired(engine[x], clock)})
      BY <2>3 DEF FlushExpire, Keep
    <3>2. engine'[id] = engine[id]
      BY <3>1 DEF Restrict
    <3> QED
      BY <3>2 DEF Always
  <2>4. ASSUME NEW c \in Calls, Publish(c)
        PROVE  engine'[id].secs # Always
    <3>1. engine' = EngineAfter(c) /\ AfterIs(c) /\ call[c].step = "publish"
      BY <2>0, <2>4, WhatIsPublished DEF Publish
    <3>2. CASE call[c].kind = "delete"
      BY <3>1, <3>2 DEF AfterIs, Always
    <3>3. CASE call[c].kind # "delete"
      <4>1. engine'[id].secs = Source(c, id).secs
        BY <3>1, <3>3 DEF AfterIs
      <4>2. id \in DOMAIN call[c].rules => call[c].rules[id].secs # Always
        BY <2>0, <3>1, <3>3 DEF WritesAreChecked
      <4> QED
        BY <4>1, <4>2 DEF Source, Always
    <3> QED
      BY <3>2, <3>3
  <2>5. CASE Exit
    BY <2>0, <2>5, ExitIs, EmptyIsMap
  <2>6. CASE Restart
    BY <2>0, <2>6, EmptyIsMap DEF Restart, AtRest, Up
  <2>7. CASE \E c \in Calls : BeginWrite(c) \/ BeginDelete(c)
    BY <2>0, <2>1, <2>7, BeginIs
  <2> QED
    BY <2>1, <2>2, <2>3, <2>4, <2>5, <2>6, <2>7
       DEF Next, CallStep, ResolveExe, LockMutations, CheckUnderLock, StoreWrite, StoreWriteFails,
           FlushStep, FlushLock, FlushDrain, FlushMerge, FlushLook, FlushPurge, Keep, PacketMatches,
           CountHit, StopDrain, StopMerge, Tick, vars
<1> QED
  BY <1>1, StoreInvHolds, PTL DEF Spec, TimedStaysTimed

=============================================================================
