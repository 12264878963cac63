------------------------------ MODULE RuleStore ------------------------------
(***************************************************************************)
(* The two copies of the rule set and everybody who writes them: the       *)
(* engine's rules and hit deltas in memory (cfc-daemon/src/decision.rs),   *)
(* the sqlite rows (storage.rs), the rule-writing RPCs (ipc/mod.rs), the   *)
(* 30-second flush task (maintenance.rs), the packet path that counts hits,*)
(* the shutdown flush (main.rs), and crashes.                              *)
(*                                                                         *)
(* The mutations lock serialises the RPC writes and the flush; the packet  *)
(* path and the shutdown flush do not take it.  Steps are the accesses     *)
(* another thread can come between.                                        *)
(*                                                                         *)
(* Abstractions.  A rule is the executable it names, its creation time,    *)
(* its lifetime and its hit count; a row under BadExe is a stored rule the *)
(* load-time gates quarantine.  Whether an executable path passes          *)
(* resolve_policy is the file system's answer at that moment.  The rule a  *)
(* prompt verdict persists is an upsert under an id nobody else knows yet. *)
(***************************************************************************)
EXTENDS Integers, FiniteSets, Functions

CONSTANTS
  Ids,          \* rule ids
  Exes, BadExe, \* executables rules name; one no gate accepts
  Lifetimes,    \* durations: Always, UntilRestart or a number of seconds
  Calls,        \* rule-writing RPCs made during a behaviour
  Kinds,        \* which RPCs: a subset of AllKinds
  EchoedHits,   \* hit counts clients send along
  StopKinds,    \* how the daemon may end: "crash", "signal"
  MaxTime, MaxHits, MaxFailures, MaxStops  \* bounds on the environment

AllKinds == {"upsert", "apply", "replace", "delete"}
Always == 0
UntilRestart == -1
Free == "free"    \* nobody holds the mutations lock
NoId == "none"    \* no packet is between its match and its credit

ASSUME RuleStoreAssumption ==
  /\ Ids # {} /\ NoId \notin Ids /\ {Free, "flush"} \cap Calls = {}
  /\ BadExe \notin Exes /\ Lifetimes \subseteq Nat \cup {UntilRestart} /\ EchoedHits \subseteq Nat
  /\ Kinds \subseteq AllKinds /\ StopKinds \subseteq {"crash", "signal"}
  /\ MaxTime \in Nat /\ MaxHits \in Nat /\ MaxFailures \in Nat /\ MaxStops \in Nat

VARIABLES
  engine,   \* id -> rule, EngineInner::rules
  hits,     \* EngineInner::hits, 0 for an absent entry
  store,    \* id -> rule, the rows
  lock,     \* who holds the mutations lock, or Free
  call,     \* each RPC: its step, kind and rules
  flush,    \* the flush task: its step, drained deltas and captured time
  stopping, \* main's shutdown: its step and drained deltas
  packet,   \* the id a packet matched and has not been credited for, or NoId
  truth,    \* history: the hits each rule really had
  clock, failures, stops, credited

daemon == <<engine, hits, lock, call, flush, stopping, packet>>
bounds == <<failures, stops, credited>>
vars   == <<daemon, store, truth, clock, bounds>>

Rule == [exe : Exes \cup {BadExe}, made : Nat, secs : Lifetimes \cup {Always}, hits : Nat]
Empty == [x \in {} |-> x]
Zero  == [x \in Ids |-> 0]

NoCall  == [step |-> "idle", kind |-> "none", rules |-> Empty]
NoFlush == [step |-> "idle", deltas |-> Zero, now |-> 0]
Running == [step |-> "run", deltas |-> Zero]

\* Rule::is_expired.
IsExpired(r, now) == r.secs > 0 /\ r.made + r.secs <= now

\* quarantine_reason, at load only.
Loadable(r) == r.exe # BadExe

\* What a rule says, its hit count left out.
Content(r) == <<r.exe, r.made, r.secs>>

Keep(f, P(_)) == Restrict(f, {x \in DOMAIN f : P(f[x])})

\* f with the entries of g added or replaced.
Overlay(f, g) ==
  [x \in DOMAIN f \cup DOMAIN g |-> IF x \in DOMAIN g THEN g[x] ELSE f[x]]

\* Counts with the deltas added, rule by rule.
Folded(rs, d) == [x \in DOMAIN rs |-> [rs[x] EXCEPT !.hits = @ + d[x]]]

Legacy == [x \in {CHOOSE y \in Ids : TRUE} |->
             [exe |-> BadExe, made |-> 0, secs |-> 0, hits |-> 0]]

Init ==
  /\ store \in {Empty, Legacy}
  /\ engine = Empty /\ hits = Zero /\ lock = Free
  /\ call = [c \in Calls |-> NoCall]
  /\ flush = NoFlush /\ stopping = Running
  /\ packet = NoId /\ truth = Zero
  /\ clock = 0 /\ failures = 0 /\ stops = 0 /\ credited = 0

Up == stopping.step # "down"

\* A storage error: the transaction changes nothing.
Fails == failures < MaxFailures /\ failures' = failures + 1

-----------------------------------------------------------------------------
(* Rule-writing RPCs *)

\* keeps_stored_exe, read before the lock is taken.
KeepsStoredExe(id, exe) == id \in DOMAIN engine /\ engine[id].exe = exe

\* The rules a call sends: one for an upsert, some for a batch.  rule_from_pb
\* keeps a past creation time and cuts a future one to now.
Sent(kind) ==
  {f \in UNION {[S -> [exe : Exes, made : 0..clock, secs : Lifetimes, hits : EchoedHits]]
                  : S \in (SUBSET Ids) \ {{}}} :
     kind = "upsert" => Cardinality(DOMAIN f) = 1}

BeginWrite(c) ==
  /\ Up /\ call[c].step = "idle"
  /\ \E kind \in Kinds \ {"delete"} : \E f \in Sent(kind) :
       LET changed == {id \in DOMAIN f : ~KeepsStoredExe(id, f[id].exe)} IN
       call' = [call EXCEPT ![c] = [step |-> IF changed = {} THEN "lock" ELSE "resolve",
                                    kind |-> kind, rules |-> f]]
  /\ UNCHANGED <<engine, hits, lock, flush, stopping, packet, store, truth, clock, bounds>>

\* A delete names an id only.
Named == [exe |-> BadExe, made |-> 0, secs |-> Always, hits |-> 0]

BeginDelete(c) ==
  /\ Up /\ call[c].step = "idle" /\ "delete" \in Kinds
  /\ \E id \in Ids :
       call' = [call EXCEPT ![c] = [step |-> "lock", kind |-> "delete",
                                    rules |-> [x \in {id} |-> Named]]]
  /\ UNCHANGED <<engine, hits, lock, flush, stopping, packet, store, truth, clock, bounds>>

\* resolve_exe_off_thread, awaited: the paths are accepted, or the call refused.
ResolveExe(c) ==
  /\ Up /\ call[c].step = "resolve"
  /\ \/ call' = [call EXCEPT ![c].step = "lock"]
     \/ call' = [call EXCEPT ![c].step = "refused"]
  /\ UNCHANGED <<engine, hits, lock, flush, stopping, packet, store, truth, clock, bounds>>

LockMutations(c) ==
  /\ Up /\ call[c].step = "lock" /\ lock = Free
  /\ lock' = c
  /\ call' = [call EXCEPT ![c].step = IF call[c].kind = "delete" THEN "store" ELSE "check"]
  /\ UNCHANGED <<engine, hits, flush, stopping, packet, store, truth, clock, bounds>>

\* preserve_server_owned.
\* Faulty variant: the client's own count is kept.
PreserveCreation(id, r) ==
  IF id \in DOMAIN engine THEN [r EXCEPT !.made = engine[id].made] ELSE r
PreserveServerOwned(id, r) ==
  IF id \in DOMAIN engine
    THEN [r EXCEPT !.hits = engine[id].hits, !.made = engine[id].made] ELSE r

\* A timed rule would become Always in place.
\* Faulty variant: looks at the first rule sent only.
TimedToAlwaysFirst(f) ==
  LET id == CHOOSE x \in DOMAIN f : TRUE IN
  id \in DOMAIN engine /\ engine[id].secs > 0 /\ f[id].secs = Always
TimedToAlways(f) ==
  \E id \in DOMAIN f : id \in DOMAIN engine /\ engine[id].secs > 0 /\ f[id].secs = Always

\* What a call that passes writes: what it was sent, with the counts and
\* creation times of the rules it replaces.
Checked(c) == [id \in DOMAIN call[c].rules |-> PreserveServerOwned(id, call[c].rules[id])]

CheckUnderLock(c) ==
  /\ Up /\ call[c].step = "check"
  /\ IF TimedToAlways(call[c].rules)
       THEN lock' = Free /\ call' = [call EXCEPT ![c].step = "refused"]
       ELSE /\ lock' = lock
            /\ call' = [call EXCEPT ![c] = [step |-> "store", kind |-> call[c].kind,
                                            rules |-> Checked(c)]]
  /\ UNCHANGED <<engine, hits, flush, stopping, packet, store, truth, clock, bounds>>

\* The rows after an upsert, apply_rules or delete.
Rows(c) ==
  CASE call[c].kind = "delete"  -> Restrict(store, DOMAIN store \ DOMAIN call[c].rules)
    [] call[c].kind = "replace" -> call[c].rules
    [] OTHER                    -> Overlay(store, call[c].rules)

\* One transaction.
StoreWrite(c) ==
  /\ Up /\ call[c].step = "store"
  /\ store' = Rows(c)
  /\ IF call[c].kind = "delete" /\ DOMAIN call[c].rules \cap DOMAIN store = {}
       THEN lock' = Free /\ call' = [call EXCEPT ![c].step = "done"]  \* not found
       ELSE lock' = lock /\ call' = [call EXCEPT ![c].step = "publish"]
  /\ UNCHANGED <<engine, hits, flush, stopping, packet, truth, clock, bounds>>

\* Faulty variant: the error is logged and the rule published all the same.
FailureIgnored(c) ==
  /\ Up /\ call[c].step = "store" /\ Fails
  /\ lock' = lock
  /\ call' = [call EXCEPT ![c].step = "publish"]
  /\ UNCHANGED <<engine, hits, flush, stopping, packet, store, truth, clock, stops, credited>>
StoreWriteFails(c) ==
  /\ Up /\ call[c].step = "store" /\ Fails
  /\ lock' = Free
  /\ call' = [call EXCEPT ![c].step = "refused"]
  /\ UNCHANGED <<engine, hits, flush, stopping, packet, store, truth, clock, stops, credited>>

\* The rules a batch publishes: replace_rules takes the engine's own counts
\* and creation times for the ids it has.
Published(c) ==
  LET base == IF call[c].kind = "replace" THEN Empty ELSE engine
      all  == Overlay(base, call[c].rules)
  IN  IF call[c].kind = "upsert" THEN all
      ELSE [id \in DOMAIN all |-> PreserveServerOwned(id, all[id])]

\* The engine's rules after an upsert, a batch or a delete.
EngineAfter(c) ==
  IF call[c].kind = "delete"
    THEN Restrict(engine, DOMAIN engine \ DOMAIN call[c].rules)
    ELSE Published(c)

\* Engine::upsert_rule, replace_rules, remove_rule.  A batch drops the deltas
\* of rules that are gone; an upsert or a delete leaves them.
Publish(c) ==
  /\ Up /\ call[c].step = "publish"
  /\ engine' = EngineAfter(c)
  /\ hits' = IF call[c].kind \in {"apply", "replace"}
               THEN [id \in Ids |-> IF id \in DOMAIN engine' THEN hits[id] ELSE 0]
               ELSE hits
  /\ truth' = [id \in Ids |->
       IF id \in DOMAIN engine' \ DOMAIN engine
         THEN engine'[id].hits + hits'[id] ELSE truth[id]]
  /\ lock' = Free
  /\ call' = [call EXCEPT ![c].step = "done"]
  /\ UNCHANGED <<flush, stopping, packet, store, clock, bounds>>

-----------------------------------------------------------------------------
(* The packet path *)

\* evaluate picks a live rule under the rules lock, and credits it after.
PacketMatches(id) ==
  /\ Up /\ packet = NoId /\ credited < MaxHits
  /\ id \in DOMAIN engine /\ ~IsExpired(engine[id], clock)
  /\ packet' = id
  /\ UNCHANGED <<engine, hits, lock, call, flush, stopping, store, truth, clock, bounds>>

CountHit ==
  /\ Up /\ packet # NoId
  /\ hits' = [hits EXCEPT ![packet] = @ + 1]
  /\ truth' = [truth EXCEPT ![packet] = @ + 1]
  /\ packet' = NoId /\ credited' = credited + 1
  /\ UNCHANGED <<engine, lock, call, flush, stopping, store, clock, failures, stops>>

-----------------------------------------------------------------------------
(* The flush task *)

FlushLock ==
  /\ Up /\ flush.step = "idle" /\ lock = Free
  /\ lock' = "flush" /\ flush' = [flush EXCEPT !.step = "drain"]
  /\ UNCHANGED <<engine, hits, call, stopping, packet, store, truth, clock, bounds>>

\* drain_hits: folded into the engine's rules, returned and reset.
FlushDrain ==
  /\ Up /\ flush.step = "drain"
  /\ engine' = Folded(engine, hits) /\ hits' = Zero
  /\ flush' = [flush EXCEPT !.step = "merge", !.deltas = hits]
  /\ UNCHANGED <<lock, call, stopping, packet, store, truth, clock, bounds>>

\* merge_hit_counts; a failure is only logged.
FlushMerge ==
  /\ Up /\ flush.step = "merge"
  /\ \/ store' = Folded(store, flush.deltas) /\ UNCHANGED failures
     \/ Fails /\ UNCHANGED store
  /\ flush' = [flush EXCEPT !.step = "look", !.deltas = Zero]
  /\ UNCHANGED <<engine, hits, lock, call, stopping, packet, truth, clock, stops, credited>>

\* Is anything in memory expired, at a time captured here?
\* Faulty variant: the guard is taken once, outside the loop.
LookKeepsLock ==
  /\ Up /\ flush.step = "look"
  /\ IF \E id \in DOMAIN engine : IsExpired(engine[id], clock)
       THEN flush' = [step |-> "expire", deltas |-> flush.deltas, now |-> clock]
       ELSE flush' = NoFlush
  /\ UNCHANGED <<engine, hits, lock, call, stopping, packet, store, truth, clock, bounds>>
FlushLook ==
  /\ Up /\ flush.step = "look"
  /\ IF \E id \in DOMAIN engine : IsExpired(engine[id], clock)
       THEN flush' = [step |-> "expire", deltas |-> flush.deltas, now |-> clock] /\ lock' = lock
       ELSE flush' = NoFlush /\ lock' = Free
  /\ UNCHANGED <<engine, hits, call, stopping, packet, store, truth, clock, bounds>>

\* notify_rules_expired reads the clock again.
FlushExpire ==
  /\ Up /\ flush.step = "expire"
  /\ engine' = Keep(engine, LAMBDA r : ~IsExpired(r, clock))
  /\ flush' = [flush EXCEPT !.step = "purge"]
  /\ UNCHANGED <<hits, lock, call, stopping, packet, store, truth, clock, bounds>>

FlushPurge ==
  /\ Up /\ flush.step = "purge"
  /\ \/ store' = Keep(store, LAMBDA r : ~IsExpired(r, flush.now)) /\ UNCHANGED failures
     \/ Fails /\ UNCHANGED store
  /\ flush' = NoFlush /\ lock' = Free
  /\ UNCHANGED <<engine, hits, call, stopping, packet, truth, clock, stops, credited>>

-----------------------------------------------------------------------------
(* Shutdown, crash and restart *)

\* main leaves its select loop; the IPC server and the flush task run on.
StopDrain ==
  /\ stopping.step = "run" /\ "signal" \in StopKinds /\ stops < MaxStops
  /\ engine' = Folded(engine, hits) /\ hits' = Zero
  /\ stopping' = [step |-> "merge", deltas |-> hits]
  /\ UNCHANGED <<lock, call, flush, packet, store, truth, clock, bounds>>

StopMerge ==
  /\ stopping.step = "merge"
  /\ \/ store' = Folded(store, stopping.deltas) /\ UNCHANGED failures
     \/ Fails /\ UNCHANGED store
  /\ stopping' = [step |-> "exit", deltas |-> Zero]
  /\ UNCHANGED <<engine, hits, lock, call, flush, packet, truth, clock, stops, credited>>

\* The process ends, at the end of main or by a crash anywhere.
Exit ==
  /\ Up /\ stops < MaxStops /\ (stopping.step = "exit" \/ "crash" \in StopKinds)
  /\ stops' = stops + 1
  /\ stopping' = [step |-> "down", deltas |-> Zero]
  /\ engine' = Empty /\ hits' = Zero /\ lock' = Free /\ flush' = NoFlush /\ packet' = NoId
  /\ call' = [c \in Calls |-> IF call[c].step = "idle" THEN call[c]
                              ELSE [NoCall EXCEPT !.step = "done"]]
  /\ UNCHANGED <<store, truth, clock, failures, credited>>

\* RuleStore::open purges what was until restart or expired, then the loadable rows are loaded.
Load(rows) == Keep(rows, Loadable)

Restart ==
  /\ stopping.step = "down"
  /\ store' = Keep(store, LAMBDA r : r.secs # UntilRestart /\ ~IsExpired(r, clock))
  /\ engine' = Load(store')
  /\ truth' = [id \in Ids |-> IF id \in DOMAIN store' THEN store'[id].hits ELSE truth[id]]
  /\ stopping' = Running
  /\ UNCHANGED <<hits, lock, call, flush, packet, clock, bounds>>

Tick ==
  /\ clock < MaxTime /\ clock' = clock + 1
  /\ UNCHANGED <<daemon, store, truth, bounds>>

CallStep(c) == \/ ResolveExe(c) \/ LockMutations(c) \/ CheckUnderLock(c)
               \/ StoreWrite(c) \/ StoreWriteFails(c) \/ Publish(c)
FlushStep   == FlushLock \/ FlushDrain \/ FlushMerge \/ FlushLook \/ FlushExpire \/ FlushPurge

Next ==
  \/ \E c \in Calls : BeginWrite(c) \/ BeginDelete(c) \/ CallStep(c)
  \/ \E id \in Ids : PacketMatches(id)
  \/ CountHit \/ FlushStep \/ StopDrain \/ StopMerge \/ Exit \/ Restart \/ Tick

Spec == Init /\ [][Next]_vars

\* The runtime polls its tasks, systemd restarts the daemon, and the lock
\* (parking_lot, eventually fair) is not denied to a waiter for ever.
Fairness ==
  /\ WF_vars(Restart) /\ WF_vars(Tick)
  /\ SF_vars(FlushLock) /\ WF_vars(FlushStep)
  /\ \A c \in Calls : SF_vars(LockMutations(c)) /\ WF_vars(CallStep(c))

FairSpec == Spec /\ Fairness

-----------------------------------------------------------------------------
(* Properties *)

IsRules(f) == DOMAIN f \subseteq Ids /\ f \in [DOMAIN f -> Rule]
Counts     == [Ids -> Nat]
CallSteps  == {"idle", "resolve", "lock", "check", "store", "publish", "refused", "done"}
FlushSteps == {"idle", "drain", "merge", "look", "expire", "purge"}

TypeOK ==
  /\ IsRules(engine) /\ IsRules(store)
  /\ hits \in Counts /\ truth \in Counts
  /\ lock \in {Free, "flush"} \cup Calls
  /\ call \in [Calls -> [step : CallSteps, kind : AllKinds \cup {"none"},
                         rules : {call[c].rules : c \in Calls}]]
  /\ \A c \in Calls : IsRules(call[c].rules)
  /\ \A c \in Calls : lock = c <=> call[c].step \in {"check", "store", "publish"}
  /\ flush \in [step : FlushSteps, deltas : Counts, now : 0..clock]
  /\ lock = "flush" <=> flush.step # "idle"
  /\ stopping \in [step : {"run", "merge", "exit", "down"}, deltas : Counts]
  /\ packet \in Ids \cup {NoId} /\ clock \in 0..MaxTime

\* Every rule loaded is stored word for word and passes the load-time gates, and
\* every row that is not loaded is expired or quarantined.
Agree(rules, rows, now) ==
  /\ \A id \in DOMAIN rules :
       /\ id \in DOMAIN rows /\ Content(rules[id]) = Content(rows[id])
       /\ Loadable(rules[id])
  /\ \A id \in DOMAIN rows \ DOMAIN rules : IsExpired(rows[id], now) \/ ~Loadable(rows[id])

\* The two copies agree except between the two halves of a write: what the
\* engine enforces is stored word for word, so a crash loses no rule, and
\* passes the load-time gates; and a row the engine does not hold is expired
\* or quarantined, so a restart brings back nothing that was deleted.
EngineStoreAgree ==
  Up /\ (\A c \in Calls : call[c].step # "publish") => Agree(engine, store, clock)

\* No hit is counted twice, whatever a client echoes back and whenever the
\* flush drains: until shutdown begins (its drain takes no lock) ListRules
\* shows every hit exactly once, flushed or not, and a loaded rule's stored
\* count is never more than the hits it had.
HitsCountedOnce ==
  stopping.step = "run" =>
    /\ \A id \in DOMAIN engine : engine[id].hits + hits[id] = truth[id]
    /\ \A id \in DOMAIN store \cap DOMAIN engine : store[id].hits <= truth[id]

\* The flush holds the mutations lock for "the whole tick: a rule write between
\* the drain and the merge would count the drained hits twice"; what it is held
\* for, whoever drains.  The drain of main's shutdown takes no lock.
StoredHitsTrue ==
  Up => \A id \in DOMAIN store \cap DOMAIN engine : store[id].hits <= truth[id]

\* No write turns a timed rule into an Always one in place, whoever makes it
\* and however two writes interleave.
TimedStaysTimed ==
  [][\A id \in DOMAIN engine \cap DOMAIN engine' :
       engine[id].secs > 0 => engine'[id].secs # Always]_vars

\* An expired rule does not stay loaded: whoever holds the mutations lock lets
\* it go, and the flush drops the rule, so the kernel's copy of it goes too.
ExpiredRulesLeave ==
  \A id \in Ids :
    (id \in DOMAIN engine /\ IsExpired(engine[id], clock))
      ~> (id \notin DOMAIN engine \/ ~IsExpired(engine[id], clock))

-----------------------------------------------------------------------------
(* What the safety properties need to be inductive *)

\* Only a delete names no loadable rule, deltas are held for the merge only,
\* and a daemon that is down holds nothing.
AtRest ==
  /\ \A c \in Calls : call[c].kind # "delete" =>
       \A id \in DOMAIN call[c].rules : Loadable(call[c].rules[id])
  /\ flush.step # "merge" => flush.deltas = Zero
  /\ ~Up => engine = Empty /\ hits = Zero /\ lock = Free /\ flush = NoFlush

\* What CheckUnderLock saw still holds when the call writes and publishes:
\* nobody else changed the rules it replaces (shutdown's drain, which takes no
\* lock, only moves their hit counts).
WritesAreChecked ==
  \A c \in Calls : call[c].step \in {"store", "publish"} /\ call[c].kind # "delete" =>
    \A id \in DOMAIN call[c].rules \cap DOMAIN engine :
      LET sent == call[c].rules[id] IN
      /\ sent.made = engine[id].made
      /\ engine[id].secs > 0 => sent.secs # Always
      /\ stopping.step = "run" => sent.hits = engine[id].hits

\* The rows agree with the rules as they are or, between the two halves of a
\* write, as Publish will make them.
CopiesAgree ==
  Up => IF \E c \in Calls : call[c].step = "publish"
          THEN \A c \in Calls : call[c].step = "publish" => Agree(EngineAfter(c), store, clock)
          ELSE Agree(engine, store, clock)

\* What the flush is about to delete from the rows has left the engine.
PurgedHaveLeft ==
  flush.step = "purge" => \A id \in DOMAIN engine : ~IsExpired(engine[id], flush.now)

\* Until shutdown begins the rows, with what the flush drained and has not
\* merged, never count more than the engine, the engine counts every hit, and
\* a call publishes the counts it wrote.
CountsInOrder ==
  stopping.step = "run" =>
    /\ \A id \in DOMAIN engine : engine[id].hits + hits[id] = truth[id]
    /\ \A id \in DOMAIN store \cap DOMAIN engine :
         store[id].hits + flush.deltas[id] <= engine[id].hits
    /\ \A c \in Calls : call[c].step = "publish" /\ call[c].kind # "delete" =>
         \A id \in DOMAIN call[c].rules :
           id \in DOMAIN store /\ store[id].hits = call[c].rules[id].hits

StoreInv == /\ TypeOK /\ AtRest /\ WritesAreChecked
            /\ CopiesAgree /\ PurgedHaveLeft /\ CountsInOrder
=============================================================================
