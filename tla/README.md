# A TLA+ verification of Colony Firewall Control

Colony Firewall Control is a Linux application firewall. `colony-firewalld`, a
root daemon, receives every new flow from an NFQUEUE, attributes it to a
process, looks it up in a rule set, and either answers the kernel at once or
holds the packet while it asks the user. Programs in the kernel refuse, at
`connect`, what the rules refuse outright. Clients (a desktop app, a tray, the
`cfc` tool) read the daemon's state and change it through a gRPC API on a Unix
socket; `cfc applications` runs a program confined to a few peers without the
daemon. This directory models the system's control (who does what in which
order, and what fails), model-checks it with TLC on small instances, and proves
some of the results for every instance with TLAPS.

Paths below are relative to the repository; `D/` stands for
`crates/cfc-daemon/src/`.

## 1. Inventory

| Component | State it keeps | Operations | What would make it wrong | Module |
|---|---|---|---|---|
| NFQUEUE worker, `D/nfqueue/mod.rs` | parked packets by prompt, prompt by flow, prompt counter, hard-error count, stop flag | receive, handle, park, ride, resolve, flush after a hang-up, stop | a packet lost, held for ever or answered twice; an answer applied over a newer refusal | `PromptFlow` |
| Prompt router, `D/prompts.rs` | pending prompts, census of answering streams, pending gauge | take a request, broadcast, submit, time out | two resolutions of one prompt; none | `PromptFlow`, `AskUser` |
| Rule matching, `crates/cfc-core/src/rule.rs` | none (a walk over a sorted list) | `lookup`, `sort_deterministic` | an answer that identity learnt later contradicts | `RuleEval` |
| Decision engine, `D/decision.rs` | rules, hit deltas, mutations lock, change observer | evaluate, peek, kernel projections, upsert, remove, replace, expire, drain | memory and database drift apart; the kernel refuses what the packet path allows | `RuleEval`, `RuleStore` |
| Rule store, `D/storage.rs` | rule rows, event rows | upsert, apply, delete, purge, merge, open, load, event insert, prune | a write half applied; a quarantined row enforced | `RuleStore`, `EventPipeline` |
| IPC service, `D/ipc/mod.rs`, `D/convert.rs` | prompt audience, resume deadline | the RPCs | a check made on state that is stale when the write happens | `RuleStore`, `PromptAccess`, `RuleTools` |
| Pause, `D/ipc/mod.rs`, `D/stats.rs` | flag, generation, resume deadline, sleeping timers | SetPaused, timer | a pause that never ends, or ends early | `Pause` |
| Event log, `D/ipc/mod.rs` | bounded queue, writer's batch, drop counter, events table | push, feed, lag, write, prune | a verdict logged twice, or lost without being counted | `EventPipeline` |
| Lifecycle and maintenance, `D/main.rs`, `D/maintenance.rs`, `D/config.rs` | phase, policy, activity stamp, table presence | start, reload, stop, heartbeat, probe | a wedged worker kept; a flushed ruleset reported as enforced | `Supervision` |
| Authorization, `D/official.rs`, `D/polkit.rs` | none | standing, authorize | a change accepted from a peer that lost its standing, or never had it | `OfficialClient`, `PromptAccess` |
| Process resolution, `D/process_resolve.rs`, `D/sock_diag.rs` | inode and digest caches, diagnostic socket | resolve | a flow attributed to another process | `SockAttribution`, `ProcResolve` |
| Provenance, `D/provenance.rs` | package index, lookup memo | warm, describe | "no package" for want of knowing | `PackageIndex` |
| Hostname cache, `D/dns.rs` | policy cache, display cache, lookup permits | enqueue, observe, complete, evict | a late answer displacing a better one | `HostCache` |
| Packets and refusals, `D/packet.rs`, `D/reject.rs` | off-box budget | parse, forge, send | a refusal its sender discards; a flood | `Refusal` |
| DNS observer, `crates/cfc-ebpf`, `cfc-ebpf-proto` | a ring | classify, copy, parse | a name read out of stale bytes | `DnsSnoop` |
| In-kernel enforcement, `D/ebpf/enforce.rs`, `crates/cfc-ebpf` | pinned verdict map, table of executables | resync, on exec, on exit, attach, sweep | a verdict written for an image that has been replaced | `KernelDeny` |
| Loading, `D/ebpf/loader.rs`, `btf.rs`, `tracefs.rs` | programs, pins, offsets, the report | vet, load, attach, inherit | a level reported that the kernel does not have | `KernelLoad`, `Btf` |
| Confinement, `crates/cfc/src/confinement` | unit, manifest, cgroup | run, gate, stop | a process let go, or left running, outside what was declared | `Confinement`, `ConfineCheck` |
| Tray, `crates/cfc-tray` | slots, bubbles, overflow count | prompt, answer, reclaim, poll, pause | answering a prompt that is gone | `Tray` |
| Desktop app, `crates/cfc-ui` | cards, editor, connection | show, answer, edit, reconnect | a click that answers another card | `Gui`, `ClientLink` |
| Rule-writing clients, `crates/cfc`, `cfc-ui/src/editor.rs` | forms, backups | add, toggle, export, import, bundle, edit | a rule wider than what was asked | `RuleTools` |

**Interactions.** The worker is one blocking thread. It reaches the router over
a bounded channel and hears from it over an unbounded one; the router, every
timeout sweeper, every RPC, the flush task and the event writer run concurrently
on four runtime threads. The engine's rules are read by the worker and the
kernel layer, and written by RPCs and the flush task under one *mutations* lock
that is never taken on the packet path. The router's `pending` table is the
arbiter between answers and timeouts: whoever removes an id resolves it. Process
resolution and the hostname cache are asked by the worker in the middle of a
packet; the kernel programs talk to the daemon through rings and pinned maps
only. Clients share nothing with each other but the daemon.

**Hard behaviours.** Answer against timeout against rule change against
shutdown, over a packet that is parked; three bounded resources filling up at
once; identity that is partly unknown when the rules are walked, and that is
read from `/proc` fact by fact while processes exec and exit; two copies of the
rule set written by several actors, with storage errors and crashes between the
two; a pause that must end by itself; two paths into one event log, both lossy;
verdicts pinned in the kernel for a pid whose image, owner or rule may have
changed since it was judged, outliving the daemon; programs of an earlier
daemon still attached at a start; a wall clock that steps under a watchdog;
answers of a client that arrive after the state they were meant for is gone.
`PROJECT.json` lists these as hazards, each at its line.

## 2. Modules

Components that do not share state are checked side by side in one instance: a
variable `part` chooses which of them is at work, and the others rest in a state
they take no step from. So a run explores the sum of its parts, not their
product, and each part keeps its own variables, actions and properties.

| Instance | Parts | Run |
|---|---|---|
| `MCPromptFlow` | `PromptFlow`, `AskUser` through `PromptRefinement` | `prompt`, `prompt_live` |
| `MCDecide` | `RuleEval`, `Refusal`, `DnsSnoop` | `decide` |
| `MCRuleStore` | `RuleStore` | `store` |
| `MCHousekeeping` | `Pause`, `EventPipeline`, `Supervision`, `ClientLink` | `housekeeping` |
| `MCKernel` | `KernelDeny`, `KernelLoad`, `Btf`, `Confinement`, `ConfineCheck` | `kernel`, `kernel_race`, `confine_stop` |
| `MCIdentity` | `SockAttribution`, `ProcResolve`, `HostCache`, `PackageIndex`, `OfficialClient`, `PromptAccess` | `identity` |
| `MCApps` | `Tray`, `Gui`, `RuleTools` | `apps` |

`Lists` has what the program does to its ordered lists, for `Gui` and `PromptAccess`.

The theorems are in eight more modules, which no run uses: `PromptFlowProofs`
(`PromptFlow` and its refinement of `AskUser`), `RuleEvalProofs` (all parts of
`MCDecide`), `RuleStoreProofs`, `HousekeepingProofs` (`Pause`, `EventPipeline`,
`Supervision`), `IdentityProofs` (all parts of `MCIdentity`), `KernelProofs`
(`KernelDeny`, `Confinement`, `ConfineCheck`, `KernelLoad`), `AppsProofs` (all parts of
`MCApps`) and `ListProofs` (lemmas about lists and numbers the others cite).

In each module a definition marked *faulty variant* stands just before the
definition it varies. It is a plausible slip in the same code; putting it in the
place of the definition makes TLC find the property named in `PROJECT.json`
violated, which shows that the property depends on that code.

### PromptFlow

State. `waiters` and `pendingFlows` are the worker's two maps, `promptQ` and
`verdictQ` the channels, `pending`, `sweepers`, `taken` and `gauge` the router's
table, its sleeping timeouts, the resolutions between removal and send, and
`Stats::prompts_pending`. `wpc`, `ret` and `cur` say where the worker is: at the
top of its loop, draining verdicts, at `recv`, inside `resolve_prompt`, flushing
after a hang-up. `peek` is what the rules say of each flow now; it changes at any
moment, as rule writers do.

Actions. `WorkerTop`, `TakeVerdict`, `ResolveBegin`, `ResolvePacket`, `FlushWaiter`
and the ends of those loops are the worker's own steps; `Receive` with
`HandleSettled`, `RidePrompt`, `RideOverflow`, `BacklogFull`, `OpenPrompt` and
`RouterUnavailable` is `handle_packet` with the branches of `park_for_prompt`;
`RouterRecv` to `RouterReclaim` are `handle_request` step by step; `Submit`, `SweeperFires`
and `SendTaken` are the resolutions; `StreamOpens`, `StreamSubscribes` and
`StreamCloses` the census and the broadcast receiver, which a stream does not
enter and leave at once.

Abstractions. Deny and Reject are one action here (they hand the kernel the same
verdict). A packet is a model value and a flow key another. The pause flag and
the default policy are inputs of the steps that read them, since other threads
may change them meanwhile.

*`AskUser`* is the promise of the whole path without worker, router, tables and
channels: a packet is settled at once or held under one question; a question
takes at most one answer; a held packet gets what a rule now refuses, else the
answer that was taken, else, only when nobody answered, what a rule or the
policy says. `PromptRefinement` maps `PromptFlow` to it: a packet is held under the
prompt whose entry it is in or whose resolution is under way, and the answers
are those a client was told were accepted.

### RuleEval

One step per rule of the walk: `SkipRule`, `PassUndecided`, `HoldGenericAllow`,
`RuleWins`, then `EndOfList`. The locals are the code's own (undecided, generic
allow, whether an allow or a closing rule was passed). A process may have an
unknown executable, digest or user; a legacy hostname predicate can never be
decided. `DeniesProcessWide` and `CompiledExes` are the two projections handed to
the kernel. The reference definition is `Governs`: which rule applies to a fully
known flow, stated without a walk. The properties relate the walk's answer to
`Governs` over every completion of what was unknown.

One observation: the exclusion of user-scoped rules in `compilable_exe_paths` is
redundant with the check of undecidable rules it also makes; removing either
alone changes no answer.

### Refusal and DnsSnoop

`Refusal` is a rejected packet's way through `packet.rs` and `reject.rs`. A packet is
the layout its sender chose; the model sees lengths as the wire encodes them and
no more bytes than the queue copied. The header chain is walked twice, as in the
code, and the two walks must agree with the sender's own layout. Sequence numbers
live in a space of `W`, bytes have `B` values, so wraps and carries of the checksum
happen. `Budget` is the token bucket over a clock of ticks.

`DnsSnoop` has the ingress program's classification and its copy ladder in bytes
at their real sizes, the ring, and the daemon's parser on tokens (a length, a
letter, a type), with compression written by a reference encoder.

### RuleStore

State. `engine` and `store` are the two copies, `hits` the deltas not flushed,
`lock` the mutations lock, `call` the RPCs in progress with the rules they carry,
`flush` and `stopping` the flush task's
and the shutdown's position. `truth` is history: the hits each rule really had.

An RPC is `BeginWrite` or `BeginDelete` (whether the path needs validation is
decided here, on a snapshot), `ResolveExe` (awaited), `LockMutations`,
`CheckUnderLock`, `StoreWrite` (one transaction, or `StoreWriteFails`) and
`Publish`. The flush is six steps because the packet path, which takes no lock,
runs between them. A rule persisted by a prompt verdict is an upsert under a new
id and is covered by the same actions. The instance runs in two ways, which
together cover the state space that one instance with both would make too large:
writes of every kind and lifetime with any ending, without packets; and hits
counted while a timed rule is rewritten and the daemon crashes.

### Pause, EventPipeline, Supervision, ClientLink

`Pause`: `SetPaused` is the sequence the handler performs: store the flag, increment
the generation, note the deadline, spawn a timer. A timer wakes, compares its
generation, looks at the flag, and resumes in three further accesses. The
constant `Overlap` says whether two bodies may overlap.

`EventPipeline`: verdicts are numbered in delivery order. The live feed is two
positions, since a broadcast channel overwrites what a slow receiver has not read.
`Deliver` and `Publish` are the worker's two writes, `FeederReads` and `FeederLags` the
feeder, `WriterTakes`, `FlushTick` and `PruneTick` the arms of the writer's `select!`.
The writer's queue-closed arm is not modelled: a sender outlives it until the
runtime drops the tasks, and then rows in flight are lost with them.

`Supervision`: the daemon's start in its order, each fallible step failing, the
policy a profile and explicit keys give, a reload, the four tasks whose end
brings the daemon down, and systemd. Time is counted in watchdog ticks of ten
seconds; `ClockStep` moves the wall clock the stamp is compared with, and systemd's
own deadline runs on the monotonic one.

`ClientLink`: the app's handshake, retry timer, status poll and two resilient
streams. Every call is a task whose answer arrives later and in any order.

### KernelDeny, KernelLoad, Btf

`KernelDeny`. `proc` is the machine's process table as `/proc` shows it; `verdicts`,
`exeRules` and `exeGate` are the pinned maps `VERDICTS`, `EXE_RULES` and
`EXE_RULES_ON`, which a crash leaves in place; `mode` is how far the daemon has come
up, `table` its fresh exec records, `memo` the last compiled set, `runner` the two
threads that resync (start-up and rule observer) under the mutex `resync`; the
two rings, the two consumers and the list of exit candidates with its recheck
follow the code one for one. `Spawn`, `Exec`, `Exit`, `Reap` are the machine, with the
kernel programs run inside `Exec` and `Exit`; `DropStalePins` to `SetLive` are the
start-up in its order; `ResyncCompile` to `ResyncClear` the eight steps of
`VerdictSink::resync` between which other parties run; `ExecTake`, `OnExecJudge`,
`OnExecWrite` the exec consumer; `ExitTake` to `Requeue` the exit consumer and its tick.

The code judges a process and writes the judgement in separate steps, guarded by
the start time. An exec keeps the start time, and some writes have no guard, so
there are intervals in which a judgement can be overtaken unnoticed. `Windows` says
which overtakings the instance admits: an exec, a reuse of the pid, an exit, a
change of the rules. With none of them `kernel` shows that all the rest of the
protocol is right; with `exec` alone `kernel_race` shows what the interval lets
through. Each of the four alone refutes `DenyDeserved`, and each but `exit` refutes
`DenyInstalled`. `lost` is a ghost: the pids
whose exec or exit this daemon may never learn of (a ring or the candidate list
overflowed, or a zombie was judged gone and then taken for a new owner). The
properties say nothing of those until their next exec. A rule set is what
`RuleEval`'s two projections give. The capacity of `VERDICTS` is not modelled.

`KernelLoad` is the start that comes before: the vetting of the object, the old
fast path's disarming, stale pins, offsets, the attachment of each program, the
inheritance of connect hooks that are pinned, and the report that follows. A map
is a copy numbered by the start that created it; a program is held by its pin, by
another version's pin, or by the daemon. Starts follow one another over what the
last one left, and any step may fail or be the last.

`Btf` is the walk over the kernel's type information, with the tail length of
every kind, compared with what the types declare.

### Confinement and ConfineCheck

`Confinement` is the life of one tree: the launcher's provisioning, start, watch and
cleanup, a stop by another administrator, the manager, and the gate that attests
five pieces, each of which may change once under it. `together` is history: the
directions whose filters were once right at the same time as everything else.

`ConfineCheck` puts cases to two computations. The inspection of the native filters
is compared with what the kernel would let through; an address is a number in a
small space and a prefix the set it covers. The system-call filter is the emitted
program, run instruction by instruction on words that are sets of bits, compared
with the policy stated directly.

### Identity: SockAttribution, ProcResolve, HostCache, PackageIndex

From packet to inode, with two `/proc/net` tables read one after the other and a
diagnostic socket whose answers may be late; from inode to pid, image, path,
digest and credentials, every read a step, between which the holder may exec,
fork, close, exit and leave its pid, and the file may be written, upgraded or
unlinked; the two caches of names; the package index that one thread builds while
the packet thread answers `NotReady`.

### Access: OfficialClient, PromptAccess

`OfficialClient` reads the facts of `official::check` in order about a pid that lives
on meanwhile. `PromptAccess` is the control service: streams with their lagging
feed, standing checked before each prompt, the audience table, each RPC's access
level, and polkit asked in the middle of a call.

### Clients: Tray, Gui, RuleTools

`Tray` has a bubble's slot, its task, its place on the screen and the reports in
the main loop's channel as separate variables, since separate tasks keep them.
`Gui` keeps two clocks, the wall clock and the value the app last read. `RuleTools`
has every client that writes rules with its own form of a rule, and the gates of
the daemon they all pass; history variables keep what the author asked for.

## 3. Runs

| Run | Result | Question and bounds |
|---|---|---|
| `prompt` | holds | Two ways: three packets of two flows against one prompt slot, a prompt of two packets and a channel of one, under fixed rules (the third packet meets a full backlog); or two packets of one flow while rules and policy change. Maps inverse, caps kept, no packet lost, one resolution per outstanding prompt, and `AskUser` implemented. |
| `prompt_live` | holds | Two packets, a prompt that holds one, rules that change: every packet read is answered and a stop is observed. |
| `decide` | holds | Every sorted list of up to three rules over shapes that differ in each predicate the walk tells apart, against partly known processes (three are the fewest that put an undecided rule, a held generic allow and a winner in one walk); some 1500 packet layouts at the limits of lengths, chains and sequence space, and refusals over seven ticks against a bucket of two; DNS packets of every length around each rung of the ladder, and messages of up to three answers cut at every point, some with more labels or pointers than the parser follows. |
| `store` | holds | Two RPCs over two ids with every lifetime, the flush, one tick of time, a hit, a storage error, a crash or stop at any step and a restart. |
| `housekeeping` | holds | Three pause calls with bodies that do not overlap; four verdicts against a feed, queue, batch and table of two with a failed commit; a daemon with two disturbances (failures, clock steps back and forward, edits, SIGHUPs, table changes) against thresholds of four, three and two ticks; two outages of the daemon under the app. |
| `kernel` | holds | One pid used by two processes, three names of which one is an alias, an edit, a crash, rings of one; three starts with two faults over six kernels and three kinds of leftovers; type lists of up to three over every kind; a tree with a second administrator and two pieces that change; filter and system-call cases. |
| `identity` | holds | Three lookups over four sockets with a counter that wraps at two; three pids and four births under one resolution; two addresses and a cache of one; three package databases; two pids and three processes under one check; two clients, three prompts, an audience of two and three calls. |
| `apps` | holds | Two prompts and one slot, a stream lost, both notification strategies; two cards, an editor, a loss; three actions of any rule-writing tools with a path that becomes an alias, a tick of time and a restored backup. |
| `pause_overlap`, `kernel_race`, `store_shutdown`, `confine_stop` | violated | Each states a sentence of the code's own comments or help that the code does not keep; see section 5. |

The bounds are the smallest at which each branch of the code is taken: TLC's
coverage shows every action and disjunct firing. Deadlock checking is off where
the instance's environment is bounded (no more packets, calls, faults or
verdicts to come) and the system may rightly be idle.

**Symmetry.** Packets of one flow are interchangeable in `prompt`, which has no
liveness property; no other run uses symmetry.

**Fairness.** `PromptFlow`: the worker thread's own steps, the router task, a
sweeper whose sleep is over, the sending of a resolution already taken. The
worker never blocks for longer than its idle wait and tokio polls a ready task.
No fairness is given to clients, rule writers or the kernel's queue. `RuleStore`:
time passes, systemd restarts a daemon that crashed (`Restart=on-failure` in the
unit), the flush and the calls progress, and the mutations lock, a `parking_lot`
mutex with eventual fairness, is not withheld from a waiter for ever (strong
fairness of the two acquisitions). `Pause`: a call goes on and a timer whose sleep
is over runs. `Supervision`: the daemon's tasks are scheduled, its start goes on,
systemd acts on its deadline. `ClientLink`: timers fire and calls end, since every
request has a deadline; nobody is assumed to press Reconnect, and the daemon is
not assumed to come back.

## 4. Proofs

Every theorem holds for all values of the constants, under the assumption named in
its module. Those assumptions only type the constants, with these exceptions, each
a fact of the code or of the protocols and the kernel below it: in `DnsAssumption` a
header has no more option words than its length nibble can say; a cap that a channel, table, cache or
ring has is not zero; in `SockAssumption` no two connected TCP sockets have the same
tuple, and a UDP socket that could have sent a packet is in a table the lookup reads
for that packet's family; in `AccessAssumption` a request arrives without polkit's
confirmation; in `PacketAssumption` header sizes are in the units their length bytes
count, only IPv6 chains headers, and a segment that neither acknowledges nor resets
carries `SYN` or `FIN` but not both; in `BtfAssumption` counts and offsets of the
kernel's types fit their fields. Each proof has the same plan: an inductive invariant written as named
parts, one lemma or step per action, one step per part the action can disturb, and
a last step that leaves time to `PTL`. Every inductive invariant was first checked
by TLC.

*`PromptFlowProofs`.* `WaitersMatchFlows` is not inductive: while `resolve_prompt`
runs, the id is out of both maps and its packets are in a local, and while the
worker flushes it may not return to a place that expects the id. The inductive
invariant `IInv` is `TypeOK`, `WaitersMatchFlows`, `BacklogBounded` and
`WorkerSteps`, which says what each local may hold at each point of the loop;
`TypeCorrect`, `TablesCorrect` and `BacklogCorrect` follow. `TablesCorrect` shows
that the repair branch of `park_for_prompt` is dead code.

*`PromptFlowProofs`, the refinement.* Three more invariants on top of `IInv`.
`OnceInv` puts every prompt under way in one place (channel to the router, router's
hand, pending table, taken and not yet sent, channel back), which is what makes the
gauge exact and `OneResolution` true; it must also say what the hang-up leaves
behind. `HoldInv` says that the packets held are those read and not answered, each
in one list at one position; from it `NoPacketLost`, which is about multiplicities,
follows by counting. `AnswerInv` follows an accepted answer: it has left the
router's pending table, whatever carries its id on the way to the packets carries
its action, and `resolve_prompt` has forgotten the prompt whose packets it lets go.
With `RInv`, their conjunction, `AskImplemented` shows that `PromptFlow` implements
`AskUser` under the mapping in `PromptRefinement`: `Init` maps to `Init`; opening a
prompt or riding on one asks a question, an accepted submit answers it, resolving,
overflowing and falling back settle packets, a rule change is a rule change, and
all other steps are stutters.

*`RuleEvalProofs`.* The invariant `WalkInv` says, for every position of the walk,
what the locals record of the rules passed (`Passed`) and, once it has ended, of
the whole list (`Ended`). From `Ended` follow `LookupSound` (the answer survives
whatever the identity turns out to be), `AskSound`, `KernelAgrees` and
`ExeTableSound`. They are proved for lists in any order.

*`RuleEvalProofs`, refusals and DNS.* `OffBoxBounded` speaks of windows between two
refusals. `BudgetInv` speaks of every window that ends now, and adds what the bucket
would hold: what the window cost and what is left never exceed a full bucket and what
the window earned. A take moves cost from one side to the other and a tick earns one
on both; a window that has ended stays as it was. `CaptureExactHolds` is the half of
`AnswersAsSent` about the ingress program: the two ladders of `copy_payload` leave a
gap of less than eight bytes, which the read that ends where the payload ends closes,
since a payload has at least the twelve bytes of a DNS header. `ReadExactHolds` is the
half about the parser. `Sound` says of the encoder that every suffix it remembers can
be read at its offset from any text that begins with what is written so far, at the
cost of its labels and jumps (`NameAt`); writing a name, with a pointer or without,
keeps that so (`PutNameWrites`), and the induction is over the labels, not over the
turns of the parser, as the cost says for every number of turns left what is found.
`PartWritten` adds what a reader of a text cut short finds: nothing once the cut is
inside the name. From there each question and each record is read as written
(`QuestionRead`, `AnswerRead`), and `Came` is the closed form of the parser's walk over
them, up to the first record it cannot read. No bound on message, name, number of
pointers or the parser's limits is used; `ParserAssumption` only types them. The
encoder replaces a suffix only by one it wrote itself, so pointers of other shapes (into
a record's data, say) are outside the theorem. For
`RefusalIsForItsSender` the question is where the transport header is: `WalkFinds`
shows that both walks over the chain are at every header where its sender put it, as
the length each kind encodes is the one the walks decode (`DecodedIsSize`). Then the
parser gives ports only to packets whose bytes are there (`ParsedRight`), a reset
acknowledges between one and `len + 1` octets, never none (`ResetAccepted`), and the
checksum closes the sum of the very parts the receiver adds (`ChecksumCloses`).

*`RuleStoreProofs`.* `StoreInv` adds to the types what makes the three properties
survive the gaps between accesses: `WritesAreChecked` (what was checked under the
lock is still so at the store and at the publication; shutdown's lockless drain is
the reason it speaks of counts only while the daemon runs), `CopiesAgree` (rows agree
with the rules as they are or, inside a write, as they will be), `PurgedHaveLeft`
(the flush deletes only rows whose rule has left the engine) and `CountsInOrder`
(rows plus what was drained never exceed the engine, which counts every hit).
`EngineStoreAgree` and `HitsCountedOnce` are its consequences, the action property
`TimedStaysTimed` follows from `WritesAreChecked`. `HitsCountedOnce` is about the
time before the shutdown begins; what the shutdown does to the counts is the finding
of run `store_shutdown`.

*`HousekeepingProofs`.* `ProbeInv`: time without a table plus time to the next probe
stays within the interval, unless a probe is due or it is the first tick of a run.
`PauseInv`: without interleaved bodies (`~Overlap`, a hypothesis of the theorem: with
them the property is false, run `pause_overlap`) each call has a generation of its
own, a timer's sleep never falls short of the end it was computed with, and while
the last pause has time left no timer is past its check. `LogInv`: queue, batch and
table share no row and hold only rows that are due; the rows missing are finitely
many and no more than `dropped`.

*`IdentityProofs`.* `OfficialInv`: a start time is given once, so while the process
that connected is under its pid everything read was read from it, and a program that
became the app by exec lost the connection on the way. `PkgInv`: stamps never run
ahead of the database, and whatever a lookup may still find was so at some moment
since it began. `HostInv`: names are confirmed forward before they are kept, so
`ObservedNotOverwritten` needs only the live observation of the step itself.
`AccessInv`: a call past its check carries polkit's confirmation, and an answer's
rule is saved only after the answer landed. `SockInv`: at most one request is on the
diagnostic socket and it is this lookup's, because a thread whose request timed out
throws its socket away; so the width of the sequence counter does not matter.
`AudienceInv` adds to `AccessInv` that the audience table and the order it is trimmed
in hold the same prompts, each once and no more than the cap, and that a closed stream
has nothing left to handle; `CountedMeansShown` is a promise about one step and
follows from it.

*`KernelProofs`, `KernelDeny`.* `DenyInstalled` rests on `InstallInv`: a running
process that is refused, has a fresh record and has no entry is in the exec ring, in
the exec consumer's hand, or ahead of the write of the resync that runs (`Coming`,
`OwedComes`); what a resync has seen of a process is still so if the process still has
its start time (`ViewRight`), so it clears no one who is refused (`ClearRight`); a
judgement of the exec consumer that no longer fits is followed by another record
(`JudgedRight`). `DenyDeserved` adds `LeaveInv`, which says of every entry that is not
deserved what will still take it away. For a process that is gone, that is the exit
ring, a candidate or an eviction where the kernel does not evict by itself, or the
resync of the start (`DeadLeave`); for a process that lives, the exec consumer or a
resync, followed step by step (`Resynced`, `SparedLeave`). `ExitRight` keeps the exit
side to dead pids with no other owner, and `WriteRight` and `DenyRight` say that a
refusal about to be written still fits. The hypotheses are the windows of
section 2: `DenyInstalled` is proved with none but `exit` open, `DenyDeserved` with
none, and for rule sets that do not refuse an unknown executable (section 5, *Kernel*,
third point). They are as weak as the code allows: with any further window open TLC
refutes the property.

*`KernelProofs`, the parent fields.* `ParentFieldsRight` compares a walk over words with
the list of types they encode, both of any length. `WordsBuilt` and `WordsOnlyGrow` say
where each type begins and that what follows does not disturb it; `HeaderRead` that
the walk, at the beginning of a type, reads that type's header and steps to the
beginning of the next, whatever words its tail holds; `WalkIs` that the walk is a
function at all, since it only goes forward. So it reaches the first struct of the
name (`OffsetsAreDeclared`) and reads its members there (`MemberOffsetIs`).

*`KernelProofs`, the rest.* `GateInv`: when the gate has passed a direction's filters,
either they have stood right together with all that is declared, or a declared
piece it will read again has changed for good (`SeenTogether`); the second reading
leaves only the first alternative. It uses that a piece changes at most once, which
is a bound of the model. `StopInv`: nothing runs from the census to the end of the
stop, only the launcher writes files and it no longer does, and what was removed
stays away. `AttestedFilters`: the check asks for one peer more than were approved,
and that many cannot all be different approved peers (a pigeonhole, `AllKeysRead`),
so what it read is the whole of each map; the pair it accepts is one program of each
kind. `ConfinesExactly` adds the system-call filter, for every word in every argument:
the spliced program is one listing of 62 instructions (`ProgramListing`); no jump
leaves it and all go forward (`AllStayInside`, `StepsForward`), so the machine has an
answer at every place for every word it may hold (`AnswersObey`, from the last
instruction to the first); from those answers the verdicts of the parts follow and
from them the policy (`ProgramFollowsPolicy`). `ReportIsTrue` follows from `LoadInv`: who holds what until this start attaches,
pinned connect programs run on the pinned maps, the level is given only when both
programs of a hook run on the maps the engine took, streams have this start's program
at their end, and what a start that met no failure has got by each step.

*`IdentityProofs`, `ProcResolve`.* `ResInv`: start times are given in order, so a pid that still
shows the start time first read is the process found, and every image a process ever
ran is noted (`ImagesNoted`). While an image is in hand it is one the process found
has run (`ImageOfHolder`); a path that names a file of another mount has been
refused, or will be at the next check (`PathOfAnother`); a digest enters the cache
only under a change time that is over, so no later write can share its key
(`CacheRight`, `HashRight`); and a kernel record taken is the record of that process
(`RecordOfHolder`). The one use of the settling time being positive is here: with
zero, a write in the same tick would keep the key of the old digest.

*`AppsProofs`.* `TrayInv`: a prompt the stream has not sent has no slot, no bubble and
no answer; a bubble on the screen whose slot does not know of it has its id under way
(`ShownIsTold`); the slot of a prompt dropped with its stream is gone for good
(`ForgottenGone`). `GuiInv`: a card is disarmed until it has been in its place for the
arming time, since `retire_cards` arms again what moved up (`PlacesKept`); the daemon
waits for no prompt past its deadline (`SettledInTime`); a verdict under way is its
card's only one (`CallsSound`). `ToolsInv`: each form a rule is in, the daemon's, a
listing, a backup, an editor's, says what its author asked for (`RulesRight`,
`ListedRight`, `BackupRight`, `FormRight`). What makes that inductive is about copies:
copies of a timed rule never disagree on when it was created (`OneBirth`), and of a
rule that is no longer timed no timed copy is left to be sent (`OldCopiesGone`).
`ToolsAssumption` says that ids of bundled rules and of the user's are apart.

*`ListProofs`.* A recursive function has values only if some function satisfies its
equation: `Recursion` gives one for a definition that counts up and `Walk` for one
that jumps forward until it stops. Induction over the numbers is done by the least counterexample
(`NatLeast`), which needs no operator as a parameter, and upwards or downwards between
two bounds (`Upward`, `Downward`); `Begins` is one list being the beginning of another. With it `KeptIs` shows what a
list thinned out holds, in what order, and `DistinctSize` that a list without repeats
has as many entries as members. `Lists` writes the thinning as a recursive function,
since the provers know nothing of `SelectSeq`.

*Only model-checked.* Liveness (`WF_`, `SF_`, leads-to and `ENABLED`): everything of
runs `prompt_live`, `housekeeping` and `apps` that says something eventually happens.
Every safety invariant the passing runs check has a theorem.

## 5. Where the code and its own words differ

Four are runs that TLC refutes, with the sentence quoted in `PROJECT.json`.

1. `pause_overlap`: a pause "must always end"; two overlapping SetPaused calls can
   leave the flag set with every timer out of date.
2. `kernel_race`: the start time compared at write time should tell "whether anything
   it read still describes this pid"; an exec keeps it, so the refusal of the image
   a process has left can land on the one it runs.
3. `store_shutdown`: the flush at shutdown (`D/main.rs:300`) takes no lock, and "a
   rule write between the drain and the merge would count the drained hits twice".
4. `confine_stop`: "stop every process in a confined tree before releasing its
   permissions"; a start that reaches the manager between the census and the
   removal runs without its unit file.

The others were met while modelling and have no run of their own; the models do
what the code does.

*Prompts and rules*

- `D/prompts.rs:189`: a read-only subscriber must not hold a prompt nobody can
  answer, but the broadcast succeeds for it when the last answering stream leaves
  after the census (`RouterBroadcast`).
- `D/ipc/mod.rs:136`: "a changed path is still validated" is decided on a snapshot
  that may be out of date when the rule is published (`BeginWrite`, `Publish`).
- `D/nfqueue/mod.rs:87` says of the hard receive errors that "transient errors
  reset the count"; only a received packet does (`:659`, `RecvNothing`).
- `crates/cfc-core/src/rule.rs:702` says that every resolution of the undecided
  rules "gives the winner's action". That is so of Allow against refusal
  (`AnswerSurvivesIdentity`), not of Deny against Reject.
- `D/ipc/mod.rs:644` says "a timed rule cannot become Always in place". That is so
  of one write (`TimedStaysTimed`); timed to until-restart and until-restart to
  Always are both accepted.
- `D/ipc/mod.rs:1481` warns of events that "were not persisted"; after a lag of
  the feeder they include refusals that are in the table (`FeederLags` counts
  them all).
- `D/config.rs`: the comments on two profiles say "allow when there is no UI to ask"
  where `Profile::policy` gives Deny; a SIGHUP while the file is missing resets to
  the defaults.

*Kernel*

- `D/ebpf/enforce.rs:396`: the orphan sweep judges a zombie gone, since it has no
  image to read, and then spares it, since it still has a start time (`Spared`).
- `D/ebpf/enforce.rs:231`: a deny rule added for a running process reaches the
  kernel only while that process has a fresh exec record (`ExpireRecord`), so not
  for one that started more than `ENTRY_TTL` ago.
- The exec consumer may judge a process after its exit was consumed. Its
  executable is then unknown, so a rule that refuses an unknown executable (one
  scoped to a user) leaves an entry for a pid that is gone.
- `D/ebpf/enforce.rs:550`: when an insert fails, `compile_rules` leaves the memo of the
  last set that fitted; going back to that set returns early and the partly
  written entries stay.
- `D/ebpf/loader.rs`: an aborted load leaves inherited connect hooks enforcing,
  steered by nobody, while the level reads off; without a pin directory, a
  `connect4` stays attached when `connect6` fails; one connect hook may count
  sockets in a map the other's reader does not see.

*Identity*

- `D/provenance.rs`: the `wanted` flag is written but read by tests only, though its
  comment says `warm` reads and clears it; an executable replaced before the
  database commits keeps the old digest in the memo for up to an hour.
- `D/ebpf/proc_table.rs`: a record consumed after its pid was reused is bound to the
  new start time; the user recorded at exec is stale after `setuid`.
- `D/dns.rs`: `observe_answer` evicts an entry even when it only replaces one.

*Clients*

- `crates/cfc-tray/src/notify.rs:302`: "a late click just gets accepted=false from the
  daemon"; the main loop drops it before it is sent. After a disconnect the
  overflow bubble keeps its state while its count is zero; if its thread cannot
  be spawned the bubble counts as opening for good.
- `crates/cfc-ui`: a key's target is armed from the app's last reading of the clock,
  which may be old, so earlier than the arming time; a saved rule's reply closes
  whatever editor is open then.
- `cfc rules bundle remove` acts on an earlier listing: a rule turned into a Deny
  meanwhile is deleted although such rules are meant to be kept. Enable, disable
  and toggle send back the whole rule as listed.
- `cfc applications run` can report success for a launch the gate refused, when
  another administrator's stop removes the directory before the status is read.

## 6. Plan

Done: the modules and the theorems above; no safety invariant is left without a
proof.

## 7. Not modelled

The text formats of `/proc`, netlink attributes, D-Bus signatures and the three
package databases are I/O: the models read the facts they state, in the order
the code asks for them. Record layouts shared with the kernel, sqlite pragmas and
the schema migration, and recovery of an over-long queue socket are left out.
The CLI's interactive prompt session repeats what `Gui` and `PromptFlow` have, one
prompt at a time. Drawing, translation, icons, themes, preferences, filters and
statistics of the clients, build automation and packaging are outside the
questions asked here. Changes that undo themselves between two reads of the
confinement gate are not explored (each piece changes at most once).
`VerdictSource::Timeout` exists in the types but no code path produces it; a timed
out prompt carries the policy's source, and so it does in `PromptFlow`.
