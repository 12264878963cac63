------------------------------ MODULE KernelDeny ------------------------------
(***************************************************************************)
(* In-kernel enforcement.  The connect() hooks refuse every process whose  *)
(* pid has an entry in the pinned map VERDICTS.  Four parties write it:    *)
(* the kernel's exec and exit programs, which outlive the daemon; the      *)
(* daemon's exec consumer (VerdictSink::on_exec); its exit consumer with   *)
(* the recheck of exit candidates (on_exit); and resync, which re-judges   *)
(* every process when the rules change or the daemon starts.  None of them *)
(* holds a lock across its look at /proc and its write.                    *)
(*                                                                         *)
(* A process is its image (what /proc/<pid>/exe resolves to) and its start *)
(* time; a rule set is the executables it refuses outright and those that  *)
(* compilable_exe_paths leaves out (RuleEval models how both follow from   *)
(* the rules).  The kernel's table is keyed by the name execve was given,  *)
(* which may be an alias of the image.                                     *)
(***************************************************************************)
EXTENDS Naturals, FiniteSets, Sequences, SequencesExt

CONSTANTS
    Pids,        \* process ids
    Names,       \* what execve can be given
    Target,      \* the image each name resolves to
    RuleSets,    \* rule sets: [denies : names refused outright, uidScoped : names not compilable]
    GroupDeadKnown,     \* whether this kernel reports group_dead: a subset of BOOLEAN
    Windows,     \* what may happen inside a window the code leaves open: "exec", "reuse", "exit", "rules"
    RingCap,     \* records a ring holds (the rings are 256 and 64 KiB)
    PendingCap,  \* MAX_PENDING_EXITS
    TableCap,    \* entries EXE_RULES holds
    MaxBirths, MaxExecs, MaxEdits, MaxCrashes   \* bounds of the model

Unknown == "unknown"
Images == {Target[n] : n \in Names}
Runners == {"start", "edit"}
Gone == 0            \* no start time: /proc/<pid> is absent
Births == 1..MaxBirths

ASSUME ConstantsAssumption ==
    /\ Target \in [Names -> Names] /\ \A i \in Images : Target[i] = i
    /\ Unknown \notin Names /\ 0 \notin Pids
    /\ RuleSets \subseteq [denies : SUBSET (Names \cup {Unknown}), uidScoped : SUBSET Names]
    /\ GroupDeadKnown \subseteq BOOLEAN /\ Windows \subseteq {"exec", "reuse", "exit", "rules"}
    /\ {RingCap, PendingCap, TableCap, MaxBirths, MaxExecs} \subseteq Nat \ {0}
    /\ {MaxEdits, MaxCrashes} \subseteq Nat

VARIABLES
    \* the machine
    groupDead,   \* EXIT_GROUP_DEAD_OFF is readable
    proc,        \* the process table of the kernel, with /proc's view of it
    births, execs, crashes, changes,
    \* pinned in the kernel
    attached,    \* the exec and exit programs are attached
    verdicts,    \* VERDICTS: the pids that hold a DENY
    exeRules,    \* EXE_RULES: the names refused at exec
    exeGate,        \* EXE_RULES_ON
    \* the daemon
    mode,        \* how far the daemon has come up
    rules,       \* the engine's rules (kept on disk)
    memo,        \* last_compiled
    table,       \* KernelProcTable: the fresh exec records, each with the start time read for it
    resync,      \* the mutex of the resync runs
    runner,      \* the two threads that resync
    execRing, exitRing,
    execTask, exitTask, recheck,
    pending,     \* exit candidates, oldest first
    lost         \* ghost: pids whose exec or exit this daemon may never learn of

machine == <<groupDead, proc, births, execs, crashes, changes>>
pins == <<attached, verdicts, exeRules, exeGate>>
threads == <<resync, runner, execTask, exitTask, recheck>>
denyVars == <<machine, pins, mode, rules, memo, table, threads, execRing, exitRing, pending, lost>>

Idle == [pc |-> "idle", view |-> {}, deny |-> {}, clear |-> {}, known |-> {}, orphans |-> {},
         doomed |-> {}]
NoExec == [pc |-> "idle", pid |-> 0, deny |-> FALSE]
NoExit == [pc |-> "idle", pid |-> 0]
NoRecheck == [pc |-> "idle", pid |-> 0, taken |-> <<>>, waiting |-> <<>>]

(***************************************************************************)
(* What the daemon can learn.                                              *)
(***************************************************************************)

\* Engine::denies_process_wide on a process with this executable.
Denies(rs, exe) == exe \in rs.denies

\* The entries compile_rules asks for: refused names no uid-scoped rule touches.
Refusable(rs) == (rs.denies \cap Names) \ rs.uidScoped

\* The start time in /proc/<pid>/stat; a zombie still has one.
StartTime(p) == IF proc[p].st = "none" THEN Gone ELSE proc[p].born

\* /proc/<pid>/exe can be read: the leader still has its memory map.
Readable(p) == proc[p].st = "live"

\* process_group_is_gone: reaped, or a zombie leader alone.
GroupIsGone(p) == proc[p].st \in {"none", "zombie"}

\* The rule observer is in place (set before the first resync).
Observing == mode \in {"sync", "start", "up"}

\* The ring consumers run.
Consuming == mode \in {"start", "up"}

Candidates == ToSet(pending) \cup ToSet(recheck.taken) \cup ToSet(recheck.waiting)

\* The windows the code leaves open, which Windows opens: a judgement about
\* this pid has been made, its write is still to come, and the write's own guard
\* (the start time) would not notice.
Evicting(p) == p \in {exitTask.pid, recheck.pid}

ExecUnnoticed(p) ==
    \/ \E r \in Runners : \/ [pid |-> p, exe |-> proc[p].exe, born |-> proc[p].born] \in runner[r].view
                          \/ p \in runner[r].deny \cup runner[r].clear
                          \/ [pid |-> p, born |-> proc[p].born] \in runner[r].doomed
    \/ Evicting(p)

ReuseUnnoticed(p) ==
    \/ \E r \in Runners : [pid |-> p, born |-> Gone] \in runner[r].doomed \/ p \in runner[r].clear
    \/ Evicting(p)
    \/ ~groupDead /\ (p \in ToSet(exitRing) \/ \E c \in Candidates : c.pid = p)

ExitUnnoticed(p) ==
    \/ execTask.pc = "write" /\ execTask.pid = p
    \/ \E r \in Runners : p \in runner[r].deny

(***************************************************************************)
(* Processes, and the two kernel programs.                                 *)
(***************************************************************************)

\* fork: a new process runs its parent's image under a free pid.  No event.
Spawn(p, image) ==
    /\ births < MaxBirths
    /\ proc[p].st = "none"
    /\ "reuse" \in Windows \/ ~ReuseUnnoticed(p)
    /\ births' = births + 1
    /\ proc' = [proc EXCEPT ![p] = [st |-> "live", exe |-> image, born |-> births + 1]]
    /\ UNCHANGED <<groupDead, execs, crashes, changes, pins, mode, rules, memo, table, threads,
                   execRing, exitRing, pending, lost>>

\* precommit_verdict: the name execve was given decides, and anything else clears.
PrecommitVerdict(p, name) ==
    IF exeGate /\ name \in exeRules THEN verdicts \cup {p} ELSE verdicts \ {p}

\* A ring record; a daemon that is down reads none, a full ring drops it.
Publish(ring, p) == IF mode # "down" /\ Len(ring) < RingCap THEN Append(ring, p) ELSE ring
Drops(ring) == mode # "down" /\ Len(ring) >= RingCap

\* execve, with the exec program's whole run when it is attached.
Exec(p, name) ==
    /\ execs < MaxExecs
    /\ proc[p].st = "live"
    /\ "exec" \in Windows \/ ~ExecUnnoticed(p)
    /\ execs' = execs + 1
    /\ proc' = [proc EXCEPT ![p].exe = Target[name]]
    /\ \/ /\ attached
          /\ verdicts' = PrecommitVerdict(p, name)
          /\ execRing' = Publish(execRing, p)
          /\ lost' = IF Drops(execRing) THEN lost \cup {p} ELSE lost \ {p}
       \/ ~attached /\ UNCHANGED <<verdicts, execRing, lost>>
    /\ UNCHANGED <<groupDead, births, crashes, changes, attached, exeRules, exeGate, mode, rules, memo,
                   table, threads, exitRing, pending>>

\* sched_process_exit: where the kernel says group_dead its program evicts the
\* pid, elsewhere it only names a candidate.  The group is still visible.
Exit(p) ==
    /\ proc[p].st = "live"
    /\ "exit" \in Windows \/ ~ExitUnnoticed(p)
    /\ proc' = [proc EXCEPT ![p].st = "dying"]
    /\ \/ /\ attached
          /\ verdicts' = IF groupDead THEN verdicts \ {p} ELSE verdicts
          /\ exitRing' = Publish(exitRing, p)
          /\ lost' = IF Drops(exitRing) THEN lost \cup ({p} \cap verdicts') ELSE lost
       \/ ~attached /\ UNCHANGED <<verdicts, exitRing, lost>>
    /\ UNCHANGED <<groupDead, births, execs, crashes, changes, attached, exeRules, exeGate, mode, rules,
                   memo, table, threads, execRing, pending>>

\* The last thread is gone; later the parent reaps the leader.
Reap(p) ==
    /\ proc[p].st \in {"dying", "zombie"}
    /\ proc' = [proc EXCEPT ![p].st = IF @ = "dying" THEN "zombie" ELSE "none"]
    /\ UNCHANGED <<groupDead, births, execs, crashes, changes, pins, mode, rules, memo, table,
                   threads, execRing, exitRing, pending, lost>>

(***************************************************************************)
(* The daemon comes up: it replaces the tracepoint pins, sweeps the pids   *)
(* that are gone, installs the rule observer, resyncs, starts the          *)
(* consumers and declares the process table live.                          *)
(***************************************************************************)

DropStalePins ==
    /\ mode = "down"
    /\ mode' = "attach" /\ attached' = FALSE
    /\ UNCHANGED <<machine, verdicts, exeRules, exeGate, rules, memo, table, threads, execRing,
                   exitRing, pending, lost>>

AttachTracepoints ==
    /\ mode = "attach"
    /\ mode' = "sweep" /\ attached' = TRUE
    /\ UNCHANGED <<machine, verdicts, exeRules, exeGate, rules, memo, table, threads, execRing,
                   exitRing, pending, lost>>

Sweep ==
    /\ mode = "sweep"
    /\ verdicts' = {p \in verdicts : proc[p].st # "none"}
    /\ mode' = "sync"
    /\ runner' = [runner EXCEPT !["start"].pc = "wait"]
    /\ UNCHANGED <<machine, attached, exeRules, exeGate, rules, memo, table, resync, execTask,
                   exitTask, recheck, execRing, exitRing, pending, lost>>

SpawnConsumers ==
    /\ mode = "sync" /\ runner["start"].pc = "idle"
    /\ mode' = "start"
    /\ UNCHANGED <<machine, pins, rules, memo, table, threads, execRing, exitRing, pending, lost>>

SetLive ==
    /\ mode = "start"
    /\ mode' = "up"
    /\ UNCHANGED <<machine, pins, rules, memo, table, threads, execRing, exitRing, pending, lost>>

\* The daemon dies at any point.  The pins stay; everything else of it is gone.
DaemonDies ==
    /\ mode # "down" /\ crashes < MaxCrashes
    /\ crashes' = crashes + 1
    /\ mode' = "down" /\ memo' = <<>> /\ table' = {} /\ resync' = "free"
    /\ runner' = [r \in Runners |-> Idle]
    /\ execTask' = NoExec /\ exitTask' = NoExit /\ recheck' = NoRecheck
    /\ execRing' = <<>> /\ exitRing' = <<>> /\ pending' = <<>> /\ lost' = {}
    /\ UNCHANGED <<groupDead, proc, births, execs, changes, pins, rules>>

\* An edit or an expiry publishes new rules and then calls the observer.  The next
\* one waits for it (RuleStore's mutation lock).
RuleChange(rs) ==
    /\ mode # "down" /\ changes < MaxEdits
    /\ runner["edit"].pc = "idle" /\ rs # rules
    /\ "rules" \in Windows \/ (execTask.pc # "write" /\ mode # "start")
    /\ changes' = changes + 1
    /\ rules' = rs
    /\ runner' = IF Observing THEN [runner EXCEPT !["edit"].pc = "wait"] ELSE runner
    /\ UNCHANGED <<groupDead, proc, births, execs, crashes, pins, mode, memo, table, resync,
                   execTask, exitTask, recheck, execRing, exitRing, pending, lost>>

(***************************************************************************)
(* VerdictSink::resync.                                                    *)
(***************************************************************************)

\* What a run leaves alone: everything but its own record and what it names.
RunnerStep(r, rec) == runner' = [runner EXCEPT ![r] = rec]

\* The table after the removals and the insertions that fit; hash order decides
\* which ones do.
Compiled(w) ==
    {s \in SUBSET w : /\ (exeRules \cap w) \subseteq s
                      /\ Cardinality(s) = (IF Cardinality(w) < TableCap THEN Cardinality(w)
                                           ELSE TableCap)}

\* compile_rules.  The memo is the last set that was written whole.
CompileRules ==
    LET w == Refusable(rules) IN
    \/ memo = <<w>> /\ UNCHANGED <<exeRules, exeGate, memo>>
    \/ /\ memo # <<w>>
       /\ exeRules' \in Compiled(w)
       /\ exeGate' = (exeRules' # {})
       /\ memo' = IF exeRules' = w THEN <<w>> ELSE memo

ResyncCompile(r) ==
    /\ runner[r].pc = "wait" /\ resync = "free"
    /\ resync' = r
    /\ CompileRules
    /\ RunnerStep(r, [runner[r] EXCEPT !.pc = "view"])
    /\ UNCHANGED <<machine, attached, verdicts, mode, rules, table, execTask, exitTask, recheck,
                   execRing, exitRing, pending, lost>>

\* live_processes (none before set_live), and proc_view of each.
ResyncView(r) ==
    LET live == IF mode = "up" THEN {t.pid : t \in table} ELSE {} IN
    /\ runner[r].pc = "view"
    /\ RunnerStep(r, [runner[r] EXCEPT !.pc = "decide", !.known = live,
                        !.view = {[pid |-> p, exe |-> proc[p].exe, born |-> proc[p].born] :
                                  p \in {q \in live : Readable(q)}}])
    /\ UNCHANGED <<machine, pins, mode, rules, memo, table, resync, execTask, exitTask, recheck,
                   execRing, exitRing, pending, lost>>

\* The views that still have their start time are judged; a process that died
\* meanwhile and is not reaped has it too.
Redated(views) == {v \in views : StartTime(v.pid) = v.born}

ResyncDecide(r) ==
    LET now == Redated(runner[r].view) IN
    /\ runner[r].pc = "decide"
    /\ RunnerStep(r, [runner[r] EXCEPT !.pc = "write", !.view = {},
                        !.deny = {v.pid : v \in {x \in now : Denies(rules, x.exe)}},
                        !.clear = {v.pid : v \in {x \in now : ~Denies(rules, x.exe)}}])
    /\ lost' = lost \cup {v.pid : v \in {x \in now : ~Readable(x.pid)}}
    /\ UNCHANGED <<machine, pins, mode, rules, memo, table, resync, execTask, exitTask, recheck,
                   execRing, exitRing, pending>>

ResyncWrite(r) ==
    /\ runner[r].pc = "write"
    /\ verdicts' = (verdicts \cup runner[r].deny) \ runner[r].clear
    /\ RunnerStep(r, [runner[r] EXCEPT !.pc = "orphans", !.deny = {}, !.clear = {}])
    /\ UNCHANGED <<machine, attached, exeRules, exeGate, mode, rules, memo, table, resync, execTask,
                   exitTask, recheck, execRing, exitRing, pending, lost>>

\* The entries the live list does not cover.
ResyncOrphans(r) ==
    /\ runner[r].pc = "orphans"
    /\ RunnerStep(r, [runner[r] EXCEPT !.pc = "judge", !.known = {},
                        !.orphans = verdicts \ runner[r].known])
    /\ UNCHANGED <<machine, pins, mode, rules, memo, table, resync, execTask, exitTask, recheck,
                   execRing, exitRing, pending, lost>>

\* Each orphan as it is now; doomed when it is gone or no longer refused.
ResyncJudge(r) ==
    /\ runner[r].pc = "judge"
    /\ RunnerStep(r, [runner[r] EXCEPT !.pc = "redate", !.orphans = {},
                        !.doomed = {[pid |-> p, born |-> IF Readable(p) THEN proc[p].born ELSE Gone] :
                                    p \in {q \in runner[r].orphans :
                                           ~(Readable(q) /\ Denies(rules, proc[q].exe))}}])
    /\ UNCHANGED <<machine, pins, mode, rules, memo, table, resync, execTask, exitTask, recheck,
                   execRing, exitRing, pending, lost>>

\* Only what was judged: the pid has no process now, or the same one.
Clearable(doomed) ==
    {v.pid : v \in {x \in doomed : StartTime(x.pid) \in {Gone, x.born}}}

\* A dead but unreaped pid has no image to read and still has a start time: it is
\* judged gone and then taken for a new owner.
Spared(doomed) ==
    {p \in Pids : [pid |-> p, born |-> Gone] \in doomed /\ proc[p].st \in {"dying", "zombie"}}

ResyncRedate(r) ==
    /\ runner[r].pc = "redate"
    /\ RunnerStep(r, [runner[r] EXCEPT !.pc = "clear", !.doomed = {},
                        !.clear = Clearable(runner[r].doomed)])
    /\ lost' = lost \cup Spared(runner[r].doomed)
    /\ UNCHANGED <<machine, pins, mode, rules, memo, table, resync, execTask, exitTask, recheck,
                   execRing, exitRing, pending>>

ResyncClear(r) ==
    /\ runner[r].pc = "clear"
    /\ verdicts' = verdicts \ runner[r].clear
    /\ resync' = "free"
    /\ RunnerStep(r, Idle)
    /\ UNCHANGED <<machine, attached, exeRules, exeGate, mode, rules, memo, table, execTask, exitTask,
                   recheck, execRing, exitRing, pending, lost>>

Resync(r) ==
    \/ ResyncCompile(r) \/ ResyncView(r) \/ ResyncDecide(r) \/ ResyncWrite(r)
    \/ ResyncOrphans(r) \/ ResyncJudge(r) \/ ResyncRedate(r) \/ ResyncClear(r)

(***************************************************************************)
(* The exec consumer: record the process, judge it as /proc shows it,      *)
(* write the answer.                                                       *)
(***************************************************************************)

WithoutRecord(p) == {t \in table : t.pid # p}

\* observe_exec: a second exec replaces the first.
ExecTake ==
    /\ Consuming /\ execTask.pc = "idle" /\ execRing # <<>>
    /\ execRing' = Tail(execRing)
    /\ LET p == Head(execRing) IN table' = WithoutRecord(p) \cup {[pid |-> p, born |-> StartTime(p)]}
    /\ execTask' = [pc |-> "judge", pid |-> Head(execRing), deny |-> FALSE]
    /\ UNCHANGED <<machine, pins, mode, rules, memo, resync, runner, exitTask, recheck, exitRing,
                   pending, lost>>

\* on_exec decides on the resolved path; an unreadable one stays unknown.
\* Faulty variant: the path the kernel gave is not resolved, so no rule knows it.
OnExecImageUnresolved(p) == Unknown
OnExecImage(p) == IF Readable(p) THEN proc[p].exe ELSE Unknown

OnExecJudge ==
    /\ execTask.pc = "judge"
    /\ execTask' = [execTask EXCEPT !.pc = "write", !.deny = Denies(rules, OnExecImage(execTask.pid))]
    /\ UNCHANGED <<machine, pins, mode, rules, memo, table, resync, runner, exitTask, recheck,
                   execRing, exitRing, pending, lost>>

OnExecWrite ==
    /\ execTask.pc = "write"
    /\ verdicts' = IF execTask.deny THEN verdicts \cup {execTask.pid} ELSE verdicts \ {execTask.pid}
    /\ execTask' = NoExec
    /\ UNCHANGED <<machine, attached, exeRules, exeGate, mode, rules, memo, table, resync, runner,
                   exitTask, recheck, execRing, exitRing, pending, lost>>

\* ENTRY_TTL: a record older than an hour no longer counts as live.
ExpireRecord(p) ==
    /\ table' = WithoutRecord(p) /\ table' # table
    /\ UNCHANGED <<machine, pins, mode, rules, memo, threads, execRing, exitRing, pending, lost>>

(***************************************************************************)
(* The exit consumer and the recheck of the candidates it could not settle.*)
(***************************************************************************)

\* The newest PendingCap candidates; what falls off is forgotten.
Newest(q) == SubSeq(q, IF Len(q) > PendingCap THEN Len(q) - PendingCap + 1 ELSE 1, Len(q))
Forgotten(q) == {c.pid : c \in ToSet(q) \ ToSet(Newest(q))} \cap verdicts

ExitTake ==
    LET p == Head(exitRing)
        queue == Append(pending, [pid |-> p, born |-> StartTime(p)]) IN
    /\ Consuming /\ exitTask.pc = "idle" /\ exitRing # <<>>
    /\ exitRing' = Tail(exitRing)
    /\ \/ /\ GroupIsGone(p)
          /\ exitTask' = [pc |-> "evict", pid |-> p]
          /\ UNCHANGED <<pending, lost>>
       \/ /\ ~GroupIsGone(p)
          /\ pending' = Newest(queue) /\ lost' = lost \cup Forgotten(queue)
          /\ UNCHANGED exitTask
    /\ UNCHANGED <<machine, pins, mode, rules, memo, table, resync, runner, execTask, recheck,
                   execRing>>

\* evict_exited: the identity and the verdict.
\* Faulty variant: only the identity.
EvictIdentity(p) == table' = WithoutRecord(p) /\ UNCHANGED verdicts
Evict(p) == table' = WithoutRecord(p) /\ verdicts' = verdicts \ {p}

ExitEvict ==
    /\ exitTask.pc = "evict"
    /\ Evict(exitTask.pid)
    /\ exitTask' = NoExit
    /\ UNCHANGED <<machine, attached, exeRules, exeGate, mode, rules, memo, resync, runner, execTask,
                   recheck, execRing, exitRing, pending, lost>>

\* The tick takes the whole list.
RecheckTick ==
    /\ Consuming /\ recheck.pc = "idle" /\ pending # <<>>
    /\ recheck' = [recheck EXCEPT !.pc = "look", !.taken = pending]
    /\ pending' = <<>>
    /\ UNCHANGED <<machine, pins, mode, rules, memo, table, resync, runner, execTask, exitTask,
                   execRing, exitRing, lost>>

\* One candidate: evict, keep, or forget because the pid has another owner.
Keeps(c) == StartTime(c.pid) \in {Gone, c.born}

RecheckLook ==
    LET c == Head(recheck.taken) IN
    /\ recheck.pc = "look" /\ recheck.taken # <<>>
    /\ recheck' =
         [recheck EXCEPT
            !.taken = Tail(@),
            !.pc = IF GroupIsGone(c.pid) THEN "evict" ELSE "look",
            !.pid = IF GroupIsGone(c.pid) THEN c.pid ELSE 0,
            !.waiting = IF ~GroupIsGone(c.pid) /\ Keeps(c) THEN Append(@, c) ELSE @]
    /\ UNCHANGED <<machine, pins, mode, rules, memo, table, resync, runner, execTask, exitTask,
                   execRing, exitRing, pending, lost>>

RecheckEvict ==
    /\ recheck.pc = "evict"
    /\ Evict(recheck.pid)
    /\ recheck' = [recheck EXCEPT !.pc = "look", !.pid = 0]
    /\ UNCHANGED <<machine, attached, exeRules, exeGate, mode, rules, memo, resync, runner, execTask,
                   exitTask, execRing, exitRing, pending, lost>>

\* requeue: those still waiting go ahead of those that came during the tick.
Requeue ==
    LET queue == recheck.waiting \o pending IN
    /\ recheck.pc = "look" /\ recheck.taken = <<>>
    /\ pending' = Newest(queue) /\ lost' = lost \cup Forgotten(queue)
    /\ recheck' = NoRecheck
    /\ UNCHANGED <<machine, pins, mode, rules, memo, table, resync, runner, execTask, exitTask,
                   execRing, exitRing>>

DenyInit ==
    /\ groupDead \in GroupDeadKnown
    /\ proc = [p \in Pids |-> [st |-> "none", exe |-> Unknown, born |-> Gone]]
    /\ births = 0 /\ execs = 0 /\ crashes = 0 /\ changes = 0
    /\ attached = FALSE /\ verdicts = {} /\ exeRules = {} /\ exeGate = FALSE
    /\ mode = "down" /\ rules \in RuleSets /\ memo = <<>> /\ table = {}
    /\ resync = "free" /\ runner = [r \in Runners |-> Idle]
    /\ execRing = <<>> /\ exitRing = <<>> /\ pending = <<>>
    /\ execTask = NoExec /\ exitTask = NoExit /\ recheck = NoRecheck
    /\ lost = {}

Machine ==
    \/ \E p \in Pids, i \in Images : Spawn(p, i)
    \/ \E p \in Pids, n \in Names : Exec(p, n)
    \/ \E p \in Pids : Exit(p) \/ Reap(p)

Daemon ==
    \/ DropStalePins \/ AttachTracepoints \/ Sweep \/ SpawnConsumers \/ SetLive \/ DaemonDies
    \/ \E rs \in RuleSets : RuleChange(rs)
    \/ \E r \in Runners : Resync(r)
    \/ ExecTake \/ OnExecJudge \/ OnExecWrite
    \/ \E p \in Pids : ExpireRecord(p)
    \/ ExitTake \/ ExitEvict \/ RecheckTick \/ RecheckLook \/ RecheckEvict \/ Requeue

DenyNext == Machine \/ Daemon

DenySpec == DenyInit /\ [][DenyNext]_denyVars

(***************************************************************************)
(* Properties.                                                             *)
(***************************************************************************)

\* The rules have reached the kernel as far as they ever will by themselves.
Settled == mode = "up" /\ \A r \in Runners : runner[r].pc = "idle"

\* Nothing of the daemon is under way for this pid.
QuietFor(p) ==
    /\ Settled
    /\ p \notin ToSet(execRing) \cup ToSet(exitRing)
    /\ \A c \in Candidates : c.pid # p
    /\ p \notin {execTask.pid, exitTask.pid, recheck.pid}

\* An entry of VERDICTS is owed to the image its pid runs now, under the rules of
\* now: not to an earlier owner of the pid, an earlier image, an alias, a rule that
\* is gone or a previous daemon.
DenyDeserved ==
    \A p \in verdicts \ lost :
        QuietFor(p) => proc[p].st \in {"live", "dying"} /\ Denies(rules, proc[p].exe)

\* A running process with a fresh exec record whose image the rules refuse is
\* refused in the kernel, also when the rule came after it started.
DenyInstalled ==
    \A p \in Pids \ lost :
        /\ QuietFor(p) /\ proc[p].st = "live" /\ [pid |-> p, born |-> proc[p].born] \in table
        /\ Denies(rules, proc[p].exe)
        => p \in verdicts

===============================================================================
