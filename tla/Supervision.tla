----------------------------- MODULE Supervision -----------------------------
(***************************************************************************)
(* The daemon's life under systemd: start-up (config, store, control       *)
(* socket, queue, READY=1, the eBPF layer), the reload of the policy, the  *)
(* shutdown path, the watchdog heartbeat and the nftables probe, against   *)
(* wedged workers, crashing tasks, a stepped wall clock and a ruleset that *)
(* comes and goes.  Time is counted in watchdog ticks (10 s).              *)
(***************************************************************************)
EXTENDS Integers

CONSTANTS
    WorkerStall,        \* WORKER_STALL_MS
    WatchdogSec,        \* WatchdogSec of the unit
    ProbeInterval,      \* NFT_PRESENCE_INTERVAL
    Grace,              \* ENFORCING_GRACE_SECS
    DryRun,             \* --dry-run
    ConfigFiles,        \* contents the config file may have
    ClockSteps,         \* sizes of the steps the wall clock may make
    MaxDisturbances     \* bound of the model: failures, clock steps, edits, table changes, SIGHUPs

ASSUME SuperAssumption ==
    /\ ProbeInterval \in Nat \ {0} /\ Grace \in Nat /\ WorkerStall \in Nat /\ WatchdogSec \in Nat
    /\ DryRun \in BOOLEAN /\ ClockSteps \subseteq Int /\ MaxDisturbances \in Nat

VARIABLES
    phase,       \* down, store, bind, chown, chmod, queue, ready, ebpf, running, failed, stopped
    sock,        \* the control socket's file: present, group, mode
    worker,      \* none, working, wedged
    age,         \* wall clock minus last_activity
    beat,        \* since the last WATCHDOG=1 (or READY=1)
    due,         \* what must still happen in this tick: loop, watchdog, probe
    uptime, probeIn, gone,        \* since start; until the next probe; since the table went and every probe answered
    table, presence, packets,     \* the nftables table; Stats::nft_table; a packet was seen
    file, policy, level,          \* the config file; the shared default policy; enforcement_level
    budget       \* disturbances left

superVars == <<phase, sock, worker, age, beat, due, uptime, probeIn, gone, table, presence, packets,
               file, policy, level, budget>>
timeVars == <<age, beat, due, uptime, probeIn, gone>>
netVars == <<table, presence, packets>>

(***************************************************************************)
(* Configuration: a profile, and the [default_policy] fields written out.  *)
(* "absent" is a field not written; an unknown profile counts as balanced. *)
(***************************************************************************)
Profile(name) ==
    [no_ui |-> "deny", timeout |-> "deny", inbound |-> IF name = "relaxed" THEN "reject" ELSE "deny"]
Over(written, base) == IF written = "absent" THEN base ELSE written

\* DefaultPolicyToml::resolve: inbound is never allowed by default.
Resolve(f) ==
    LET base == Profile(f.profile)
        inbound == Over(f.inbound, base.inbound)
    IN [no_ui |-> Over(f.no_ui, base.no_ui), timeout |-> base.timeout,
        inbound |-> IF inbound = "allow" THEN "deny" ELSE inbound]

\* load_or_default: a file that does not parse or sets fail_open is refused.
Loads(f) == f.parses /\ ~f.fail_open

(***************************************************************************)
(* Start-up.                                                               *)
(***************************************************************************)
NoSock == [present |-> FALSE, group |-> "root", mode |-> "owner"]
Goes(from, to) == phase = from /\ phase' = to

LoadConfig ==
    /\ Goes("down", "store") /\ Loads(file)
    /\ policy' = Resolve(file)
    /\ age' = 0 /\ beat' = 0 /\ uptime' = 0 /\ probeIn' = 0 /\ due' = {} /\ gone' = gone
    /\ presence' = "unknown" /\ packets' = FALSE /\ level' = "starting"
    /\ UNCHANGED <<sock, worker, table, file, budget>>

\* Any step before READY may fail: the process exits and systemd tries again.
StartFails ==
    /\ phase \in {"down", "store", "bind", "queue"} /\ (phase = "down" => ~Loads(file))
    /\ budget > 0 /\ budget' = budget - 1
    /\ phase' = "failed"
    /\ UNCHANGED <<sock, worker, timeVars, netVars, file, policy, level>>

OpenStore ==
    /\ Goes("store", "bind")
    /\ UNCHANGED <<sock, worker, timeVars, netVars, file, policy, level, budget>>

\* ipc::spawn: unlink, umask 077, bind; secure_socket: chown, then chmod.
BindSocket ==
    /\ Goes("bind", "chown")
    /\ sock' = [present |-> TRUE, group |-> "root", mode |-> "owner"]
    /\ UNCHANGED <<worker, timeVars, netVars, file, policy, level, budget>>
\* Without the group, or when chown fails, the file keeps root's group.
ChownSocket(ok) ==
    /\ Goes("chown", "chmod")
    /\ sock' = IF ok THEN [sock EXCEPT !.group = "colony"] ELSE sock
    /\ UNCHANGED <<worker, timeVars, netVars, file, policy, level, budget>>
ChmodSocket(ok) ==
    /\ Goes("chmod", "queue")
    /\ sock' = IF ok /\ sock.group = "colony" THEN [sock EXCEPT !.mode = "group"] ELSE sock
    /\ UNCHANGED <<worker, timeVars, netVars, file, policy, level, budget>>

\* nfqueue::spawn (inert under --dry-run); the housekeeping tasks start with it.
BindQueue ==
    /\ Goes("queue", "ready")
    /\ worker' = IF DryRun THEN "none" ELSE "working"
    /\ age' = 0 /\ due' = {"watchdog"} \cup (IF DryRun THEN {} ELSE {"loop"})
    /\ UNCHANGED <<sock, beat, uptime, probeIn, gone, netVars, file, policy, level, budget>>

\* READY=1, which arms systemd's watchdog.
NotifyReady ==
    /\ Goes("ready", "ebpf") /\ beat' = 0
    /\ UNCHANGED <<sock, worker, age, due, uptime, probeIn, gone, netVars, file, policy, level, budget>>

\* flush_legacy_fast_allow_set, ebpf::start, set_enforcement_level: may fail, never fatal.
StartEbpf(reached) ==
    /\ Goes("ebpf", "running") /\ level' = IF DryRun THEN "queue" ELSE reached
    /\ UNCHANGED <<sock, worker, timeVars, netVars, file, policy, budget>>

Ready == phase \in {"ebpf", "running"}

(***************************************************************************)
(* Running.                                                                *)
(***************************************************************************)
\* The worker stamps once per pass of its loop, packet or not.
WorkerLoop(packet) ==
    /\ worker = "working" /\ phase \in {"ready", "ebpf", "running"}
    /\ age' = 0 /\ due' = due \ {"loop"} /\ (packet => table)
    /\ packets' = (packets \/ packet)
    /\ UNCHANGED <<phase, sock, worker, beat, uptime, probeIn, gone, table, presence, file, policy, level, budget>>

Wedges ==
    /\ worker = "working" /\ Ready
    /\ worker' = "wedged" /\ due' = due \ {"loop"}
    /\ UNCHANGED <<phase, sock, age, beat, uptime, probeIn, gone, netVars, file, policy, level, budget>>

\* spawn_watchdog: the heartbeat is withheld once the stamp is too old.
\* Faulty variant: it is sent whatever the stamp.
HealthyAlways == TRUE
Healthy == DryRun \/ age < WorkerStall
WatchdogTick ==
    /\ "watchdog" \in due /\ due' = due \ {"watchdog"}
    /\ beat' = IF Healthy THEN 0 ELSE beat
    /\ UNCHANGED <<phase, sock, worker, age, uptime, probeIn, gone, netVars, file, policy, level, budget>>

\* spawn_nft_presence_probe, table_loaded: "no such object" is an answer, anything
\* else that goes wrong leaves the previous one standing.
Probe(answers) ==
    /\ "probe" \in due /\ due' = due \ {"probe"}
    /\ presence' = IF ~answers THEN presence ELSE IF table THEN "present" ELSE "absent"
    /\ gone' = IF answers THEN gone ELSE 0
    /\ UNCHANGED <<phase, sock, worker, age, beat, uptime, probeIn, table, packets, file, policy, level, budget>>

\* The next tick begins when everything due in this one has run.
Cap(n, max) == IF n < max THEN n + 1 ELSE max
Tick ==
    /\ phase \in {"ready", "ebpf", "running"} /\ due = {}
    /\ beat <= WatchdogSec
    /\ age' = Cap(age, WorkerStall) /\ beat' = Cap(beat, WatchdogSec + 1) /\ uptime' = Cap(uptime, Grace + 1)
    /\ gone' = IF table THEN 0 ELSE Cap(gone, ProbeInterval + 1)
    /\ probeIn' = IF probeIn = 0 THEN ProbeInterval - 1 ELSE probeIn - 1
    /\ due' = {"watchdog"} \cup (IF worker = "working" THEN {"loop"} ELSE {})
                           \cup (IF probeIn = 0 THEN {"probe"} ELSE {})
    /\ UNCHANGED <<phase, sock, worker, netVars, file, policy, level, budget>>

\* The worker's loop passes many times a tick, so it also passes after the step.
ClockStep(d) ==
    /\ budget > 0 /\ budget' = budget - 1
    /\ age' = IF age + d > WorkerStall THEN WorkerStall ELSE age + d
    /\ due' = IF worker = "working" THEN due \cup {"loop"} ELSE due
    /\ UNCHANGED <<phase, sock, worker, beat, uptime, probeIn, gone, netVars, file, policy, level>>

TableChanges ==
    /\ budget > 0 /\ budget' = budget - 1
    /\ table' = ~table /\ gone' = 0
    /\ UNCHANGED <<phase, sock, worker, age, beat, due, uptime, probeIn, presence, packets, file, policy, level>>

FileChanges(f) ==
    /\ budget > 0 /\ budget' = budget - 1 /\ f # file /\ file' = f
    /\ UNCHANGED <<phase, sock, worker, timeVars, netVars, policy, level>>

\* reload_policy on SIGHUP.
Reload ==
    /\ phase = "running" /\ budget > 0 /\ budget' = budget - 1
    /\ policy' = IF Loads(file) THEN Resolve(file) ELSE policy
    /\ UNCHANGED <<phase, sock, worker, timeVars, netVars, file, level>>

(***************************************************************************)
(* The end of a run.  SIGTERM stops for good; a task that ends takes the   *)
(* same path with an error; a kill leaves the socket's file behind.        *)
(***************************************************************************)
Shutdown(clean) ==
    /\ phase = "running" /\ (clean \/ budget > 0)
    /\ budget' = IF clean THEN budget ELSE budget - 1
    /\ phase' = IF clean THEN "stopped" ELSE "failed"
    /\ worker' = "none" /\ due' = {} /\ sock' = NoSock
    /\ UNCHANGED <<age, beat, uptime, probeIn, gone, netVars, file, policy, level>>

SystemdKills ==
    /\ Ready /\ due = {} /\ beat > WatchdogSec
    /\ phase' = "failed" /\ worker' = "none"
    /\ UNCHANGED <<sock, timeVars, netVars, file, policy, level, budget>>

Restarts ==
    /\ Goes("failed", "down") /\ due' = {}
    /\ UNCHANGED <<sock, worker, age, beat, uptime, probeIn, gone, netVars, file, policy, level, budget>>

SuperAt(p) ==
    /\ phase = p /\ sock = NoSock /\ worker = "none"
    /\ age = 0 /\ beat = 0 /\ due = {} /\ uptime = 0 /\ probeIn = 0 /\ gone = 0
    /\ presence = "unknown" /\ packets = FALSE
    /\ file \in ConfigFiles /\ policy = Resolve(file) /\ level = "starting"
    /\ budget = MaxDisturbances
SuperInit == SuperAt("down") /\ table \in BOOLEAN

Housekeeping == Tick \/ WatchdogTick \/ (\E ok \in BOOLEAN : WorkerLoop(ok) \/ Probe(ok))
StartUp ==
    \/ LoadConfig \/ OpenStore \/ BindSocket \/ BindQueue \/ NotifyReady
    \/ \E ok \in BOOLEAN : ChownSocket(ok) \/ ChmodSocket(ok)
    \/ \E l \in {"queue", "connect"} : StartEbpf(l)

SuperNext ==
    \/ Housekeeping \/ StartUp \/ StartFails \/ Wedges \/ TableChanges \/ Reload \/ SystemdKills \/ Restarts
    \/ \E d \in ClockSteps : ClockStep(d)
    \/ \E f \in ConfigFiles : FileChanges(f)
    \/ \E clean \in BOOLEAN : Shutdown(clean)

\* The tasks and the worker are scheduled, start-up goes on, systemd acts.
SuperFairness == WF_superVars(Housekeeping) /\ WF_superVars(StartUp) /\ WF_superVars(SystemdKills)

(***************************************************************************)
(* Status.                                                                 *)
(***************************************************************************)
\* enforcing_heuristic.  Faulty variant: a packet once seen is proof enough.
EnforcingByPackets ==
    ~DryRun /\ (packets \/ uptime <= Grace \/ presence = "present")
Enforcing ==
    /\ ~DryRun
    /\ \/ presence = "present"
       \/ presence = "absent" /\ uptime <= Grace
       \/ presence = "unknown" /\ (packets \/ uptime <= Grace)

(***************************************************************************)
(* Properties.                                                             *)
(***************************************************************************)

\* spawn_watchdog, WORKER_STALL_MS, WatchdogSec: a wedged worker does not stay, wherever
\* the wall clock was stepped meanwhile, and systemd kills no other: one step of the
\* clock under a working worker costs a heartbeat at most.
WedgedIsReplaced ==
    /\ worker = "wedged" ~> worker # "wedged"
    /\ [][SystemdKills => worker = "wedged"]_superVars

\* spawn_nft_presence_probe, enforcing_heuristic: once the table has been gone for
\* longer than the probe's interval, with every probe answered, status says so,
\* whatever was seen before.
GoneIsReported ==
    phase = "running" /\ due = {} /\ gone > ProbeInterval /\ uptime > Grace => ~Enforcing
==============================================================================
