----------------------------- MODULE KernelLoad -----------------------------
(***************************************************************************)
(* Bringing the eBPF layer up, on a kernel where an earlier daemon may have*)
(* left programs and maps pinned: main.rs, ebpf/mod.rs, ebpf/loader.rs and *)
(* ebpf/enforce.rs, with the offsets btf.rs and tracefs.rs look up and the *)
(* connect programs of cfc-ebpf.  A link pin is what keeps its program     *)
(* attached, so pins are not a variable of their own: a program is held by *)
(* its pin, by the pin of another ABI version, or by the daemon.  A map is *)
(* a copy, numbered by the start that created it; 0 is the one an earlier  *)
(* build left.  The daemon may die between any two steps, and a step may   *)
(* fail; KernelDeny models what is written once the layer is up.           *)
(***************************************************************************)
EXTENDS Integers, FiniteSets

CONSTANTS
  Kernels,    \* what this kernel offers and where its records keep their fields
  Leftovers,  \* what an earlier build may have left: "none", "oldAbi", "legacy"
  Sockets,
  OffsetMax,  \* TRACEPOINT_FIELD_OFFSET_MAX
  MaxStarts, MaxFaults   \* bounds of the model

Absent == -1
Connects == {"connect4", "connect6"}
Tracepoints == {"exec", "exit"}
Hooks == Connects \cup Tracepoints \cup {"dns", "sendmsg"}
Copies == 0..MaxStarts

ASSUME LoadAssumption ==
  /\ Leftovers \subseteq {"none", "oldAbi", "legacy"}
  /\ {OffsetMax, MaxStarts} \subseteq Nat \ {0} /\ MaxFaults \in Nat

VARIABLES
  kernel,    \* a member of Kernels
  hooks,     \* the programs attached to each hook
  mapPins,   \* the copies pinned: VERDICTS and its companions, and SOCK_PIDS
  denies,    \* copies of VERDICTS that refuse the process under study
  armed,     \* legacy Fast Allow: copies whose mark, deadline and grant are set
  nftSet,    \* the mark is in the fast_allow set
  marks,     \* the sockets' marks
  refused,   \* the rules refuse the process under study
  loader,    \* the daemon: how far it is, the maps it holds, what it reports
  starts, faults

kernelVars == <<kernel, hooks, mapPins, denies, armed, nftSet, marks, refused, loader, starts, faults>>

-----------------------------------------------------------------------------
(* What a program and a report are.                                        *)

Program(maps, sock, ring, held, cookie, field) ==
  [maps |-> maps, sock |-> sock, ring |-> ring, held |-> held, cookie |-> cookie, field |-> field]

InertReport == [exec |-> FALSE, exit |-> FALSE, dns |-> FALSE, level |-> "Off", pinned |-> FALSE,
                execField |-> Absent, exitField |-> Absent, ppid |-> FALSE, sockNote |-> FALSE]

Down == [pc |-> "down", pinDir |-> FALSE, inherited |-> FALSE, sockPinned |-> FALSE, maps |-> Absent,
         sock |-> Absent, execPinned |-> FALSE, sink |-> FALSE, clean |-> FALSE, report |-> InertReport]

IsLive(level) == level \in {"Process", "Pinned", "Inherited"}
SurvivesDaemon(level) == level \in {"Pinned", "Inherited"}

Pinned(h, hs) == \E x \in hs[h] : x.held = "pin"
Without(hs, h, held) == [hs EXCEPT ![h] = {x \in @ : x.held # held}]

\* A step that fails uses up one of the faults allowed.
Faulty(n) == faults + n <= MaxFaults /\ faults' = faults + n
Cost(ok) == IF ok THEN 0 ELSE 1

\* load_and_attach returns an error: the daemon goes on with an inert report.
Inert == [loader EXCEPT !.pc = "up", !.report = InertReport, !.clean = FALSE, !.sink = FALSE]

-----------------------------------------------------------------------------
(* Where the programs find their fields.                                   *)

\* The first field of that name in a tracepoint's format file.
NoField == [name |-> "", form |-> "", size |-> 0, offset |-> 0]
FieldNamed(format, name) ==
  LET hits == {i \in DOMAIN format : format[i].name = name}
  IN IF hits = {} THEN NoField ELSE format[CHOOSE i \in hits : \A j \in hits : i <= j]

\* exit_group_dead_offset: a byte, at an offset the program will accept.
ExitGroupDeadOffset ==
  LET f == FieldNamed(kernel.exitFormat, "group_dead")
  IN IF kernel.tracefs /\ f.size = 1 /\ f.offset <= OffsetMax THEN f.offset ELSE Absent

DefaultExecField == 8
Suppressed == 0

\* exec_filename_offset: what the program is told, and what the report says of
\* it.  Without a format file or the field in it, the built-in offset is kept.
ExecFilenameOffset ==
  LET f == FieldNamed(kernel.execFormat, "filename")
  IN CASE ~kernel.tracefs \/ f = NoField -> [told |-> DefaultExecField, says |-> Absent]
       [] f # NoField /\ (f.form # "data_loc" \/ f.size # 4 \/ f.offset > OffsetMax) ->
            [told |-> Suppressed, says |-> Absent]
       [] OTHER -> [told |-> f.offset, says |-> f.offset]

\* task_struct_offsets: both, or ppid stays 0.
TaskStructOffsets == kernel.btf

-----------------------------------------------------------------------------
(* Start-up, in the order of the code.                                     *)

\* main: flush the legacy nftables set, then ebpf::start; a layer that is
\* switched off reports itself inert.
Start ==
  /\ loader.pc = "down" /\ starts < MaxStarts
  /\ \E flushed, wanted \in BOOLEAN :
       /\ Faulty(Cost(flushed))
       /\ nftSet' = (nftSet /\ ~flushed)
       /\ loader' = [Down EXCEPT !.pc = IF wanted THEN "vet" ELSE "up", !.clean = flushed /\ wanted]
  /\ starts' = starts + 1
  /\ UNCHANGED <<kernel, hooks, mapPins, denies, armed, marks, refused>>

\* vet_object and the read.  Only a configured path may be untrusted.
VetObject ==
  /\ loader.pc = "vet"
  /\ \E object \in {"sealed", "untrusted", "missing", "unreadable"}, trust \in {"Warn", "Refuse"} :
       LET loads == object = "sealed" \/ (object = "untrusted" /\ trust = "Warn")
       IN /\ Faulty(Cost(loads))
          /\ loader' = IF loads THEN [loader EXCEPT !.pc = "prepare", !.report.ppid = TaskStructOffsets] ELSE Inert
  /\ UNCHANGED <<kernel, hooks, mapPins, denies, armed, nftSet, marks, refused, starts>>

\* unpin_other_versions and remove_legacy_pins; each removal may fail, and is
\* only logged.
UnpinOtherVersions(hs) == [h \in Hooks |-> {x \in hs[h] : x.held # "old"}]
RemoveLegacyPins(hs) == Without(hs, "sendmsg", "pin")

AlreadyAttached(hs) == \A c \in Connects : Pinned(c, hs)

\* prepare, and what is read from the pin directory before the load.
Prepare ==
  /\ loader.pc = "prepare"
  /\ \E mounted, unpinned, removed, created \in BOOLEAN :
       LET hs1 == IF mounted /\ unpinned THEN UnpinOtherVersions(hooks) ELSE hooks
           hs2 == IF mounted /\ created /\ removed THEN RemoveLegacyPins(hs1) ELSE hs1
           dir == mounted /\ created
       IN /\ mounted => kernel.bpffs
          /\ Faulty(Cost(mounted \/ ~kernel.bpffs) + Cost(unpinned) + Cost(removed) + Cost(created))
          /\ hooks' = hs2
          /\ loader' = [loader EXCEPT !.pc = "load", !.pinDir = dir, !.inherited = dir /\ AlreadyAttached(hs2),
                            !.sockPinned = dir /\ mapPins.sock # Absent,
                            !.clean = @ /\ dir /\ unpinned /\ removed]
  /\ UNCHANGED <<kernel, mapPins, denies, armed, nftSet, marks, refused, starts>>

\* EbpfLoader::load: a pinned map is opened, a missing one created and pinned.
\* A load that fails may have created some of them.
Opened(name) == IF loader.pinDir /\ mapPins[name] # Absent THEN mapPins[name] ELSE starts

Load ==
  /\ loader.pc = "load"
  /\ \E ok \in BOOLEAN, made \in SUBSET {"maps", "sock"} :
       /\ Faulty(Cost(ok)) /\ (ok => made = {"maps", "sock"})
       /\ mapPins' = [n \in DOMAIN mapPins |-> IF loader.pinDir /\ n \in made THEN Opened(n) ELSE mapPins[n]]
       /\ loader' = IF ~ok THEN Inert
               ELSE [loader EXCEPT !.pc = "disarm", !.maps = Opened("maps"), !.sock = Opened("sock"),
                              !.report.execField = ExecFilenameOffset.says,
                              !.report.exitField = ExitGroupDeadOffset]
  /\ UNCHANGED <<kernel, hooks, denies, armed, nftSet, marks, refused, starts>>

DisarmLegacyFastAllow(what) ==
  [f \in DOMAIN armed |-> IF f \in what THEN armed[f] \ {loader.maps} ELSE armed[f]]

Disarm ==
  /\ loader.pc = "disarm"
  /\ \E what \in SUBSET DOMAIN armed :
       /\ Faulty(Cost(what = DOMAIN armed))
       /\ armed' = DisarmLegacyFastAllow(what)
       /\ loader' = [loader EXCEPT !.pc = "dropExec", !.clean = @ /\ what = DOMAIN armed]
  /\ UNCHANGED <<kernel, hooks, mapPins, denies, nftSet, marks, refused, starts>>

\* drop_stale_link_pin: the previous run's program goes, or the load is off.
DropStaleLinkPin(pc, h, next) ==
  /\ loader.pc = pc
  /\ \E ok \in BOOLEAN :
       /\ ok \/ (loader.pinDir /\ Pinned(h, hooks))
       /\ Faulty(Cost(ok))
       /\ hooks' = IF ok /\ loader.pinDir THEN Without(hooks, h, "pin") ELSE hooks
       /\ loader' = IF ok THEN [loader EXCEPT !.pc = next] ELSE Inert
  /\ UNCHANGED <<kernel, mapPins, denies, armed, nftSet, marks, refused, starts>>

Mine(held, cookie, field) == Program(loader.maps, loader.sock, starts, held, cookie, field)

\* How a tracepoint ends up: pinned, attached for as long as the daemon lives
\* (re-attached when the pin fails), or not at all.
TracepointOutcomes ==
  {"fd", "none"} \cup (IF loader.pinDir /\ kernel.fdLink THEN {"pin"} ELSE {})
BestTracepoint == IF loader.pinDir /\ kernel.fdLink THEN "pin" ELSE "fd"

\* attach_tracepoint and record_attach.
AttachTracepoint(pc, h, field, next) ==
  /\ loader.pc = pc
  /\ \E held \in TracepointOutcomes :
       /\ Faulty(Cost(held = BestTracepoint))
       /\ hooks' = IF held = "none" THEN hooks ELSE [hooks EXCEPT ![h] = @ \cup {Mine(held, FALSE, field)}]
       /\ loader' = [loader EXCEPT !.pc = next, !.report[h] = (held # "none"), !.execPinned = (held = "pin"),
                         !.report.pinned = (h = "exit") /\ loader.execPinned /\ (held = "pin"),
                         !.clean = @ /\ held = BestTracepoint]
  /\ UNCHANGED <<kernel, mapPins, denies, armed, nftSet, marks, refused, starts>>

\* attach_dns, in Single mode: EEXIST when the slot is taken.  v2_root finds no
\* root on a kernel without the unified hierarchy.
AttachDns ==
  /\ loader.pc = "attachDns"
  /\ \E ok \in BOOLEAN :
       LET possible == kernel.cgroup2 /\ hooks["dns"] = {}
       IN /\ ok => possible
          /\ Faulty(Cost(ok \/ ~possible))
          /\ hooks' = IF ok THEN [hooks EXCEPT !["dns"] = {Mine("fd", FALSE, Absent)}] ELSE hooks
          /\ loader' = [loader EXCEPT !.pc = "enforce", !.report.dns = ok, !.clean = @ /\ (ok \/ ~possible)]
  /\ UNCHANGED <<kernel, mapPins, denies, armed, nftSet, marks, refused, starts>>

\* (fault) a half-attached leftover is left where it is.
KeepHalfAttached(removed) == hooks

\* drop_half_attached: the connect pins whose removal succeeds.
DropHalfAttached(removed) ==
  [h \in Hooks |-> IF h \in removed THEN {x \in hooks[h] : x.held # "pin"} ELSE hooks[h]]

\* Inherit what is attached, or clear the way for attaching afresh.
Enforce ==
  /\ loader.pc = "enforce"
  /\ \/ /\ loader.inherited
        /\ loader' = [loader EXCEPT !.pc = "maps", !.report.level = "Inherited"]
        /\ UNCHANGED <<hooks, faults>>
     \/ /\ ~loader.inherited /\ ~kernel.cgroup2
        /\ loader' = [loader EXCEPT !.pc = "maps", !.report.level = "Unavailable"]
        /\ UNCHANGED <<hooks, faults>>
     \/ /\ ~loader.inherited /\ kernel.cgroup2
        /\ \E removed \in SUBSET Connects :
             LET all == \A c \in Connects : ~loader.pinDir \/ ~Pinned(c, hooks) \/ c \in removed
             IN /\ Faulty(Cost(all))
                /\ hooks' = IF loader.pinDir THEN DropHalfAttached(removed) ELSE hooks
                /\ loader' = [loader EXCEPT !.pc = "connect4", !.clean = @ /\ all]
  /\ UNCHANGED <<kernel, mapPins, denies, armed, nftSet, marks, refused, starts>>

\* attach_one, with the cookie variant and then the basic one, in Single mode.
\* Detaching and attaching the second variant needs no step of its own: nothing
\* of the first is left.
AttachOne(c, next) ==
  \E v \in {"cookie", "basic"} :
    /\ hooks[c] = {} /\ (v = "cookie" => kernel.cookie)
    /\ Faulty(Cost(v = "cookie" \/ ~kernel.cookie))
    /\ hooks' = [hooks EXCEPT ![c] = {Mine(IF loader.pinDir THEN "pin" ELSE "fd", v = "cookie", Absent)}]
    /\ loader' = [loader EXCEPT !.pc = next,
                      !.report.level = IF next = "connect6" THEN @ ELSE IF loader.pinDir THEN "Pinned" ELSE "Process"]

\* Both variants failed: the pins made so far are removed.
AttachFailed(c) ==
  /\ Faulty(Cost(hooks[c] # {}))
  /\ hooks' = IF c = "connect6" /\ loader.pinDir THEN Without(hooks, "connect4", "pin") ELSE hooks
  /\ loader' = [loader EXCEPT !.pc = "maps", !.report.level = "Unavailable", !.clean = @ /\ hooks[c] # {}]

Attach(c, next) ==
  /\ loader.pc = c /\ (AttachOne(c, next) \/ AttachFailed(c))
  /\ UNCHANGED <<kernel, mapPins, denies, armed, nftSet, marks, refused, starts>>

\* What the rules say, written to a copy of VERDICTS.
Steer(copy, deny) == IF deny THEN denies \cup {copy} ELSE denies \ {copy}

\* SOCK_PIDS, the counters, the sink with its first resync; and no identity
\* from the kernel without an exit stream.
TakeMaps ==
  /\ loader.pc = "maps"
  /\ \E ok \in BOOLEAN :
       LET live == IsLive(loader.report.level)
       IN /\ ok \/ live
          /\ Faulty(Cost(ok))
          /\ denies' = IF live /\ ok THEN Steer(loader.maps, refused) ELSE denies
          /\ loader' = [loader EXCEPT !.pc = "consumers", !.sink = live /\ ok, !.clean = @ /\ ok,
                            !.report.sockNote = live /\ loader.inherited /\ ~loader.sockPinned,
                            !.report.exec = @ /\ loader.report.exit]
  /\ UNCHANGED <<kernel, hooks, mapPins, armed, nftSet, marks, refused, starts>>

\* spawn_ring for each stream that is wanted; the last step of load_and_attach.
Consumers ==
  /\ loader.pc = "consumers"
  /\ \E exec, exit, dns, deny \in BOOLEAN :
       /\ Faulty(Cost(exec) + Cost(exit) + Cost(dns) + Cost(deny))
       /\ loader' = [loader EXCEPT !.pc = "up", !.clean = @ /\ exec /\ exit /\ dns /\ deny,
                         !.report.exec = @ /\ exec /\ exit,
                         !.report.exit = @ /\ (exit \/ ~(loader.report.exec /\ exec)),
                         !.report.dns = @ /\ dns]
  /\ UNCHANGED <<kernel, hooks, mapPins, denies, armed, nftSet, marks, refused, starts>>

-----------------------------------------------------------------------------
(* Meanwhile.                                                              *)

\* The rules change; the observer resyncs once it is in place.
RulesChange ==
  /\ loader.pc # "down"
  /\ refused' = ~refused
  /\ denies' = IF loader.sink THEN Steer(loader.maps, ~refused) ELSE denies
  /\ UNCHANGED <<kernel, hooks, mapPins, armed, nftSet, marks, loader, starts, faults>>

\* The deadline of the legacy grants passes: no daemon moves it any more.
DeadlinePasses ==
  /\ armed.until # {}
  /\ armed' = [armed EXCEPT !.until = {}]
  /\ UNCHANGED <<kernel, hooks, mapPins, denies, nftSet, marks, refused, loader, starts, faults>>

\* mark_decision: what the mark of a socket may become.
MarkDecision(x, s, granted) ==
  IF x.maps \notin armed.mark \/ marks[s] = "foreign" THEN {marks[s]}
  ELSE {marks[s], IF granted /\ x.maps \in armed.grants \cap armed.until THEN "ours" ELSE "none"}

\* connect_verdict on a connect() by another process than the one under study
\* (a refused one changes no mark): basic programs leave the mark alone.
Connect(c, s) ==
  /\ \E x \in hooks[c], granted \in BOOLEAN :
       /\ x.cookie
       /\ \E m \in MarkDecision(x, s, granted) : m # marks[s] /\ marks' = [marks EXCEPT ![s] = m]
  /\ UNCHANGED <<kernel, hooks, mapPins, denies, armed, nftSet, refused, loader, starts, faults>>

\* The daemon dies: what only it held is detached.
Crash ==
  /\ loader.pc # "down"
  /\ hooks' = [h \in Hooks |-> {x \in hooks[h] : x.held # "fd"}]
  /\ loader' = Down
  /\ UNCHANGED <<kernel, mapPins, denies, armed, nftSet, marks, refused, starts, faults>>

-----------------------------------------------------------------------------
\* What earlier builds leave: an older ABI its own pins; a 0.4-0.6 daemon pins
\* in this directory, without SOCK_PIDS, and an armed Fast Allow.
LeftBy(who) ==
  [h \in Hooks |->
     IF who = "none" \/ h = "dns" \/ (h \in Tracepoints /\ ~kernel.fdLink) \/ (h = "sendmsg" /\ who # "legacy")
       THEN {}
       ELSE {Program(0, 0, 0, IF who = "oldAbi" THEN "old" ELSE "pin", kernel.cookie /\ h \in Connects, Absent)}]

KernelInit ==
  /\ kernel \in Kernels
  /\ \E who \in Leftovers :
       /\ who # "none" => kernel.bpffs /\ kernel.cgroup2
       /\ hooks = LeftBy(who)
       /\ mapPins = [maps |-> IF who = "legacy" THEN 0 ELSE Absent, sock |-> Absent]
       /\ denies \in {{}} \cup (IF who = "none" THEN {} ELSE {{0}})
       /\ armed = LET a == IF who = "legacy" THEN {0} ELSE {} IN [mark |-> a, until |-> a, grants |-> a]
       /\ nftSet = (who = "legacy")
       /\ marks \in (IF who = "legacy" THEN [Sockets -> {"none", "ours", "foreign"}]
                                         ELSE {[s \in Sockets |-> "none"]})
  /\ refused \in BOOLEAN
  /\ loader = Down /\ starts = 0 /\ faults = 0

KernelNext ==
  \/ Start \/ VetObject \/ Prepare \/ Load \/ Disarm
  \/ DropStaleLinkPin("dropExec", "exec", "dropExit") \/ DropStaleLinkPin("dropExit", "exit", "attachExec")
  \/ AttachTracepoint("attachExec", "exec", ExecFilenameOffset.told, "attachExit")
  \/ AttachTracepoint("attachExit", "exit", ExitGroupDeadOffset, "attachDns")
  \/ AttachDns \/ Enforce \/ Attach("connect4", "connect6") \/ Attach("connect6", "maps")
  \/ TakeMaps \/ Consumers
  \/ RulesChange \/ DeadlinePasses \/ (\E c \in Connects, s \in Sockets : Connect(c, s))
  \/ Crash

-----------------------------------------------------------------------------
(* Properties.                                                             *)

Up == loader.pc = "up"
FedBy(h) == \E x \in hooks[h] : x.ring = starts

\* A start in which nothing failed has everything this kernel can offer, whatever
\* an earlier daemon left when it died: no leftover holds a slot for good (a lone
\* pin used to keep every later start at EEXIST), and no attached connect program
\* still finds a legacy mark to set.
CleanStartHeals ==
  loader.clean /\ kernel.cgroup2 =>
    /\ IF kernel.bpffs THEN SurvivesDaemon(loader.report.level) ELSE loader.report.level = "Process"
    /\ loader.report.exec /\ loader.report.exit /\ loader.report.dns
    /\ kernel.bpffs /\ kernel.fdLink => loader.report.pinned
    /\ \A h \in Hooks \ {"sendmsg"} : Cardinality(hooks[h]) = 1
    /\ hooks["sendmsg"] = {}
    /\ \A c \in Connects : \A x \in hooks[c] : x.maps \notin armed.mark

\* What the daemon reports when it is up is true of the kernel, whatever was
\* left behind and whatever failed: live enforcement means both connect hooks
\* run on the copy of VERDICTS this daemon writes and refuse what its rules
\* refuse, held the way the level says; an event stream is fed by this start's
\* own program, not by one that writes an earlier daemon's rings; identity from
\* the kernel comes with the exits that end it; a field is reported found only
\* when the program reads it where this kernel has it; and a start in which
\* nothing failed reports all there is to have.
ReportIsTrue ==
  Up =>
    LET r == loader.report
    IN /\ IsLive(r.level) =>
            \A c \in Connects : \E x \in hooks[c] :
               /\ x.maps = loader.maps
               /\ x.held = IF SurvivesDaemon(r.level) THEN "pin" ELSE "fd"
               /\ loader.sink => (x.maps \in denies <=> refused)
       /\ \A h \in Tracepoints : r[h] => FedBy(h)
       /\ r.exec => r.exit
       /\ r.pinned => \A h \in Tracepoints : \E x \in hooks[h] : x.held = "pin" /\ x.ring = starts
       /\ r.execField # Absent /\ r.exec =>
            \E x \in hooks["exec"] : x.ring = starts /\ x.field = FieldNamed(kernel.execFormat, "filename").offset
       /\ r.exitField # Absent /\ r.exit =>
            \E x \in hooks["exit"] : x.ring = starts /\ x.field = FieldNamed(kernel.exitFormat, "group_dead").offset
       /\ CleanStartHeals
=============================================================================
