------------------------------ MODULE RuleTools ------------------------------
(***************************************************************************)
(* The clients that write rules, each with its own form of a rule: the CLI *)
(* (cfc/src/rules: add, enable, export and import, bundles, OpenSnitch     *)
(* import), the app's editor (cfc-ui/src/editor.rs), and the wire          *)
(* conversion and gates of the daemon they all pass (convert.rs, rule.rs). *)
(*                                                                         *)
(* A scope maps every predicate to a value or "none"; "bad" is a value the *)
(* field cannot hold.  Whether a path is an alias is the file system's     *)
(* answer, which changes.  Commands list the rules first and write later,  *)
(* so other clients come between.  History variables keep what the author  *)
(* of a rule asked for.                                                    *)
(***************************************************************************)
EXTENDS Integers, Sequences, FiniteSets, SequencesExt

CONSTANTS
    RuleIds,      \* ids rules may get
    Flags,        \* inputs of `rules add`: [action, dur, scope]
    OsnFiles,     \* OpenSnitch rules: [action, dur, ops]
    Bundled,      \* entries of the bundle: [id, name, exes, scope], exes in order of preference
    Flows,        \* observed flows a rule is made from
    FormInputs,   \* what a user types in the editor: [field, value], "none" to clear it
    Launchers,    \* candidates that may be scripts on this machine
    TimedFor,         \* seconds of a timed rule
    MaxHour, MaxActs  \* bounds of the model

Predicates == {"exe", "sha256", "parent", "uid", "host", "dstNet", "dstPort", "proto", "dir", "srcNet", "srcPort"}
Shown == {"exe", "host", "dstNet", "dstPort", "proto"}     \* the fields the editor has
Unknown == "<unknown>"

\* Only types, but: the ids of the bundle's entries are no fresh ids (they are
\* computed from the entries' names), and "none" is no id.
ASSUME ToolsAssumption ==
    /\ "none" \notin RuleIds
    /\ \A e \in Bundled : e.id \notin RuleIds \cup {"none"}
    /\ \A f \in OsnFiles : f.ops \in Seq([operand : STRING, data : STRING, regexp : BOOLEAN])
    /\ FormInputs \subseteq [field : Shown, value : STRING \ {"untouched"}]
    /\ TimedFor \in Nat

VARIABLES
    rules,    \* the daemon's rules, by id
    aliases,  \* paths that resolve to another path now
    scripts,  \* bundle candidates that are launchers here
    backup,   \* an exported file: rules by id
    form,     \* the editor
    cmd,      \* a command between its listing and its writes
    wanted,   \* history: per stored id, the scope, end and flow its author asked for
    saved,    \* history: wanted, as of the export
    hour, acts

toolVars == <<rules, aliases, scripts, backup, form, cmd, wanted, saved, hour, acts>>

Blank == [p \in Predicates |-> "none"]
Nothing == [i \in {} |-> i]
NoFlow == [exe |-> "none", dir |-> "none", peer |-> "none", port |-> "none"]
\* History: the fields a person typed in; the empty field is a value too.
Untouched == [p \in Predicates |-> "untouched"]
NoForm == [open |-> FALSE, id |-> "none", fields |-> Blank, carried |-> Blank, action |-> "allow", dur |-> "always",
           secs |-> 0, created |-> 0, on |-> TRUE, pinned |-> FALSE, typed |-> Untouched, flow |-> NoFlow]
NoCommand == [kind |-> "none", listed |-> Nothing, todo |-> {}]
Never == 0

RuleOf(id, on, action, dur, secs, scope, created) ==
    [id |-> id, on |-> on, action |-> action, dur |-> dur, secs |-> secs, scope |-> scope, created |-> created]
EndOf(r) == IF r.dur = "seconds" THEN r.created + r.secs ELSE Never
Want(scope, end, flow) == [scope |-> scope, end |-> end, flow |-> flow]
With(f, i, v) == [j \in DOMAIN f \cup {i} |-> IF j = i THEN v ELSE f[j]]
Without(f, S) == [j \in DOMAIN f \ S |-> f[j]]
\* Uuid::new_v4: an id nobody has or remembers.
Unused == RuleIds \ (DOMAIN rules \cup DOMAIN backup \cup DOMAIN cmd.listed \cup {form.id})
Fresh == CHOOSE i \in Unused : TRUE

(***************************************************************************)
(* exe_path.rs: a policy names the canonical target itself.                *)
(***************************************************************************)
ResolvePolicy(exe) == exe \notin aliases

(***************************************************************************)
(* The daemon.                                                             *)
(***************************************************************************)
ScopeFromPb(s) == s.host = "none" /\ \A p \in Predicates : s[p] # "bad"
Constrains(s) == \E p \in Predicates \ {"dir"} : s[p] # "none"
Matchable(s) == s.exe # Unknown /\ s.parent = "none"
InboundGates(s) == s.dir = "in" => \A p \in {"dstNet", "host", "exe", "sha256", "uid"} : s[p] = "none"
Timing(r) == r.dur # "once" /\ (r.secs > 0 <=> r.dur = "seconds")

KeepsStoredExe(r) == r.scope.exe # "none" /\ r.id \in DOMAIN rules /\ rules[r.id].scope.exe = r.scope.exe
Accepts(r) ==
    /\ ScopeFromPb(r.scope) /\ Constrains(r.scope) /\ Matchable(r.scope) /\ InboundGates(r.scope) /\ Timing(r)
    /\ (KeepsStoredExe(r) \/ r.scope.exe = "none" \/ ResolvePolicy(r.scope.exe))
    /\ ~(r.dur = "always" /\ r.id \in DOMAIN rules /\ rules[r.id].dur = "seconds")

\* rule_from_pb: no creation time means now, and none is in the future.
\* preserve_server_owned: a known rule keeps its own.
Stamped(r) ==
    [r EXCEPT !.created = IF r.id \in DOMAIN rules THEN rules[r.id].created
                          ELSE IF @ = 0 \/ @ > hour THEN hour ELSE @]

Upsert(r, want) ==
    \/ Accepts(r) /\ rules' = With(rules, r.id, Stamped(r)) /\ wanted' = With(wanted, r.id, want)
    \/ ~Accepts(r) /\ UNCHANGED <<rules, wanted>>

(***************************************************************************)
(* cfc rules add, enable, disable.                                         *)
(***************************************************************************)
\* add: the flags are checked here first, so the message can name them.
AddChecks(s) ==
    /\ s.host = "none" /\ s.dstNet # "bad" /\ s.srcNet # "bad" /\ s.sha256 # "bad"
    /\ s.dir = "in" => s.dstNet = "none" /\ s.exe = "none" /\ s.sha256 = "none"
    /\ s.exe = "none" \/ ResolvePolicy(s.exe)
Add(f) ==
    /\ AddChecks(f.scope) /\ Unused # {}
    /\ Upsert(RuleOf(Fresh, TRUE, f.action, f.dur, 0, f.scope, 0), Want(f.scope, Never, NoFlow))
    /\ UNCHANGED <<aliases, scripts, backup, form, cmd, saved, hour>>

\* A prompt answered for some seconds: the daemon stores a timed rule.
AnswerTimed(f) ==
    /\ Unused # {} /\ f.scope.exe # "none"
    /\ Upsert(RuleOf(Fresh, TRUE, f.action, "seconds", TimedFor, f.scope, 0), Want(f.scope, hour + TimedFor, NoFlow))
    /\ UNCHANGED <<aliases, scripts, backup, form, cmd, saved, hour>>

Lists(kind, todo) ==
    /\ cmd.kind = "none" /\ cmd' = [kind |-> kind, listed |-> rules, todo |-> todo]
    /\ UNCHANGED <<rules, aliases, scripts, backup, form, wanted, saved, hour>>

\* set_enabled, toggled_rule: the rule as it was listed, one bit flipped.
BeginToggle(i) == i \in DOMAIN rules /\ Lists("toggle", {i})
Toggle ==
    /\ cmd.kind = "toggle" /\ cmd' = NoCommand
    /\ \E i \in cmd.todo : LET old == cmd.listed[i]
                           IN Upsert([old EXCEPT !.on = ~@], Want(old.scope, EndOf(old), NoFlow))
    /\ UNCHANGED <<aliases, scripts, backup, form, saved, hour>>

Delete(i) ==
    /\ i \in DOMAIN rules /\ rules' = Without(rules, {i}) /\ wanted' = Without(wanted, {i})
    /\ UNCHANGED <<aliases, scripts, backup, form, cmd, saved, hour>>

(***************************************************************************)
(* Export and import.                                                      *)
(***************************************************************************)
\* exported_rule: no bookkeeping, but when a timed rule ends.
Exported(r) == [rule |-> [r EXCEPT !.created = 0], ends |-> EndOf(r)]
Export ==
    /\ cmd.kind = "none" /\ rules # Nothing
    /\ backup' = [i \in DOMAIN rules |-> Exported(rules[i])] /\ saved' = wanted
    /\ UNCHANGED <<rules, aliases, scripts, form, cmd, wanted, hour>>

\* try_into_proto: the creation time that makes the rule end when it did.
Larger(a, b) == IF a > b THEN a ELSE b
\* What it refuses by itself, naming the rule.
Importable(r) == r.dur # "once" /\ Constrains(r.scope) /\ ScopeFromPb(r.scope)
TryIntoProto(x) ==
    [x.rule EXCEPT !.created = IF x.ends = Never THEN 0 ELSE Larger(x.ends - x.rule.secs, 1)]
CheckNewExe(r, listed) ==
    r.scope.exe = "none" \/ ResolvePolicy(r.scope.exe)
        \/ (r.id \in DOMAIN listed /\ listed[r.id].scope.exe = r.scope.exe)

BeginImport == backup # Nothing /\ Lists("import", DOMAIN backup)
\* import, apply_rules: one problem and nothing is written.
Import(replace) ==
    LET pending == [i \in DOMAIN backup |-> TryIntoProto(backup[i])]
        whole == \A i \in DOMAIN pending :
                    Importable(pending[i]) /\ CheckNewExe(pending[i], cmd.listed) /\ Accepts(pending[i])
        kept == IF replace THEN DOMAIN pending ELSE DOMAIN rules \cup DOMAIN pending
    IN /\ cmd.kind = "import" /\ cmd' = NoCommand
       /\ \/ /\ whole
             /\ rules' = [i \in kept |-> IF i \in DOMAIN pending THEN Stamped(pending[i]) ELSE rules[i]]
             /\ wanted' = [i \in kept |-> IF i \in DOMAIN pending THEN saved[i] ELSE wanted[i]]
          \/ ~whole /\ UNCHANGED <<rules, wanted>>
       /\ UNCHANGED <<aliases, scripts, backup, form, saved, hour>>

(***************************************************************************)
(* Bundles.                                                                *)
(***************************************************************************)
\* BundleRule::resolve: the first candidate that is no launcher, its target
\* if it is an alias; an entry without candidates is not about a program.
CandidateOf(e) == SelectSeq(e.exes, LAMBDA x : x \notin scripts /\ x \notin aliases)
Present(e) == e.exes = <<>> \/ CandidateOf(e) # <<>>
ProtoFor(e) ==
    RuleOf(e.id, TRUE, "allow", "always", 0,
           [e.scope EXCEPT !.exe = IF e.exes = <<>> THEN "none" ELSE Head(CandidateOf(e))], 0)

\* bundle add: entries not there by their own id, one write each.
BeginBundleAdd == Lists("bundle_add", {e \in Bundled : Present(e) /\ e.id \notin DOMAIN rules})
BundleAdd ==
    /\ cmd.kind = "bundle_add" /\ cmd.todo # {}
    /\ \E e \in cmd.todo :
        /\ cmd' = [cmd EXCEPT !.todo = @ \ {e}]
        /\ \/ Present(e) /\ Upsert(ProtoFor(e), Want(ProtoFor(e).scope, Never, NoFlow))
           \/ ~Present(e) /\ UNCHANGED <<rules, wanted>>
    /\ UNCHANGED <<aliases, scripts, backup, form, saved, hour>>

\* bundle remove: its own ids, unless the user made the rule a refusal.
BeginBundleRemove ==
    Lists("bundle_remove", {e \in Bundled : e.id \in DOMAIN rules /\ rules[e.id].action = "allow"})
BundleRemove ==
    /\ cmd.kind = "bundle_remove" /\ cmd.todo # {}
    /\ \E e \in cmd.todo :
        /\ cmd' = [cmd EXCEPT !.todo = @ \ {e}]
        /\ rules' = Without(rules, {e.id}) /\ wanted' = Without(wanted, {e.id})
    /\ UNCHANGED <<aliases, scripts, backup, form, saved, hour>>
CommandEnds ==
    /\ cmd.kind \in {"bundle_add", "bundle_remove"} /\ cmd.todo = {} /\ cmd' = NoCommand
    /\ UNCHANGED <<rules, aliases, scripts, backup, form, wanted, saved, hour>>

(***************************************************************************)
(* OpenSnitch.                                                             *)
(***************************************************************************)
Operands == [exe |-> "process.path", sha256 |-> "process.hash.sha256", uid |-> "user.id",
             dstNet |-> "dest.ip", dstPort |-> "dest.port", proto |-> "protocol"]
Named(ops, p) == {ops[i].data : i \in {j \in DOMAIN ops : ops[j].operand = Operands[p]}}

\* apply_simple: each operand is one of ours, well formed, and set once.
Convertible(ops) ==
    /\ \A i \in DOMAIN ops : ~ops[i].regexp /\ \E p \in DOMAIN Operands : ops[i].operand = Operands[p]
    /\ \A p \in DOMAIN Operands : Cardinality(Named(ops, p)) <= 1 /\ "bad" \notin Named(ops, p)
ConvertOpensnitch(ops) ==
    [p \in Predicates |-> IF p \in DOMAIN Operands /\ Named(ops, p) # {}
                          THEN CHOOSE v \in Named(ops, p) : TRUE ELSE "none"]
\* What the file says: every operand holds, and several values of one are alternatives.
OsnMeans(ops) ==
    [p \in Predicates |->
        IF \E i \in DOMAIN ops : ops[i].regexp \/ (\A q \in DOMAIN Operands : ops[i].operand # Operands[q])
        THEN "more" ELSE IF p \in DOMAIN Operands /\ Named(ops, p) # {}
        THEN IF Cardinality(Named(ops, p)) = 1 THEN CHOOSE v \in Named(ops, p) : TRUE ELSE "either" ELSE "none"]

ImportOpensnitch(f) ==
    LET scope == ConvertOpensnitch(f.ops)
    IN /\ Convertible(f.ops) /\ f.dur \notin {"once", "bad"} /\ f.action # "bad"
       /\ (scope.exe = "none" \/ ResolvePolicy(scope.exe)) /\ Constrains(scope)
       /\ Unused # {}
       /\ Upsert(RuleOf(Fresh, TRUE, f.action, f.dur, 0, scope, 0), Want(OsnMeans(f.ops), Never, NoFlow))
       /\ UNCHANGED <<aliases, scripts, backup, form, cmd, saved, hour>>

(***************************************************************************)
(* The editor.                                                             *)
(***************************************************************************)
Visible(s) == [p \in Predicates |-> IF p \in Shown THEN s[p] ELSE "none"]
FromExisting(r) ==
    [NoForm EXCEPT !.open = TRUE, !.id = r.id, !.fields = Visible(r.scope), !.carried = r.scope, !.action = r.action,
                   !.dur = r.dur, !.secs = r.secs, !.created = r.created, !.on = r.on]
\* from_observed: the program and port, or the endpoint; inbound, the peer.
ExeIsRuleScopable(exe) == exe \notin {"none", Unknown}
FromObserved(f) ==
    LET inbound == f.dir = "in"
        scopable == ~inbound /\ ExeIsRuleScopable(f.exe)
    IN [NoForm EXCEPT !.open = TRUE, !.flow = f,
          !.fields = [Blank EXCEPT !.exe = IF scopable THEN f.exe ELSE "none",
                                   !.dstNet = IF scopable \/ inbound THEN "none" ELSE f.peer,
                                   !.dstPort = f.port],
          !.carried = [Blank EXCEPT !.dir = IF inbound THEN "in" ELSE "none",
                                    !.srcNet = IF inbound THEN f.peer ELSE "none"]]
\* from_prompt: an allow that must be bound carries the digest it was promised.
FromPrompt(f, binds) ==
    LET seed == FromObserved(f) IN [seed EXCEPT !.pinned = binds, !.carried.sha256 = IF binds THEN f.sha256 ELSE "none"]

\* build_rule_from_editor: what the form shows, over what it carries.
\* Faulty variant: the scope is rebuilt from the visible fields alone.
BuiltFromFields(fm) == fm.fields
BuiltScope(fm) == [p \in Predicates |-> IF p \in Shown THEN fm.fields[p] ELSE fm.carried[p]]
HiddenScopeIsSet(fm) == \E p \in Predicates \ Shown : fm.carried[p] # "none"
Builds(fm) ==
    /\ fm.fields.host = "none" /\ fm.fields.dstPort # "bad" /\ fm.fields.dstNet # "bad"
    /\ fm.dur # "once" /\ (fm.dur = "seconds" => fm.secs > 0 /\ fm.id # "none")
    /\ ~(fm.pinned /\ fm.action = "allow" /\ fm.carried.sha256 = "none")
    /\ (HiddenScopeIsSet(fm) \/ \E p \in Shown : fm.fields[p] # "none")
    /\ (fm.fields.exe = "none" \/ ResolvePolicy(fm.fields.exe) \/ (fm.id # "none" /\ fm.fields.exe = fm.carried.exe))

OpensForm(fm) == ~form.open /\ form' = fm /\ UNCHANGED <<rules, aliases, scripts, backup, cmd, wanted, saved, hour>>
EditExisting(i) == i \in DOMAIN rules /\ OpensForm(FromExisting(rules[i]))
MakeRuleFromEvent(f) == OpensForm(FromObserved(f))
CustomizePromptRule(f, binds) == OpensForm(FromPrompt(f, binds))

Types(x) ==
    /\ form.open /\ form.typed[x.field] # x.value
    /\ form' = [form EXCEPT !.fields[x.field] = x.value, !.typed[x.field] = x.value]
    /\ UNCHANGED <<rules, aliases, scripts, backup, cmd, wanted, saved, hour>>
EditorDuration(d) ==
    /\ form.open /\ form.dur # d /\ form' = [form EXCEPT !.dur = d, !.secs = IF d = "seconds" THEN @ ELSE 0]
    /\ UNCHANGED <<rules, aliases, scripts, backup, cmd, wanted, saved, hour>>

\* What a person who saw the form asked for: the rule it was opened on, with
\* the fields they typed.
AskedFor(fm) ==
    [p \in Predicates |-> IF fm.typed[p] # "untouched" THEN fm.typed[p]
                          ELSE IF p \in Shown /\ fm.id = "none" THEN fm.fields[p] ELSE fm.carried[p]]
SaveForm ==
    /\ form.open
    /\ \/ /\ Builds(form) /\ form' = NoForm
          /\ (form.id = "none" => Unused # {})
          /\ LET id == IF form.id = "none" THEN Fresh ELSE form.id
                 built == RuleOf(id, form.on, form.action, form.dur, form.secs, BuiltScope(form), form.created)
             IN Upsert(built, Want(AskedFor(form), EndOf(Stamped(built)),
                                   IF form.typed = Untouched THEN form.flow ELSE NoFlow))
       \/ ~Builds(form) /\ form' = NoForm /\ UNCHANGED <<rules, wanted>>
    /\ UNCHANGED <<aliases, scripts, backup, cmd, saved, hour>>

(***************************************************************************)
(* Around them.                                                            *)
(***************************************************************************)
HourPasses ==
    /\ hour < MaxHour /\ hour' = hour + 1
    /\ LET over == {i \in DOMAIN rules : EndOf(rules[i]) # Never /\ EndOf(rules[i]) <= hour'}
       IN rules' = Without(rules, over) /\ wanted' = Without(wanted, over)
    /\ UNCHANGED <<aliases, scripts, backup, form, cmd, saved>>
BecomesAlias(exe) ==
    /\ exe \notin aliases /\ aliases' = aliases \cup {exe}
    /\ UNCHANGED <<rules, scripts, backup, form, cmd, wanted, saved, hour>>

ToolsInit ==
    /\ rules = Nothing /\ aliases = {} /\ scripts \in {{}, Launchers} /\ backup = Nothing /\ form = NoForm
    /\ cmd = NoCommand /\ wanted = Nothing /\ saved = Nothing /\ hour = 1 /\ acts = 0

\* What people start, each at most MaxActs times in a behaviour together.
Starts ==
    \/ \E f \in Flags : Add(f) \/ AnswerTimed(f)
    \/ \E i \in RuleIds : BeginToggle(i) \/ Delete(i) \/ EditExisting(i)
    \/ \E e \in Bundled : EditExisting(e.id)
    \/ Export \/ BeginImport \/ BeginBundleAdd \/ BeginBundleRemove
    \/ \E f \in OsnFiles : ImportOpensnitch(f)
    \/ \E f \in Flows : MakeRuleFromEvent(f) \/ (\E binds \in BOOLEAN : CustomizePromptRule(f, binds))
    \/ \E d \in {"always", "restart"} : EditorDuration(d)
    \/ \E f \in Flags : BecomesAlias(f.scope.exe) /\ f.scope.exe # "none"
\* What goes on from there.
Proceeds ==
    \/ Toggle \/ (\E replace \in BOOLEAN : Import(replace)) \/ BundleAdd \/ BundleRemove \/ CommandEnds
    \/ \E x \in FormInputs : Types(x)
    \/ SaveForm \/ HourPasses

ToolsNext == \/ acts < MaxActs /\ acts' = acts + 1 /\ Starts
             \/ UNCHANGED acts /\ Proceeds

(***************************************************************************)
(* Properties.                                                             *)
(***************************************************************************)
\* RuleScope::matches, for the predicates a flow decides.
Matches(s, f) ==
    /\ (s.dir = "in") = (f.dir = "in")
    /\ s.exe \in {"none", f.exe} /\ s.dstPort \in {"none", f.port} /\ s.sha256 \in {"none", f.sha256}
    /\ s.dstNet \in {"none", f.peer} /\ s.srcNet \in {"none", f.peer}

\* expires_at_unix_ms, duration_seconds: a timed rule never outlives the end it
\* was given, through edits, toggles, and a backup restored later.
NeverOutlivesItsEnd ==
    \A i \in DOMAIN rules : wanted[i].end # Never => EndOf(rules[i]) # Never /\ EndOf(rules[i]) <= wanted[i].end

\* Whichever client wrote a rule and through whatever forms it went (flags,
\* editor, JSON, OpenSnitch, bundle, wire), its scope is exactly what its author
\* asked for, neither wider nor narrower, a rule made from a flow and left as it
\* was covers that flow, and a timed rule ends when it was told to.
SaysWhatWasAsked ==
    /\ NeverOutlivesItsEnd
    /\ \A i \in DOMAIN rules :
        /\ rules[i].scope = wanted[i].scope
        /\ wanted[i].flow # NoFlow => Matches(rules[i].scope, wanted[i].flow)
==============================================================================
