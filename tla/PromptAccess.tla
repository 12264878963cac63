---------------------------- MODULE PromptAccess ----------------------------
(***************************************************************************)
(* The control service's authorization: which client may be shown a        *)
(* prompt, answer it, leave a standing rule behind, edit or import rules,  *)
(* pause.  A client's standing changes while its calls and its streams     *)
(* run (an upgrade replaces the binary under it), polkit is asked in the   *)
(* middle of a call, and the audience table of who was shown which prompt  *)
(* is trimmed first in, first out.  The router itself is PromptFlow, the   *)
(* reads behind a standing OfficialClient, the writes RuleStore.           *)
(***************************************************************************)
EXTENDS Naturals, FiniteSets, Lists

CONSTANTS
    Clients, UidOf,        \* clients and the uid of each connection
    OwnUid,                \* the daemon's effective uid
    InGroup, RequireGroup, \* clients whose group membership is proved; [ipc] require_group
    PromptKinds,           \* what each prompt may be about: owner uid, image, its hash, hash_expected
    RequestKinds,          \* what a client may ask: see NoCall
    AudienceCap,           \* AUDIENCE_CAP
    FeedCap,               \* the broadcast channel's depth
    MaxAsked, MaxCalls, MaxChanges   \* bounds of the model

VARIABLES
    official,    \* client -> official::check would pass now
    asked,       \* prompts asked so far; ids are 1..asked
    about,       \* prompt -> owner uid, image, hash of the image, hash_expected
    pending,     \* prompts still waiting in the router
    streams,     \* client -> prompt stream: open, answering, events not yet handled
    order, byPrompt,       \* PromptAudience
    calls,       \* client -> the call under way
    saved,       \* rules written, each with how its call was authorized
    answered,    \* prompt -> uid whose answer was accepted
    shownTo,       \* prompt -> uids it was shown to on an answering stream
    callsMade, standingChanges

accessVars == <<official, asked, about, pending, streams, order, byPrompt, calls, saved,
                answered, shownTo, callsMade, standingChanges>>

NoUid == 99
NoExe == "no image"
NoHash == "no hash"
Prompts == 1..MaxAsked

ASSUME AccessAssumption ==
    /\ MaxAsked \in Nat /\ AudienceCap \in Nat \ {0} /\ FeedCap \in Nat \ {0}
    /\ \A r \in RequestKinds :
         /\ DOMAIN r = {"op", "stage", "id", "allow", "exe", "hash", "keep", "polkit"}
         /\ r.op \in {"submit", "upsert", "apply", "pause"} /\ r.polkit = {}
         /\ r.op = "submit" => r.id \in Prompts

\* gate, Control::standing: root and the daemon's own uid need nothing more.
Privileged(c) == UidOf[c] \in {0, OwnUid}
GroupOk(c) == RequireGroup => c \in InGroup
Standing(c) == Privileged(c) \/ (GroupOk(c) /\ official[c])

ShouldDeliver(owner, uid) == uid = 0 \/ owner \in {NoUid, uid}

Allows(id, uid) == uid \in byPrompt[id]
InOrder(id) == \E i \in 1..Len(order) : order[i] = id

\* PromptAudience::record: the oldest entries leave once the table is over its size.
Record(id, uid) ==
    LET listed == IF InOrder(id) THEN order ELSE Append(order, id)
        over == IF Len(listed) > AudienceCap THEN Len(listed) - AudienceCap ELSE 0
        gone == {listed[i] : i \in 1..over}
    IN /\ order' = SubSeq(listed, over + 1, Len(listed))
       /\ byPrompt' = [p \in Prompts |->
            IF p \in gone THEN {} ELSE IF p = id THEN byPrompt[p] \cup {uid} ELSE byPrompt[p]]

Forget(id) ==
    /\ byPrompt' = [byPrompt EXCEPT ![id] = {}]
    /\ order' = IF byPrompt[id] = {} THEN order ELSE Kept(order, Prompts \ {id})

(***************************************************************************)
(* Prompts and prompt streams.                                             *)
(***************************************************************************)
Closed == [open |-> FALSE, answering |-> FALSE, feed |-> <<>>]

\* A slow stream loses its oldest events (RecvError::Lagged) and goes on.
Fed(s, id) ==
    IF ~s.open THEN s
    ELSE [s EXCEPT !.feed = IF Len(@) < FeedCap THEN Append(@, id) ELSE Append(Tail(@), id)]

AskPrompt(kind) ==
    /\ asked' = asked + 1
    /\ about' = [about EXCEPT ![asked + 1] = kind]
    /\ pending' = pending \cup {asked + 1}
    /\ streams' = [c \in Clients |-> Fed(streams[c], asked + 1)]
    /\ UNCHANGED <<official, order, byPrompt, calls, saved, answered, shownTo, callsMade, standingChanges>>

PromptExpires(id) ==
    /\ id \in pending /\ pending' = pending \ {id}
    /\ UNCHANGED <<official, asked, about, streams, order, byPrompt, calls, saved, answered, shownTo,
                   callsMade, standingChanges>>

StandingChanges(c) ==
    /\ standingChanges < MaxChanges /\ standingChanges' = standingChanges + 1
    /\ official' = [official EXCEPT ![c] = ~@]
    /\ UNCHANGED <<asked, about, pending, streams, order, byPrompt, calls, saved, answered, shownTo, callsMade>>

\* stream_prompts: every peer may subscribe; standing decides, once, whether it counts as a UI.
StreamPrompts(c) ==
    /\ ~streams[c].open /\ callsMade < MaxCalls /\ callsMade' = callsMade + 1
    /\ streams' = [streams EXCEPT ![c] = [open |-> TRUE, answering |-> Standing(c), feed |-> <<>>]]
    /\ UNCHANGED <<official, asked, about, pending, order, byPrompt, calls, saved, answered, shownTo,
                   standingChanges>>

StreamCloses(c) ==
    /\ streams[c].open
    /\ streams' = [streams EXCEPT ![c] = Closed]
    /\ UNCHANGED <<official, asked, about, pending, order, byPrompt, calls, saved, answered, shownTo,
                   callsMade, standingChanges>>

\* The next event of a stream: not for this peer; no longer allowed, which ends
\* the stream; or entered in the audience and shown.
\* Faulty variant: a stream that lost its standing skips the prompt and stays.
HandleEventKeepsStream(c) ==
    LET s == streams[c]  id == Head(s.feed)  uid == UidOf[c]
        mine == ShouldDeliver(about[id].owner, uid)
    IN /\ s.open /\ s.feed # <<>>
       /\ streams' = [streams EXCEPT ![c].feed = Tail(@)]
       /\ IF mine /\ s.answering /\ Standing(c)
          THEN Record(id, uid) /\ shownTo' = [shownTo EXCEPT ![id] = @ \cup {uid}]
          ELSE UNCHANGED <<order, byPrompt, shownTo>>
       /\ UNCHANGED <<official, asked, about, pending, calls, saved, answered, callsMade, standingChanges>>
HandleEvent(c) ==
    LET s == streams[c]  id == Head(s.feed)  uid == UidOf[c]
        mine == ShouldDeliver(about[id].owner, uid)
        lost == mine /\ s.answering /\ ~Standing(c)
    IN /\ s.open /\ s.feed # <<>>
       /\ streams' = [streams EXCEPT ![c] = IF lost THEN Closed ELSE [s EXCEPT !.feed = Tail(@)]]
       /\ IF mine /\ s.answering /\ ~lost
          THEN Record(id, uid) /\ shownTo' = [shownTo EXCEPT ![id] = @ \cup {uid}]
          ELSE UNCHANGED <<order, byPrompt, shownTo>>
       /\ UNCHANGED <<official, asked, about, pending, calls, saved, answered, callsMade, standingChanges>>

(***************************************************************************)
(* Calls.  A request is an answer (with or without a scope to save), a     *)
(* rule write, an import or a pause; deletes need no more than a standing. *)
(***************************************************************************)
NoCall == [op |-> "none", stage |-> "idle", id |-> 0, allow |-> FALSE, exe |-> NoExe, hash |-> NoHash,
           keep |-> FALSE, polkit |-> {}]
\* authorize, as far as the first await: whether this peer may, and what polkit must confirm.
Elevated(op) == op \in {"apply", "pause"}
Authorize(c, req) ==
    /\ calls[c].stage = "idle" /\ callsMade < MaxCalls /\ callsMade' = callsMade + 1
    /\ calls' = [calls EXCEPT ![c] =
         IF ~Standing(c) THEN NoCall
         ELSE [req EXCEPT !.stage = IF Elevated(req.op) /\ ~Privileged(c) THEN "elevate" ELSE "checked"]]
    /\ UNCHANGED <<official, asked, about, pending, streams, order, byPrompt, saved, answered, shownTo,
                   standingChanges>>

\* polkit::check: authorized, or one of dismissed, no agent, denied, unreachable, timed out.
PolkitAnswers(c, authorized) ==
    LET call == calls[c]
        action == IF call.stage = "elevate" THEN call.op ELSE "generic_allow"
    IN /\ call.stage \in {"elevate", "confirm"}
       /\ calls' = [calls EXCEPT ![c] =
            IF ~authorized THEN NoCall
            ELSE [[call EXCEPT !.polkit = @ \cup {action}] EXCEPT
                    !.stage = IF @ = "elevate" THEN "checked" ELSE "bind"]]
       /\ UNCHANGED <<official, asked, about, pending, streams, order, byPrompt, saved, answered, shownTo,
                      callsMade, standingChanges>>

\* confirm_generic_allow: an Allow that names no program.
OpensForEveryProgram(call) == call.allow /\ call.exe = NoExe
\* Faulty variant: only the rule-writing call asks.
AfterConversionOfUpsert(c, call) ==
    IF call.op = "upsert" /\ OpensForEveryProgram(call) /\ ~Privileged(c) THEN "confirm" ELSE "bind"
AfterConversion(c, call) ==
    IF OpensForEveryProgram(call) /\ ~Privileged(c) THEN "confirm" ELSE "bind"

\* submit_verdict up to its first await: ownership, the router, the audience, then
\* the conversion of the rule to save, which may refuse it (a persist_error).
SubmitVerdict(c, storable) ==
    LET call == calls[c]
        lands == call.id \in pending
        owned == UidOf[c] = 0 \/ Allows(call.id, UidOf[c])
    IN /\ call.op = "submit" /\ call.stage = "checked"
       /\ IF ~owned
          THEN /\ calls' = [calls EXCEPT ![c] = NoCall]
               /\ UNCHANGED <<pending, order, byPrompt, answered>>
          ELSE /\ pending' = pending \ {call.id}
               /\ answered' = IF lands THEN [answered EXCEPT ![call.id] = UidOf[c]] ELSE answered
               /\ Forget(call.id)
               /\ calls' = [calls EXCEPT ![c] = IF lands /\ call.keep /\ storable
                                                THEN [call EXCEPT !.stage = AfterConversion(c, call)] ELSE NoCall]
       /\ UNCHANGED <<official, asked, about, streams, saved, shownTo, callsMade, standingChanges>>

\* upsert_rule_checked up to its confirmation; apply and pause go straight to their write.
WriteChecked(c) ==
    LET call == calls[c]
    IN /\ call.op # "submit" /\ call.stage = "checked"
       /\ calls' = [calls EXCEPT ![c].stage = IF call.op = "upsert" THEN AfterConversion(c, call) ELSE "save"]
       /\ UNCHANGED <<official, asked, about, pending, streams, order, byPrompt, saved, answered, shownTo,
                      callsMade, standingChanges>>

\* bind_prompt_allow: a saved Allow must name the prompted image and gets its hash.
Bound(call) ==
    LET b == about[call.id]
    IN IF call.op # "submit" \/ ~call.allow \/ ~b.expected THEN {call}
       ELSE IF call.exe # b.exe \/ b.exe = NoExe \/ b.hash = NoHash THEN {}
       ELSE {[call EXCEPT !.hash = b.hash]}

\* Then resolve_exe_off_thread, which may refuse the path.
BindAndResolve(c, resolves) ==
    /\ calls[c].stage = "bind"
    /\ calls' = [calls EXCEPT ![c] =
         IF resolves /\ Bound(calls[c]) # {}
         THEN [(CHOOSE b \in Bound(calls[c]) : TRUE) EXCEPT !.stage = "save"] ELSE NoCall]
    /\ UNCHANGED <<official, asked, about, pending, streams, order, byPrompt, saved, answered, shownTo,
                   callsMade, standingChanges>>

\* Under the mutation lock; the store may refuse.
Save(c, stored) ==
    /\ calls[c].stage = "save"
    /\ saved' = IF stored THEN saved \cup {[call |-> calls[c], by |-> c]} ELSE saved
    /\ calls' = [calls EXCEPT ![c] = NoCall]
    /\ UNCHANGED <<official, asked, about, pending, streams, order, byPrompt, answered, shownTo,
                   callsMade, standingChanges>>

AccessInit ==
    /\ official = [c \in Clients |-> TRUE]
    /\ asked = 0 /\ pending = {} /\ order = <<>> /\ saved = {} /\ callsMade = 0 /\ standingChanges = 0
    /\ about = [p \in Prompts |-> [owner |-> NoUid, exe |-> NoExe, hash |-> NoHash, expected |-> FALSE]]
    /\ streams = [c \in Clients |-> Closed]
    /\ byPrompt = [p \in Prompts |-> {}]
    /\ calls = [c \in Clients |-> NoCall]
    /\ answered = [p \in Prompts |-> NoUid]
    /\ shownTo = [p \in Prompts |-> {}]

AccessNext ==
    \/ asked < MaxAsked /\ \E kind \in PromptKinds[asked + 1] : AskPrompt(kind)
    \/ \E id \in Prompts : PromptExpires(id)
    \/ \E c \in Clients :
         \/ StandingChanges(c) \/ StreamPrompts(c) \/ StreamCloses(c) \/ HandleEvent(c) \/ WriteChecked(c)
         \/ \E req \in RequestKinds : Authorize(c, req)
         \/ \E ok \in BOOLEAN :
              PolkitAnswers(c, ok) \/ SubmitVerdict(c, ok) \/ BindAndResolve(c, ok) \/ Save(c, ok)

(***************************************************************************)
(* Properties.                                                             *)
(***************************************************************************)

\* stream_prompts, PromptAudience: "Left counted as a UI, it would hold every prompt
\* for the full timeout": a stream that goes on counting as answering has shown
\* each prompt of its user it took from its feed; and a prompt that still waits
\* leaves the audience table only when AUDIENCE_CAP others hold a place in it, so
\* prompts that were answered take up none.
CountedMeansShown ==
    [][/\ \A c \in Clients : \A id \in pending :
            /\ streams[c].answering /\ streams'[c].answering
            /\ streams[c].feed # <<>> /\ Head(streams[c].feed) = id /\ streams'[c].feed = Tail(streams[c].feed)
            /\ ShouldDeliver(about[id].owner, UidOf[c])
            => UidOf[c] \in shownTo'[id]
       /\ \A id \in pending \cap pending' : byPrompt[id] # {} /\ byPrompt'[id] = {} =>
            Cardinality({p \in Prompts : byPrompt'[p] # {}}) = AudienceCap]_accessVars

\* bind_prompt_allow, submit_verdict: a rule left behind by an answer comes from an
\* answer that landed, and an Allow about an image that needs a hash names the
\* prompted image and carries the hash shown, whatever the client sent.
SavedBoundToPrompt ==
    \A s \in saved : s.call.op = "submit" =>
        /\ answered[s.call.id] = UidOf[s.by]
        /\ s.call.allow /\ about[s.call.id].expected =>
             s.call.exe = about[s.call.id].exe /\ s.call.hash = about[s.call.id].hash

\* confirm_generic_allow, Access::Elevated: what opens the firewall for every program,
\* replaces many rules or pauses it was confirmed through polkit, whichever call
\* brought it, unless root or the daemon's own user asked; and what an answer
\* saves is bound to its prompt.
AdminConfirmed ==
    /\ \A s \in saved : ~Privileged(s.by) =>
         /\ Elevated(s.call.op) => s.call.op \in s.call.polkit
         /\ ~Elevated(s.call.op) /\ OpensForEveryProgram(s.call) => "generic_allow" \in s.call.polkit
    /\ SavedBoundToPrompt
==============================================================================
