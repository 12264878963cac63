--------------------------------- MODULE Gui ---------------------------------
(***************************************************************************)
(* The desktop app's prompt cards and rule editor.  Cards are answered by  *)
(* their buttons or, for the top one, by keys; both stay disarmed for a    *)
(* while after the card under them changes.  A verdict leaves its card in  *)
(* place until the daemon answers.  The app reads the clock only in some   *)
(* handlers and works with the last value it read.                         *)
(***************************************************************************)
EXTENDS Integers, SequencesExt, FiniteSets, Lists

CONSTANTS
    Cards,       \* prompts that may arrive
    Arm,         \* PROMPT_ARM_MS
    CardLife,    \* what a prompt has until its deadline
    Scoped,      \* prompts whose executable can scope a rule
    MaxClock,    \* bounds of the model: the clock,
    MaxEdits,    \* editors opened,
    MaxLosses    \* streams and connections lost

VARIABLES
    clock, now,        \* the wall clock; App::now_ms, read from it at times
    cards,             \* App::prompts, top first
    armedAt,           \* per card: armed_at_ms
    submitting,        \* cards with a verdict under way
    keyTarget,         \* key_target: [id, at], id = NoCard for None
    deadline,          \* per prompt: deadline_unix_ms, 0 before it was sent
    settled,           \* prompts the daemon no longer waits for
    calls,             \* SubmitVerdict calls: [id, from, result]
    editor,            \* the open editor: [open, prompt]
    tab,               \* prompts or rules
    connected, edits, losses,
    placedAt           \* history: when each card got its place

guiVars == <<clock, now, cards, armedAt, submitting, keyTarget, deadline, settled, calls, editor, tab,
             connected, edits, losses, placedAt>>

NoCard == 0

ASSUME GuiAssumption == NoCard \notin Cards /\ Arm \in Nat /\ CardLife \in Nat \ {0}

NoEditor == [open |-> FALSE, prompt |-> NoCard]
None == [id |-> NoCard, at |-> 0]

GuiInit ==
    /\ clock = 1 /\ now = 1 /\ cards = <<>>
    /\ armedAt = [p \in Cards |-> 0] /\ submitting = {} /\ keyTarget = None
    /\ deadline = [p \in Cards |-> 0] /\ settled = {} /\ calls = {}
    /\ editor = NoEditor /\ tab = "prompts" /\ connected = TRUE /\ edits = 0 /\ losses = 0
    /\ placedAt = [p \in Cards |-> 0]

(***************************************************************************)
(* Cards.  An operator here takes the cards (cs), the cards under way (sub)*)
(* and the time the app believes it is (t).                                *)
(***************************************************************************)
\* key_target_card: the top card that is not being answered.
TopOpen(cs, sub) == LET open == SelectSeq(cs, LAMBDA p : p \notin sub)
                    IN IF open = <<>> THEN NoCard ELSE Head(open)
\* sync_key_target: a new top card is disarmed for Arm.
SyncKeyTarget(target, cs, sub, t) ==
    LET top == TopOpen(cs, sub)
    IN IF top = target.id THEN target
       ELSE IF top = NoCard THEN None
       ELSE [id |-> top, at |-> t + Arm]
Sync(cs, sub, t) == keyTarget' = SyncKeyTarget(keyTarget, cs, sub, t)

\* A card below a dropped one moved up.
MovedUp(cs, keep, p) == p \in keep /\ \E i, j \in DOMAIN cs : i < j /\ cs[i] \notin keep /\ cs[j] = p
\* retire_cards: the cards that moved up are disarmed again.
ArmedAfter(cs, keep, t) ==
    [p \in Cards |-> IF MovedUp(cs, keep, p) /\ armedAt[p] < t + Arm THEN t + Arm ELSE armedAt[p]]
RetireCards(keep, t) ==
    /\ cards' = Kept(cards, keep)
    /\ armedAt' = ArmedAfter(cards, keep, t)
    /\ placedAt' = [p \in Cards |-> IF MovedUp(cards, keep, p) THEN clock ELSE placedAt[p]]

\* detach_orphaned_editor: an editor whose prompt has no card is a plain rule's.
Detach(ed, cs) == IF ed.prompt \notin Range(cs) THEN [ed EXCEPT !.prompt = NoCard] ELSE ed

(***************************************************************************)
(* Arrivals, ticks and losses.                                             *)
(***************************************************************************)
\* prompt_attention: the first card shows its tab unless an editor is open.
Attention == IF editor.open \/ cards # <<>> THEN tab ELSE "prompts"

PromptEvent(p) ==
    /\ connected /\ deadline[p] = 0 /\ p \notin settled
    /\ deadline' = [deadline EXCEPT ![p] = clock + CardLife]
    /\ now' = clock
    /\ cards' = Append(cards, p)
    /\ armedAt' = [armedAt EXCEPT ![p] = clock + Arm]
    /\ placedAt' = [placedAt EXCEPT ![p] = clock]
    /\ Sync(cards', submitting, clock)
    /\ tab' = Attention
    /\ UNCHANGED <<clock, submitting, settled, calls, editor, connected, edits, losses>>

\* housekeeping, on StatusTick, DeadlineTick and RetryTick: cards past their
\* deadline go, whether or not an answer is under way.
Housekeeping ==
    LET keep == {p \in Range(cards) : deadline[p] > clock}
    IN /\ now # clock \/ keep # Range(cards)
       /\ now' = clock
       /\ RetireCards(keep, clock)
       /\ editor' = Detach(editor, cards')
       /\ Sync(cards', submitting, clock)
       /\ UNCHANGED <<clock, submitting, deadline, settled, calls, tab, connected, edits, losses>>

\* PromptStreamEnded: every card goes; the key target is looked at later.
PromptStreamEnded ==
    /\ connected /\ losses < MaxLosses /\ losses' = losses + 1
    /\ cards' = <<>> /\ editor' = Detach(editor, <<>>)
    /\ UNCHANGED <<clock, now, armedAt, submitting, keyTarget, deadline, settled, calls, tab, connected, edits,
                   placedAt>>

\* mark_failed and HandshakeDone: the subscriptions go and come, cards stay.
ConnectionLost ==
    /\ connected /\ losses < MaxLosses /\ losses' = losses + 1 /\ connected' = FALSE
    /\ UNCHANGED <<clock, now, cards, armedAt, submitting, keyTarget, deadline, settled, calls, editor, tab, edits,
                   placedAt>>
Reconnected ==
    /\ ~connected /\ connected' = TRUE /\ now' = clock
    /\ UNCHANGED <<clock, cards, armedAt, submitting, keyTarget, deadline, settled, calls, editor, tab, edits,
                   losses, placedAt>>

(***************************************************************************)
(* Answers.                                                                *)
(***************************************************************************)
\* Message::SubmitVerdict: one verdict per card at a time.  t is App::now_ms.
SubmitVerdict(p, from, t) ==
    /\ p \in Range(cards) /\ p \notin submitting
    /\ submitting' = submitting \cup {p}
    /\ calls' = calls \cup {[id |-> p, from |-> from, result |-> "sent"]}
    /\ Sync(cards, submitting', t)

\* PromptCard::armed, when the view was drawn: the button can be pressed.
Armed(p, t) == p \notin submitting /\ t >= armedAt[p]
ButtonPressed(p) ==
    /\ tab = "prompts" /\ p \in Range(cards) /\ Armed(p, now)
    /\ SubmitVerdict(p, "button", now)
    /\ UNCHANGED <<clock, now, cards, armedAt, deadline, settled, editor, tab, connected, edits, losses, placedAt>>

\* answer_key_target: the target is synced, then must be armed.
KeyPressed ==
    LET target == SyncKeyTarget(keyTarget, cards, submitting, clock)
    IN /\ tab = "prompts" /\ ~editor.open
       /\ target.id # NoCard /\ clock >= target.at
       /\ now' = clock
       /\ SubmitVerdict(target.id, "keys", clock)
       /\ UNCHANGED <<clock, cards, armedAt, deadline, settled, editor, tab, connected, edits, losses, placedAt>>

\* The call reaches the daemon, or fails before or after reaching it.  A call
\* for a rule may be applied without the rule.
CallAnswered(c) ==
    /\ c \in calls /\ c.result = "sent"
    /\ \E result \in {"accepted", "late", "failed", "unsaved"} :
         /\ (result = "late") = (c.id \in settled /\ result # "failed")
         /\ result = "unsaved" => c.id \in Scoped
         /\ calls' = (calls \ {c}) \cup {[c EXCEPT !.result = result]}
         /\ \/ result \in {"accepted", "unsaved"} /\ settled' = settled \cup {c.id}
            \/ result = "late" /\ UNCHANGED settled
            \/ result = "failed" /\ settled' \in {settled, settled \cup {c.id}}
    /\ UNCHANGED <<clock, now, cards, armedAt, submitting, keyTarget, deadline, editor, tab, connected, edits, losses,
                   placedAt>>

\* settle_card: gone once the daemon applied an answer, else answerable again.
\* Faulty variant: the card goes whatever came back.
SettleCardAway(c) ==
    /\ now' = clock
    /\ RetireCards(Range(cards) \ {c.id}, clock)
    /\ submitting' = submitting \ {c.id}
    /\ Sync(cards', submitting', clock)
SettleCard(c) ==
    /\ now' = clock
    /\ IF c.result # "failed"
         THEN RetireCards(Range(cards) \ {c.id}, clock)
         ELSE UNCHANGED <<cards, armedAt, placedAt>>
    /\ submitting' = submitting \ {c.id}
    /\ Sync(cards', submitting', clock)

\* VerdictSubmitted; PromptRuleSaved for a call from the editor, which closes
\* the editor when it went through and otherwise leaves it open.
VerdictSubmitted(c) ==
    /\ c \in calls /\ c.result # "sent" /\ calls' = calls \ {c}
    /\ SettleCard(c)
    /\ editor' = IF c.from # "editor" THEN editor
                 ELSE IF c.result \in {"accepted", "late"} THEN NoEditor
                 ELSE Detach(editor, cards')
    /\ UNCHANGED <<clock, deadline, settled, tab, connected, edits, losses>>

(***************************************************************************)
(* The editor.                                                             *)
(***************************************************************************)
\* CustomizePromptRule.
Customize(p) ==
    /\ tab = "prompts" /\ p \in Range(cards) /\ edits < MaxEdits
    /\ edits' = edits + 1 /\ editor' = [open |-> TRUE, prompt |-> p] /\ tab' = "rules"
    /\ UNCHANGED <<clock, now, cards, armedAt, submitting, keyTarget, deadline, settled, calls, connected, losses,
                   placedAt>>
\* OpenEditor, EditExistingRule, MakeRuleFromEvent.
OpenEditor ==
    /\ tab = "rules" /\ ~editor.open /\ edits < MaxEdits
    /\ edits' = edits + 1 /\ editor' = [open |-> TRUE, prompt |-> NoCard]
    /\ UNCHANGED <<clock, now, cards, armedAt, submitting, keyTarget, deadline, settled, calls, tab, connected, losses,
                   placedAt>>
CloseEditor ==
    /\ editor.open /\ tab = "rules" /\ editor' = NoEditor
    /\ UNCHANGED <<clock, now, cards, armedAt, submitting, keyTarget, deadline, settled, calls, tab, connected, edits,
                   losses, placedAt>>
TabSelected ==
    /\ tab' \in {"prompts", "rules"} \ {tab}
    /\ UNCHANGED <<clock, now, cards, armedAt, submitting, keyTarget, deadline, settled, calls, editor, connected, edits,
                   losses, placedAt>>

\* SaveRule for a customized prompt: a verdict with the rule; held by its card.
SaveRule ==
    LET p == Detach(editor, cards).prompt
    IN /\ editor.open /\ tab = "rules" /\ editor' = Detach(editor, cards)
       /\ p # NoCard /\ p \notin submitting
       /\ submitting' = submitting \cup {p}
       /\ calls' = calls \cup {[id |-> p, from |-> "editor", result |-> "sent"]}
       /\ Sync(cards, submitting', now)
       /\ UNCHANGED <<clock, now, cards, armedAt, deadline, settled, tab, connected, edits, losses, placedAt>>
\* SaveRule for a plain rule: UpsertRule; RuleSaved closes the editor or leaves
\* it open with the reason.
RuleSaved ==
    /\ editor.open /\ tab = "rules" /\ Detach(editor, cards).prompt = NoCard
    /\ editor' \in {NoEditor, Detach(editor, cards)}
    /\ UNCHANGED <<clock, now, cards, armedAt, submitting, keyTarget, deadline, settled, calls, tab, connected, edits,
                   losses, placedAt>>

\* The daemon settles a prompt at its deadline or for another client.
DaemonSettles(p) ==
    /\ deadline[p] > 0 /\ p \notin settled /\ settled' = settled \cup {p}
    /\ UNCHANGED <<clock, now, cards, armedAt, submitting, keyTarget, deadline, calls, editor, tab, connected, edits,
                   losses, placedAt>>
ClockAdvances ==
    /\ clock < MaxClock /\ clock' = clock + 1
    /\ settled' = settled \cup {p \in Cards : deadline[p] > 0 /\ deadline[p] <= clock'}
    /\ UNCHANGED <<now, cards, armedAt, submitting, keyTarget, deadline, calls, editor, tab, connected, edits, losses,
                   placedAt>>

GuiNext ==
    \/ Housekeeping \/ PromptStreamEnded \/ ConnectionLost \/ Reconnected \/ KeyPressed
    \/ OpenEditor \/ CloseEditor \/ TabSelected \/ SaveRule \/ RuleSaved \/ ClockAdvances
    \/ \E p \in Cards : PromptEvent(p) \/ ButtonPressed(p) \/ Customize(p) \/ DaemonSettles(p)
    \/ \E c \in calls : CallAnswered(c) \/ VerdictSubmitted(c)

(***************************************************************************)
(* Properties.                                                             *)
(***************************************************************************)
\* A button can be pressed only once its card has been in its place for the
\* arming time: a click under way when the cards moved answers nothing.
ButtonsHoldStill ==
    \A p \in Range(cards) : Armed(p, now) => clock >= placedAt[p] + Arm

\* A prompt has one verdict under way at most, whether it was given on the card
\* or in the editor.
OneVerdictUnderWay ==
    \A c, d \in calls : c.id = d.id => c = d

\* Every answer the app sends was meant and may be given again until it counts:
\* the two above, and a card is gone only when the daemon no longer waits for it
\* or the stream it came from ended, so that a verdict that never arrived can be
\* repeated.
CardKeptUntilSettled ==
    /\ [](ButtonsHoldStill /\ OneVerdictUnderWay)
    /\ [][\A p \in Range(cards) : p \notin Range(cards') => p \in settled \/ losses' # losses]_guiVars
=============================================================================
