-------------------------------- MODULE Tray --------------------------------
(***************************************************************************)
(* The tray: it follows the prompt stream through the resilient client,    *)
(* gives the first prompts a bubble with buttons and folds the rest into   *)
(* one overflow bubble, and sends the button the user pressed back to the  *)
(* daemon.  Bubbles are shown and waited for by tasks of their own, which  *)
(* report to the main loop over one channel; each task's reports are       *)
(* handled in the order it sent them.                                      *)
(*                                                                         *)
(* Time is the phase of each prompt: live until its deadline and the grace *)
(* after it (SLOT_GRACE_MS) have passed, over from then on.                *)
(***************************************************************************)
EXTENDS Integers, FiniteSets

CONSTANTS
    TrayPrompts,       \* prompts the daemon may send
    ExeKinds,          \* executables of the prompts: scopable, unknown, none
    MaxActionable,     \* MAX_ACTIONABLE_NOTIFICATIONS
    OldDaemon,         \* the daemon may predate persisted_rule_id
    TrayModes,         \* notification strategies: actions, generic
    MenuModes,         \* bound of the model: those in which the menu is used
    MaxTrayFaults      \* bound of the model: streams lost and polls failed

VARIABLES
    exeKind,    \* per prompt: the kind of its executable
    mode,       \* what probe_actions_supported chose
    due,        \* per prompt: unsent, live, over
    decided,    \* prompts the daemon no longer waits for
    slot,       \* PromptNotifier::active: none, unshown, shown (server_id)
    task,       \* the bubble's task: none, show, wait, done
    told,       \* PromptShown is in the channel
    key,        \* the key of the PromptResult in the channel, or none
    onScreen,   \* bubbles the server displays
    closing,    \* bubbles CloseNotification was sent for
    forgotten,  \* prompts on_disconnect dropped the slot of
    count,      \* overflow_count
    bubble,     \* OverflowBubble: down, opening, up
    oTask,      \* the overflow bubble's thread: none, show, told, wait, done
    said,       \* per prompt: what the user was told about the answer
    stored,     \* prompts whose answer wrote a rule
    client,     \* the kept connection
    stream,     \* prompt stream: up, down
    view,       \* DaemonView: connecting, unreachable, running, paused
    pausing,    \* none, asking, done: the SetPaused task; pause_in_flight while not none
    gate,       \* NotifyGate: last_count and whether the interval since the last bubble is over
    faults

trayVars == <<exeKind, mode, due, decided, slot, task, told, key, onScreen, closing, forgotten, count, bubble, oTask,
              said, stored, client, stream, view, pausing, gate, faults>>
bubbleVars == <<slot, task, told, key, onScreen, closing, forgotten>>
overflowVars == <<count, bubble, oTask>>
answerVars == <<said, stored, client>>
linkVars == <<exeKind, mode, stream, view, pausing, gate>>

ChoiceKeys == {"allow", "allow-once", "deny", "block"}
Lasting == {"allow", "block"}
TrayKeys == ChoiceKeys \cup {"default", "__closed"}

TrayInit ==
    /\ mode \in TrayModes /\ exeKind \in ExeKinds
    /\ due = [p \in TrayPrompts |-> "unsent"] /\ decided = {}
    /\ slot = [p \in TrayPrompts |-> "none"] /\ task = [p \in TrayPrompts |-> "none"]
    /\ told = [p \in TrayPrompts |-> FALSE] /\ key = [p \in TrayPrompts |-> "none"]
    /\ onScreen = {} /\ closing = {} /\ forgotten = {}
    /\ count = 0 /\ bubble = "down" /\ oTask = "none"
    /\ said = [p \in TrayPrompts |-> "nothing"] /\ stored = {} /\ client = FALSE
    /\ stream = "down" /\ view = "connecting" /\ pausing = "none"
    /\ gate = [last |-> 0, quiet |-> FALSE] /\ faults = 0

(***************************************************************************)
(* Slots.                                                                  *)
(***************************************************************************)
Held == {p \in TrayPrompts : slot[p] # "none"}

\* model::reclaim_expired: the slots of prompts that are over (this daemon
\* attaches a deadline to every prompt).
Expired == {p \in Held : due[p] = "over"}
\* What reclaiming leaves of the slots, and the bubbles it asks to close.
Reclaimed == [p \in TrayPrompts |-> IF p \in Expired THEN "none" ELSE slot[p]]
ReclaimCloses == closing \cup {p \in Expired : slot[p] = "shown"}

\* present_prompt: a bubble of its own while a slot is free.
Actionable(held) == Cardinality(held) < MaxActionable

(***************************************************************************)
(* The main loop's handlers.                                               *)
(***************************************************************************)
\* on_prompt: expired slots are reclaimed first.
OnPrompt(p) ==
    /\ stream = "up" /\ due[p] = "unsent"
    /\ \E late \in BOOLEAN : due' = [due EXCEPT ![p] = IF late THEN "over" ELSE "live"]
    /\ closing' = ReclaimCloses
    /\ IF Actionable(Held \ Expired)
         THEN /\ slot' = [Reclaimed EXCEPT ![p] = "unshown"]
              /\ task' = [task EXCEPT ![p] = "show"]
              /\ UNCHANGED overflowVars
         ELSE /\ slot' = Reclaimed
              /\ count' = count + 1
              /\ bubble' = IF bubble = "down" THEN "opening" ELSE bubble
              /\ \/ bubble = "down" /\ oTask' = "show"
                 \/ bubble = "down" /\ UNCHANGED oTask     \* no thread could be spawned
                 \/ bubble # "down" /\ UNCHANGED oTask     \* counted, or replaced in place
              /\ UNCHANGED task
    /\ decided' = IF due'[p] = "over" THEN decided \cup {p} ELSE decided
    /\ UNCHANGED <<told, key, onScreen, forgotten, answerVars, linkVars, faults>>

\* on_prompt_shown: a bubble whose slot is gone is closed again.
\* Faulty variant: it is left on screen.
OnPromptShownKeep(p) ==
    /\ told[p] /\ told' = [told EXCEPT ![p] = FALSE]
    /\ slot' = [slot EXCEPT ![p] = IF slot[p] = "none" THEN "none" ELSE "shown"]
    /\ UNCHANGED <<due, decided, task, key, onScreen, forgotten, closing, overflowVars, answerVars, linkVars, faults>>
OnPromptShown(p) ==
    /\ told[p] /\ told' = [told EXCEPT ![p] = FALSE]
    /\ \/ slot[p] # "none" /\ slot' = [slot EXCEPT ![p] = "shown"] /\ UNCHANGED closing
       \/ slot[p] = "none" /\ closing' = closing \cup {p} /\ UNCHANGED slot
    /\ UNCHANGED <<due, decided, task, key, onScreen, forgotten, overflowVars, answerVars, linkVars, faults>>

\* on_disconnect: the slots and the count are dropped, bubbles stay.
OnDisconnect ==
    /\ stream = "up" /\ faults < MaxTrayFaults
    /\ faults' = faults + 1 /\ stream' = "down"
    /\ forgotten' = forgotten \cup Held
    /\ slot' = [p \in TrayPrompts |-> "none"] /\ count' = 0
    /\ UNCHANGED <<due, decided, task, told, key, onScreen, closing, bubble, oTask, answerVars, exeKind, mode, view, pausing, gate>>

\* pump_once, stream_resilient: connected and subscribed again.
StreamConnected ==
    /\ mode = "actions" /\ stream = "down" /\ stream' = "up"
    /\ UNCHANGED <<exeKind, mode, due, decided, bubbleVars, overflowVars, answerVars, view, pausing, gate, faults>>

\* on_overflow_shown: a count that grew while it opened is shown in place.
OnOverflowShown ==
    /\ oTask = "told" /\ oTask' = "wait" /\ bubble' = "up"
    /\ UNCHANGED <<due, decided, bubbleVars, count, answerVars, linkVars, faults>>

\* on_overflow_result.
OnOverflowResult ==
    /\ oTask = "done" /\ oTask' = "none"
    /\ bubble' = "down" /\ count' = 0
    /\ UNCHANGED <<due, decided, bubbleVars, answerVars, linkVars, faults>>

(***************************************************************************)
(* An answer.                                                              *)
(***************************************************************************)
\* verdict_for: a lasting choice for an executable that cannot scope a rule is
\* answered once, without a scope.
WantsRule(p, k) == k \in Lasting /\ exeKind[p] = "scopable"

\* What the daemon answers, as submit_verdict reads it.  It takes the answer
\* when the prompt still waits; then the rule was stored, was not, or an old
\* daemon does not say; the call may fail before or after that.
Outcomes(p, k) ==
    IF p \in decided THEN {"late", "refused", "failed"}
    ELSE {"refused", "failed"} \cup
         (IF ~WantsRule(p, k) THEN {"unasked"}
          ELSE {"stored", "unsaved"} \cup (IF OldDaemon THEN {"silent_stored", "silent_unsaved"} ELSE {}))
Applied == {"unasked", "stored", "unsaved", "silent_stored", "silent_unsaved"}

\* The follow-up after an accepted answer: match (choice, rule_persisted).
FollowUp(p, k, o) ==
    CASE k \notin Lasting -> "nothing"
      [] ~WantsRule(p, k) -> "answered once"
      [] o = "unsaved" -> "not saved"
      [] OTHER -> "rule created"

\* submit_prompt_verdict: a lasting choice without a path is ignored; without a
\* connection one is made first.
SubmitPromptVerdict(p, k) ==
    \/ /\ k \in Lasting /\ exeKind[p] = "none"
       /\ UNCHANGED <<said, stored, client, decided>>
    \/ /\ ~(k \in Lasting /\ exeKind[p] = "none") /\ ~client       \* connecting failed
       /\ UNCHANGED <<said, stored, client, decided>>
    \/ /\ ~(k \in Lasting /\ exeKind[p] = "none")
       /\ \E o \in Outcomes(p, k) :
            /\ said' = [said EXCEPT ![p] = CASE o \in Applied -> FollowUp(p, k, o)
                                             [] o = "late" -> "too late"
                                             [] o = "refused" -> "refused"
                                             [] OTHER -> "nothing"]
            /\ stored' = IF o \in {"stored", "silent_stored"} THEN stored \cup {p} ELSE stored
            /\ client' = (o \notin {"refused", "failed"})
            \* A call that failed may have reached the daemon.
            /\ \/ decided' = IF o \in Applied THEN decided \cup {p} ELSE decided
               \/ o = "failed" /\ decided' = decided \cup {p}

\* Cmd::PromptResult: the slot goes whatever the key; only a choice on a bubble
\* that still had its slot is sent.
OnPromptResult(p) ==
    /\ key[p] # "none" /\ ~told[p]
    /\ slot' = [slot EXCEPT ![p] = "none"]
    /\ key' = [key EXCEPT ![p] = "none"] /\ task' = [task EXCEPT ![p] = "done"]
    /\ IF slot[p] # "none" /\ key[p] \in ChoiceKeys
         THEN SubmitPromptVerdict(p, key[p])
         ELSE UNCHANGED <<answerVars, decided>>        \* the default key opens the app
    /\ UNCHANGED <<due, told, onScreen, closing, forgotten, overflowVars, linkVars, faults>>

(***************************************************************************)
(* The ticker, the menu and the pause task.                                *)
(***************************************************************************)
\* NotifyGate::on_poll, with n prompts pending.
OnPoll(g, n) ==
    LET fires == n > g.last /\ ~g.quiet
    IN [last |-> n, quiet |-> g.quiet \/ fires]

\* poll_once: GetStatus over the kept connection, made first if there is none.
PollOnce ==
    \/ /\ client' = TRUE /\ view' \in {"running", "paused"}
       /\ \/ mode = "generic" /\ \E n \in 0..2 : gate' = OnPoll(gate, n)
          \/ mode = "actions" /\ UNCHANGED gate
       /\ UNCHANGED faults
    \/ /\ faults < MaxTrayFaults /\ faults' = faults + 1
       /\ client' = FALSE /\ view' = "unreachable" /\ UNCHANGED gate

\* The tick: reclaim, then refresh.
Tick ==
    /\ slot' = Reclaimed /\ closing' = ReclaimCloses
    /\ PollOnce
    /\ UNCHANGED <<due, decided, task, told, key, onScreen, forgotten, overflowVars, said, stored, exeKind, mode, stream, pausing>>

\* NOTIFY_MIN_INTERVAL_MS after the last count notification.
IntervalOver ==
    /\ gate.quiet /\ gate' = [gate EXCEPT !.quiet = FALSE]
    /\ UNCHANGED <<due, decided, bubbleVars, overflowVars, answerVars, exeKind, mode, stream, view, pausing, faults>>

\* menu_model: pausing is offered while reachable, resuming while paused.
MenuOffersPause == view \in {"running", "paused"}
\* Cmd::Pause and Cmd::Resume, ignored while one is in flight.
PauseClicked ==
    /\ mode \in MenuModes /\ MenuOffersPause /\ pausing = "none" /\ pausing' = "asking"
    /\ UNCHANGED <<due, decided, bubbleVars, overflowVars, answerVars, exeKind, mode, stream, view, gate, faults>>
\* spawn_set_paused: the daemon answered, refused or the call timed out.
PauseAnswered ==
    /\ pausing = "asking" /\ pausing' = "done"
    /\ UNCHANGED <<due, decided, bubbleVars, overflowVars, answerVars, exeKind, mode, stream, view, gate, faults>>
\* Cmd::PauseDone: then the view is refreshed.
OnPauseDone ==
    /\ pausing = "done" /\ pausing' = "none"
    /\ PollOnce
    /\ UNCHANGED <<due, decided, bubbleVars, overflowVars, said, stored, exeKind, mode, stream>>

(***************************************************************************)
(* The bubbles' tasks, the notification server and the user.               *)
(***************************************************************************)
\* await_answer up to PromptShown; showing may fail, which ends the task.
AwaitAnswer(p) ==
    /\ task[p] = "show"
    /\ \/ /\ task' = [task EXCEPT ![p] = "wait"] /\ told' = [told EXCEPT ![p] = TRUE]
          /\ onScreen' = onScreen \cup {p} /\ UNCHANGED key
       \/ /\ key' = [key EXCEPT ![p] = "__closed"] /\ UNCHANGED <<told, onScreen>>
          /\ task' = [task EXCEPT ![p] = "done"]
    /\ UNCHANGED <<due, decided, slot, closing, forgotten, overflowVars, answerVars, linkVars, faults>>

\* Answers::next_for: the server's signal about this bubble.  Buttons for a
\* lasting rule are offered only when the executable can scope one, but the
\* key is whatever the server sends.
Signal(p) ==
    /\ p \in onScreen /\ task[p] = "wait" /\ key[p] = "none"
    /\ \E k \in TrayKeys : key' = [key EXCEPT ![p] = k]
    /\ onScreen' = onScreen \ {p}
    /\ UNCHANGED <<due, decided, slot, task, told, closing, forgotten, overflowVars, answerVars, linkVars, faults>>

\* The wait ran out, past the deadline (ANSWER_GRACE), or the bus is gone.
WaitRunsOut(p) ==
    /\ task[p] = "wait" /\ key[p] = "none" /\ due[p] = "over"
    /\ key' = [key EXCEPT ![p] = "__closed"]
    /\ UNCHANGED <<due, decided, slot, task, told, onScreen, closing, forgotten, overflowVars, answerVars,
                   linkVars, faults>>

\* CloseNotification reaches the server.
CloseArrives(p) ==
    /\ p \in closing /\ p \in onScreen
    /\ onScreen' = onScreen \ {p}
    /\ key' = IF task[p] = "wait" /\ key[p] = "none" THEN [key EXCEPT ![p] = "__closed"] ELSE key
    /\ UNCHANGED <<due, decided, slot, task, told, closing, forgotten, overflowVars, answerVars, linkVars, faults>>

\* The overflow bubble's thread: shown or failed; then clicked or closed.
OverflowThread ==
    /\ \/ oTask = "show" /\ oTask' \in {"told", "done"}
       \/ oTask = "wait" /\ oTask' = "done"
    /\ UNCHANGED <<due, decided, bubbleVars, count, bubble, answerVars, linkVars, faults>>

\* A prompt is over; the daemon decided it at its deadline.
TimePasses(p) ==
    /\ due[p] = "live" /\ due' = [due EXCEPT ![p] = "over"]
    /\ decided' = decided \cup {p}
    /\ UNCHANGED <<bubbleVars, overflowVars, answerVars, linkVars, faults>>
\* The daemon decided it earlier: its deadline, another client, a restart.
DecidedElsewhere(p) ==
    /\ due[p] = "live" /\ p \notin decided /\ decided' = decided \cup {p}
    /\ UNCHANGED <<due, bubbleVars, overflowVars, answerVars, linkVars, faults>>

TrayNext ==
    \/ OnDisconnect \/ StreamConnected \/ OnOverflowShown \/ OnOverflowResult \/ Tick \/ IntervalOver
    \/ PauseClicked \/ PauseAnswered \/ OnPauseDone \/ OverflowThread
    \/ \E p \in TrayPrompts :
          \/ OnPrompt(p) \/ OnPromptShown(p) \/ OnPromptResult(p) \/ AwaitAnswer(p) \/ Signal(p)
          \/ WaitRunsOut(p) \/ CloseArrives(p) \/ TimePasses(p) \/ DecidedElsewhere(p)

(***************************************************************************)
(* Properties.                                                             *)
(***************************************************************************)
\* The tray says a rule was created only when the answer asked for one, and,
\* unless the daemon does not report it, only when one was stored.
AnnouncedRuleExists ==
    \A p \in TrayPrompts : said[p] = "rule created" =>
        exeKind[p] = "scopable" /\ (p \in stored \/ OldDaemon)

\* A bubble left on screen after its slot was reclaimed is asked to close, also
\* when the slot went before the bubble's id was known.
ReclaimedIsClosed ==
    \A p \in onScreen : (slot[p] = "none" /\ key[p] = "none" /\ ~told[p]) =>
        p \in closing \/ p \in forgotten \/ task[p] = "done"

\* Bubbles on the screen, slots and answers stay together: the two above; a
\* prompt is folded into the overflow bubble, which cannot answer it, only while
\* every slot belongs to a prompt that can still be answered; and an answer is
\* sent only while its bubble holds its slot, never after its stream was lost.
BubblesStandForPrompts ==
    /\ [](AnnouncedRuleExists /\ ReclaimedIsClosed)
    /\ [][count' > count => \A p \in TrayPrompts : slot'[p] # "none" => due[p] = "live"]_trayVars
    /\ [][\A p \in TrayPrompts :
             (said'[p] # said[p] \/ (p \in stored' /\ p \notin stored)) => p \notin forgotten]_trayVars
=============================================================================
