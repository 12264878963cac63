----------------------------- MODULE AppsProofs -----------------------------
(***************************************************************************)
(* Proofs about the daemon's clients: the tray's bubbles, slots and answers*)
(* (Tray), the desktop app's cards and calls (Gui) and every path by which *)
(* a rule is written, listed, backed up and edited (RuleTools), each for   *)
(* every value of its constants.                                           *)
(***************************************************************************)
EXTENDS Tray, Gui, RuleTools, ListProofs, FiniteSetTheorems, SequenceTheorems, TLAPS

-----------------------------------------------------------------------------
(* The tray *)

TrayTypes ==
  /\ due \in [TrayPrompts -> {"unsent", "live", "over"}]
  /\ slot \in [TrayPrompts -> {"none", "unshown", "shown"}]
  /\ task \in [TrayPrompts -> {"none", "show", "wait", "done"}]
  /\ told \in [TrayPrompts -> BOOLEAN]
  /\ key \in [TrayPrompts -> TrayKeys \cup {"none"}]
  /\ DOMAIN said = TrayPrompts
  /\ count \in Nat /\ onScreen \subseteq TrayPrompts

\* A prompt the daemon has not sent has no slot, task or bubble.
UnsentUntouched ==
  \A p \in TrayPrompts : due[p] = "unsent" =>
    slot[p] = "none" /\ task[p] = "none" /\ key[p] = "none" /\ p \notin onScreen \cup forgotten

\* A bubble is on the screen once its task has shown it; until its slot knows of
\* it, its id is in the channel.
ShownIsTold ==
  \A p \in TrayPrompts :
    /\ task[p] = "show" => p \notin onScreen
    /\ slot[p] = "unshown" /\ p \in onScreen => told[p]

\* A slot that was dropped with the stream never comes back.
ForgottenGone == \A p \in TrayPrompts : p \in forgotten => slot[p] = "none"

TrayInv ==
  TrayTypes /\ UnsentUntouched /\ ShownIsTold /\ ForgottenGone /\ AnnouncedRuleExists /\ ReclaimedIsClosed

LEMMA TrayStarts == TrayInit => TrayInv
<1> SUFFICES ASSUME TrayInit PROVE TrayInv
  OBVIOUS
<1>1. TrayTypes
  BY DEF TrayInit, TrayTypes
<1>2. \A p \in TrayPrompts : slot[p] = "none" /\ task[p] = "none" /\ key[p] = "none" /\ said[p] = "nothing"
  BY DEF TrayInit
<1> QED
  BY <1>1, <1>2 DEF TrayInit, TrayInv, UnsentUntouched, ShownIsTold, ForgottenGone, AnnouncedRuleExists, ReclaimedIsClosed

\* Bubbles and slots are left alone, save that more of them are asked to close.
LEMMA BubblesRest ==
  ASSUME TrayInv, UNCHANGED <<due, slot, task, told, key, onScreen, forgotten, exeKind, said, stored>>,
         count' \in Nat, closing \subseteq closing'
  PROVE  TrayInv'
<1>1. TrayTypes'
  BY DEF TrayInv, TrayTypes
<1>2. UnsentUntouched' /\ ShownIsTold' /\ ForgottenGone' /\ AnnouncedRuleExists'
  BY DEF TrayInv, UnsentUntouched, ShownIsTold, ForgottenGone, AnnouncedRuleExists
<1>3. ReclaimedIsClosed'
  BY DEF TrayInv, ReclaimedIsClosed
<1> QED
  BY <1>1, <1>2, <1>3 DEF TrayInv

\* Slots of prompts that are over are dropped.
LEMMA ReclaimKeeps ==
  ASSUME TrayInv, slot' = Reclaimed, closing' = ReclaimCloses,
         UNCHANGED <<due, task, told, key, onScreen, forgotten, exeKind, said, stored>>, count' \in Nat
  PROVE  TrayInv'
<1>1. \A p \in TrayPrompts : slot'[p] = "none" \/ slot'[p] = slot[p]
  BY DEF Reclaimed
<1>2. TrayTypes'
  <2>1. slot' \in [TrayPrompts -> {"none", "unshown", "shown"}]
    BY DEF TrayInv, TrayTypes, Reclaimed
  <2> QED
    BY <2>1 DEF TrayInv, TrayTypes
<1>3. UnsentUntouched' /\ ForgottenGone' /\ ShownIsTold' /\ AnnouncedRuleExists'
  BY <1>1 DEF TrayInv, UnsentUntouched, ForgottenGone, ShownIsTold, AnnouncedRuleExists
<1>4. ASSUME NEW p \in onScreen, slot'[p] = "none", key[p] = "none", ~told[p]
      PROVE  p \in closing' \/ p \in forgotten \/ task[p] = "done"
  <2>0. p \in TrayPrompts
    BY DEF TrayInv, TrayTypes
  <2>1. CASE slot[p] = "none"
    BY <1>4, <2>0, <2>1 DEF TrayInv, ReclaimedIsClosed, ReclaimCloses
  <2>2. CASE slot[p] = "shown"
    <3>1. p \in Expired
      BY <1>4, <2>0, <2>2 DEF Reclaimed
    <3> QED
      BY <2>2, <3>1 DEF ReclaimCloses
  <2>3. slot[p] # "unshown"
    BY <1>4, <2>0 DEF TrayInv, ShownIsTold
  <2> QED
    BY <1>4, <2>0, <2>1, <2>2, <2>3 DEF TrayInv, TrayTypes
<1>5. ReclaimedIsClosed'
  <2>1. onScreen' = onScreen /\ key' = key /\ told' = told /\ forgotten' = forgotten /\ task' = task
    OBVIOUS
  <2> QED
    BY <1>4, <2>1 DEF ReclaimedIsClosed
<1> QED
  BY <1>2, <1>3, <1>5 DEF TrayInv
LEMMA OnPromptKeeps ==
  ASSUME TrayInv, NEW p \in TrayPrompts, OnPrompt(p)
  PROVE  TrayInv'
<1>1. /\ due[p] = "unsent" /\ due' \in [TrayPrompts -> {"unsent", "live", "over"}]
      /\ due'[p] # "unsent" /\ \A q \in TrayPrompts : q # p => due'[q] = due[q]
  BY DEF OnPrompt, TrayInv, TrayTypes
<1>2. closing' = ReclaimCloses /\ UNCHANGED <<told, key, onScreen, forgotten, exeKind, said, stored>>
  BY DEF OnPrompt, answerVars, linkVars
<1>3. slot[p] = "none" /\ task[p] = "none" /\ p \notin onScreen /\ p \notin forgotten
  BY <1>1 DEF TrayInv, UnsentUntouched
<1>4. /\ slot' \in [TrayPrompts -> {"none", "unshown", "shown"}]
      /\ \A q \in TrayPrompts : q # p => slot'[q] = Reclaimed[q]
  <2>1. Reclaimed \in [TrayPrompts -> {"none", "unshown", "shown"}]
    BY DEF TrayInv, TrayTypes, Reclaimed
  <2> QED
    BY <2>1 DEF OnPrompt
<1>5. /\ task' \in [TrayPrompts -> {"none", "show", "wait", "done"}]
      /\ \A q \in TrayPrompts : q # p => task'[q] = task[q]
  BY DEF OnPrompt, TrayInv, TrayTypes
<1>6. count' \in Nat
  BY DEF OnPrompt, TrayInv, TrayTypes, overflowVars
<1>7. \A q \in TrayPrompts : q # p => slot'[q] = "none" \/ slot'[q] = slot[q]
  BY <1>4 DEF Reclaimed
<1>8. TrayTypes'
  BY <1>1, <1>2, <1>4, <1>5, <1>6 DEF TrayInv, TrayTypes
<1>9. UnsentUntouched'
  BY <1>1, <1>2, <1>3, <1>5, <1>7 DEF TrayInv, UnsentUntouched
<1>10. ShownIsTold' /\ ForgottenGone' /\ AnnouncedRuleExists'
  BY <1>2, <1>3, <1>5, <1>7 DEF TrayInv, ShownIsTold, ForgottenGone, AnnouncedRuleExists
<1>11. ASSUME NEW q \in onScreen, slot'[q] = "none", key[q] = "none", ~told[q]
       PROVE  q \in closing' \/ q \in forgotten \/ task'[q] = "done"
  <2>1. q \in TrayPrompts /\ q # p
    BY <1>3 DEF TrayInv, TrayTypes
  <2>2. CASE slot[q] = "none"
    BY <1>2, <1>5, <1>11, <2>1, <2>2 DEF TrayInv, ReclaimedIsClosed, ReclaimCloses
  <2>3. CASE slot[q] = "shown"
    <3>1. q \in Expired
      BY <1>4, <1>11, <2>1, <2>3 DEF Reclaimed
    <3> QED
      BY <1>2, <2>3, <3>1 DEF ReclaimCloses
  <2>4. slot[q] # "unshown"
    BY <1>11, <2>1 DEF TrayInv, ShownIsTold
  <2> QED
    BY <2>1, <2>2, <2>3, <2>4 DEF TrayInv, TrayTypes
<1>12. ReclaimedIsClosed'
  BY <1>2, <1>11 DEF ReclaimedIsClosed
<1> QED
  BY <1>8, <1>9, <1>10, <1>12 DEF TrayInv

LEMMA OnPromptShownKeeps ==
  ASSUME TrayInv, NEW p \in TrayPrompts, OnPromptShown(p)
  PROVE  TrayInv'
<1>1. /\ told[p] /\ told' = [told EXCEPT ![p] = FALSE] /\ closing \subseteq closing'
      /\ UNCHANGED <<due, task, key, onScreen, forgotten, exeKind, said, stored, count>>
  BY DEF OnPromptShown, answerVars, linkVars, overflowVars
<1>2. /\ slot' \in [TrayPrompts -> {"none", "unshown", "shown"}]
      /\ \A q \in TrayPrompts : slot'[q] = "none" <=> slot[q] = "none"
      /\ \A q \in TrayPrompts : q # p => slot'[q] = slot[q]
      /\ slot'[p] # "unshown" /\ (slot[p] = "none" => p \in closing')
  BY DEF OnPromptShown, TrayInv, TrayTypes
<1>3. /\ told' \in [TrayPrompts -> BOOLEAN] /\ ~told'[p]
      /\ \A q \in TrayPrompts : q # p => told'[q] = told[q]
  BY <1>1 DEF TrayInv, TrayTypes
<1>4. TrayTypes'
  BY <1>1, <1>2, <1>3 DEF TrayInv, TrayTypes
<1>5. UnsentUntouched' /\ ForgottenGone' /\ AnnouncedRuleExists'
  BY <1>1, <1>2 DEF TrayInv, UnsentUntouched, ForgottenGone, AnnouncedRuleExists
<1>6. ShownIsTold'
  BY <1>1, <1>2, <1>3 DEF TrayInv, ShownIsTold
<1>7. ReclaimedIsClosed'
  <2>1. onScreen \subseteq TrayPrompts
    BY DEF TrayInv, TrayTypes
  <2> QED
    BY <1>1, <1>2, <1>3, <2>1 DEF TrayInv, ReclaimedIsClosed
<1> QED
  BY <1>4, <1>5, <1>6, <1>7 DEF TrayInv

LEMMA OnDisconnectKeeps == TrayInv /\ OnDisconnect => TrayInv'
<1> SUFFICES ASSUME TrayInv, OnDisconnect PROVE TrayInv'
  OBVIOUS
<1>1. /\ \A p \in TrayPrompts : slot'[p] = "none"
      /\ slot' \in [TrayPrompts -> {"none", "unshown", "shown"}]
      /\ forgotten' = forgotten \cup Held /\ count' = 0
      /\ UNCHANGED <<due, task, told, key, onScreen, closing, exeKind, said, stored>>
  BY DEF OnDisconnect, answerVars
<1>2. TrayTypes'
  BY <1>1 DEF TrayInv, TrayTypes
<1>3. UnsentUntouched'
  BY <1>1 DEF TrayInv, UnsentUntouched, Held
<1>4. ShownIsTold' /\ ForgottenGone' /\ AnnouncedRuleExists'
  BY <1>1 DEF TrayInv, ShownIsTold, ForgottenGone, AnnouncedRuleExists
<1>5. ReclaimedIsClosed'
  <2>1. onScreen \subseteq TrayPrompts
    BY DEF TrayInv, TrayTypes
  <2> QED
    BY <1>1, <2>1 DEF TrayInv, ReclaimedIsClosed, Held
<1> QED
  BY <1>2, <1>3, <1>4, <1>5 DEF TrayInv
\* What the user is told of an answer is so.
LEMMA OnPromptResultKeeps ==
  ASSUME TrayInv, NEW p \in TrayPrompts, OnPromptResult(p)
  PROVE  TrayInv'
<1>1. /\ key[p] # "none" /\ slot' = [slot EXCEPT ![p] = "none"] /\ key' = [key EXCEPT ![p] = "none"]
      /\ task' = [task EXCEPT ![p] = "done"]
      /\ UNCHANGED <<due, told, onScreen, closing, forgotten, exeKind, count>>
  BY DEF OnPromptResult, linkVars, overflowVars
<1>2. /\ slot' \in [TrayPrompts -> {"none", "unshown", "shown"}] /\ slot'[p] = "none"
      /\ key' \in [TrayPrompts -> TrayKeys \cup {"none"}] /\ key'[p] = "none"
      /\ task' \in [TrayPrompts -> {"none", "show", "wait", "done"}] /\ task'[p] = "done"
      /\ \A q \in TrayPrompts : q # p => slot'[q] = slot[q] /\ key'[q] = key[q] /\ task'[q] = task[q]
  BY <1>1 DEF TrayInv, TrayTypes
<1>3. /\ DOMAIN said' = TrayPrompts /\ stored \subseteq stored'
      /\ \A q \in TrayPrompts : said'[q] = "rule created" /\ said'[q] # said[q] =>
           exeKind[q] = "scopable" /\ (q \in stored' \/ OldDaemon)
  <2>1. CASE UNCHANGED <<said, stored>>
    BY <2>1 DEF TrayInv, TrayTypes
  <2>2. CASE \E o \in Outcomes(p, key[p]) :
               /\ said' = [said EXCEPT ![p] = CASE o \in Applied -> FollowUp(p, key[p], o)
                                                [] o = "late" -> "too late"
                                                [] o = "refused" -> "refused"
                                                [] OTHER -> "nothing"]
               /\ stored' = IF o \in {"stored", "silent_stored"} THEN stored \cup {p} ELSE stored
    <3>1. PICK o \in Outcomes(p, key[p]) :
               /\ said' = [said EXCEPT ![p] = CASE o \in Applied -> FollowUp(p, key[p], o)
                                                [] o = "late" -> "too late"
                                                [] o = "refused" -> "refused"
                                                [] OTHER -> "nothing"]
               /\ stored' = IF o \in {"stored", "silent_stored"} THEN stored \cup {p} ELSE stored
      BY <2>2
    <3>2. /\ DOMAIN said' = TrayPrompts /\ \A q \in TrayPrompts : q # p => said'[q] = said[q]
          /\ said'[p] = "rule created" => o \in Applied /\ FollowUp(p, key[p], o) = "rule created"
      BY <3>1 DEF TrayInv, TrayTypes
    <3>3. ASSUME o \in Applied, FollowUp(p, key[p], o) = "rule created"
          PROVE  exeKind[p] = "scopable" /\ (p \in stored' \/ OldDaemon)
      <4>1. WantsRule(p, key[p]) /\ o # "unsaved"
        BY <3>3 DEF FollowUp, WantsRule
      <4>2. o \in {"stored", "silent_stored"} \/ OldDaemon
        BY <3>1, <3>3, <4>1 DEF Outcomes, Applied
      <4> QED
        BY <3>1, <4>1, <4>2 DEF WantsRule
    <3> QED
      BY <3>1, <3>2, <3>3
  <2> QED
    BY <2>1, <2>2 DEF OnPromptResult, SubmitPromptVerdict, answerVars
<1>4. TrayTypes'
  BY <1>1, <1>2, <1>3 DEF TrayInv, TrayTypes
<1>5. AnnouncedRuleExists'
  BY <1>1, <1>3 DEF TrayInv, AnnouncedRuleExists
<1>6. UnsentUntouched' /\ ShownIsTold' /\ ForgottenGone'
  BY <1>1, <1>2 DEF TrayInv, UnsentUntouched, ShownIsTold, ForgottenGone
<1>7. ReclaimedIsClosed'
  <2>1. onScreen \subseteq TrayPrompts
    BY DEF TrayInv, TrayTypes
  <2> QED
    BY <1>1, <1>2, <2>1 DEF TrayInv, ReclaimedIsClosed
<1> QED
  BY <1>4, <1>5, <1>6, <1>7 DEF TrayInv

\* The bubbles' tasks and the server.
LEMMA BubbleStepsKeep ==
  ASSUME TrayInv, NEW p \in TrayPrompts,
         AwaitAnswer(p) \/ Signal(p) \/ WaitRunsOut(p) \/ CloseArrives(p) \/ TimePasses(p)
  PROVE  TrayInv'
<1>1. UNCHANGED <<slot, closing, forgotten, exeKind, said, stored, count>>
  BY DEF AwaitAnswer, Signal, WaitRunsOut, CloseArrives, TimePasses, linkVars, answerVars, overflowVars, bubbleVars
<1>2. AnnouncedRuleExists' /\ ForgottenGone'
  BY <1>1 DEF TrayInv, AnnouncedRuleExists, ForgottenGone
<1>3. onScreen \subseteq TrayPrompts
  BY DEF TrayInv, TrayTypes
<1>4. CASE AwaitAnswer(p)
  <2>1. /\ UNCHANGED due /\ task[p] = "show" /\ p \notin onScreen /\ due[p] # "unsent"
        /\ task' \in [TrayPrompts -> {"none", "show", "wait", "done"}] /\ task'[p] # "show"
        /\ \A q \in TrayPrompts : q # p => task'[q] = task[q]
    BY <1>4 DEF AwaitAnswer, TrayInv, TrayTypes, ShownIsTold, UnsentUntouched
  <2>2. \/ /\ told' = [told EXCEPT ![p] = TRUE] /\ onScreen' = onScreen \cup {p} /\ UNCHANGED key
        \/ /\ key' = [key EXCEPT ![p] = "__closed"] /\ UNCHANGED <<told, onScreen>>
    BY <1>4 DEF AwaitAnswer
  <2>3. /\ told' \in [TrayPrompts -> BOOLEAN] /\ key' \in [TrayPrompts -> TrayKeys \cup {"none"}]
        /\ onScreen' \subseteq onScreen \cup {p} /\ (p \in onScreen' => told'[p])
        /\ \A q \in TrayPrompts : q # p => told'[q] = told[q] /\ key'[q] = key[q]
    BY <2>1, <2>2 DEF TrayInv, TrayTypes, TrayKeys
  <2>4. TrayTypes'
    BY <1>1, <2>1, <2>3 DEF TrayInv, TrayTypes
  <2>5. UnsentUntouched' /\ ShownIsTold'
    BY <1>1, <2>1, <2>3 DEF TrayInv, UnsentUntouched, ShownIsTold
  <2>6. ReclaimedIsClosed'
    BY <1>1, <1>3, <2>1, <2>3 DEF TrayInv, ReclaimedIsClosed
  <2> QED
    BY <1>2, <2>4, <2>5, <2>6 DEF TrayInv
<1>5. CASE Signal(p) \/ WaitRunsOut(p) \/ CloseArrives(p)
  <2>1. /\ UNCHANGED <<due, task, told>> /\ onScreen' \subseteq onScreen
        /\ key' \in [TrayPrompts -> TrayKeys \cup {"none"}]
        /\ \A q \in TrayPrompts : key'[q] # key[q] => q = p /\ task[p] = "wait" /\ key'[p] # "none"
    <3>1. CASE Signal(p)
      <4>1. "none" \notin TrayKeys
        BY DEF TrayKeys, ChoiceKeys
      <4> QED
        BY <3>1, <4>1 DEF Signal, TrayInv, TrayTypes
    <3>2. CASE WaitRunsOut(p)
      BY <3>2 DEF WaitRunsOut, TrayInv, TrayTypes, TrayKeys
    <3>3. CASE CloseArrives(p)
      BY <3>3 DEF CloseArrives, TrayInv, TrayTypes, TrayKeys
    <3> QED
      BY <1>5, <3>1, <3>2, <3>3
  <2>2. TrayTypes'
    BY <1>1, <2>1 DEF TrayInv, TrayTypes
  <2>3. UnsentUntouched' /\ ShownIsTold'
    BY <1>1, <2>1 DEF TrayInv, UnsentUntouched, ShownIsTold
  <2>4. ReclaimedIsClosed'
    BY <1>1, <1>3, <2>1 DEF TrayInv, ReclaimedIsClosed
  <2> QED
    BY <1>2, <2>2, <2>3, <2>4 DEF TrayInv
<1>6. CASE TimePasses(p)
  <2>1. /\ due' \in [TrayPrompts -> {"unsent", "live", "over"}]
        /\ \A q \in TrayPrompts : due'[q] = "unsent" => due[q] = "unsent"
        /\ UNCHANGED <<task, told, key, onScreen>>
    BY <1>6 DEF TimePasses, TrayInv, TrayTypes, bubbleVars
  <2>2. TrayTypes' /\ UnsentUntouched' /\ ShownIsTold' /\ ReclaimedIsClosed'
    BY <1>1, <2>1 DEF TrayInv, TrayTypes, UnsentUntouched, ShownIsTold, ReclaimedIsClosed
  <2> QED
    BY <1>2, <2>2 DEF TrayInv
<1> QED
  BY <1>4, <1>5, <1>6

LEMMA TrayKept == TrayInv /\ [TrayNext]_trayVars => TrayInv'
<1> SUFFICES ASSUME TrayInv, [TrayNext]_trayVars PROVE TrayInv'
  OBVIOUS
<1>0. count \in Nat /\ 0 \in Nat
  BY DEF TrayInv, TrayTypes
<1>1. CASE \/ StreamConnected \/ OnOverflowShown \/ OnOverflowResult \/ IntervalOver \/ PauseClicked
           \/ PauseAnswered \/ OnPauseDone \/ OverflowThread \/ (\E p \in TrayPrompts : DecidedElsewhere(p))
           \/ UNCHANGED trayVars
  <2>1. /\ UNCHANGED <<due, slot, task, told, key, onScreen, forgotten, exeKind, said, stored, closing>>
        /\ count' = count \/ count' = 0
    BY <1>1 DEF StreamConnected, OnOverflowShown, OnOverflowResult, IntervalOver, PauseClicked, PauseAnswered,
                OnPauseDone, OverflowThread, DecidedElsewhere, trayVars, bubbleVars, overflowVars, answerVars, linkVars
  <2> QED
    BY <1>0, <2>1, BubblesRest
<1>2. CASE Tick
  <2>1. /\ slot' = Reclaimed /\ closing' = ReclaimCloses
        /\ UNCHANGED <<due, task, told, key, onScreen, forgotten, exeKind, said, stored, count>>
    BY <1>2 DEF Tick, overflowVars
  <2> QED
    BY <1>0, <2>1, ReclaimKeeps
<1>3. CASE OnDisconnect
  BY <1>3, OnDisconnectKeeps
<1>4. ASSUME NEW p \in TrayPrompts, OnPrompt(p) \/ OnPromptShown(p) \/ OnPromptResult(p) PROVE TrayInv'
  BY <1>4, OnPromptKeeps, OnPromptShownKeeps, OnPromptResultKeeps
<1>5. ASSUME NEW p \in TrayPrompts,
             AwaitAnswer(p) \/ Signal(p) \/ WaitRunsOut(p) \/ CloseArrives(p) \/ TimePasses(p)
      PROVE  TrayInv'
  BY <1>5, BubbleStepsKeep
<1> QED
  BY <1>1, <1>2, <1>3, <1>4, <1>5 DEF TrayNext

\* A prompt is folded into the overflow bubble only when the slots are full of
\* prompts that can still be answered.
LEMMA FoldedWhenFull ==
  TrayInv /\ [TrayNext]_trayVars => (count' > count => \A p \in TrayPrompts : slot'[p] # "none" => due[p] = "live")
<1> SUFFICES ASSUME TrayInv, [TrayNext]_trayVars, count' > count, NEW q \in TrayPrompts, slot'[q] # "none"
             PROVE  due[q] = "live"
  OBVIOUS
<1>1. count \in Nat
  BY DEF TrayInv, TrayTypes
<1>2. ~(UNCHANGED count) /\ count' # 0
  BY <1>1
<1>3. PICK p \in TrayPrompts : OnPrompt(p)
  BY <1>2 DEF TrayNext, StreamConnected, OnOverflowShown, OnOverflowResult, IntervalOver, PauseClicked, PauseAnswered,
              OnPauseDone, OverflowThread, DecidedElsewhere, trayVars, bubbleVars, overflowVars, answerVars, linkVars,
              Tick, OnDisconnect, OnPromptShown, OnPromptResult, AwaitAnswer, Signal, WaitRunsOut, CloseArrives, TimePasses
<1>4. slot' = Reclaimed
  BY <1>2, <1>3 DEF OnPrompt, overflowVars
<1>5. slot[q] # "none" /\ due[q] # "over"
  BY <1>4 DEF Reclaimed, Expired, Held
<1> QED
  BY <1>5 DEF TrayInv, TrayTypes, UnsentUntouched

\* An answer is sent only for a bubble that holds its slot.
LEMMA AnswersHoldSlots ==
  TrayInv /\ [TrayNext]_trayVars =>
    \A p \in TrayPrompts : (said'[p] # said[p] \/ (p \in stored' /\ p \notin stored)) => p \notin forgotten
<1> SUFFICES ASSUME TrayInv, [TrayNext]_trayVars, NEW q \in TrayPrompts,
                    said'[q] # said[q] \/ (q \in stored' /\ q \notin stored)
             PROVE  q \notin forgotten
  OBVIOUS
<1>1. ~(UNCHANGED <<said, stored>>)
  OBVIOUS
<1>2. PICK p \in TrayPrompts : OnPromptResult(p)
  BY <1>1 DEF TrayNext, StreamConnected, OnOverflowShown, OnOverflowResult, IntervalOver, PauseClicked, PauseAnswered,
              OnPauseDone, OverflowThread, DecidedElsewhere, trayVars, bubbleVars, overflowVars, answerVars, linkVars,
              Tick, OnDisconnect, OnPromptShown, OnPrompt, AwaitAnswer, Signal, WaitRunsOut, CloseArrives, TimePasses
<1>3. slot[p] # "none" /\ SubmitPromptVerdict(p, key[p])
  BY <1>1, <1>2 DEF OnPromptResult, answerVars
<1>4. stored' \subseteq stored \cup {p} /\ \A r \in TrayPrompts : r # p => said'[r] = said[r]
  BY <1>3 DEF SubmitPromptVerdict, TrayInv, TrayTypes
<1>5. q = p
  BY <1>4
<1> QED
  BY <1>3, <1>5 DEF TrayInv, ForgottenGone

\* Bubbles, slots and answers stay together (BubblesStandForPrompts), for any
\* number of prompts and slots: the slot of a prompt that was dropped with its
\* stream never comes back, and a bubble's id is on its way until its slot has it.
THEOREM BubblesStandForPromptsHolds == TrayInit /\ [][TrayNext]_trayVars => BubblesStandForPrompts
<1>1. TrayInv => AnnouncedRuleExists /\ ReclaimedIsClosed
  BY DEF TrayInv
<1> HIDE DEF TrayInv
<1> QED
  BY <1>1, TrayStarts, TrayKept, FoldedWhenFull, AnswersHoldSlots, PTL DEF BubblesStandForPrompts

-----------------------------------------------------------------------------
(* The desktop app *)

CallRecords == [id : Cards, from : {"button", "keys", "editor"},
                result : {"sent", "accepted", "late", "failed", "unsaved"}]

GuiTypes ==
  /\ clock \in Nat /\ now \in Nat /\ now <= clock /\ losses \in Nat
  /\ DOMAIN editor = {"open", "prompt"} /\ cards \in Seq(Cards) /\ calls \subseteq CallRecords
  /\ armedAt \in [Cards -> Nat] /\ placedAt \in [Cards -> Nat] /\ deadline \in [Cards -> Nat]

\* A card is disarmed until it has been in its place for the arming time.
PlacesKept ==
  \A p \in Range(cards) : armedAt[p] >= placedAt[p] + Arm /\ deadline[p] > 0

\* The daemon waits for no prompt past its deadline.
SettledInTime == \A p \in Cards : deadline[p] > 0 /\ deadline[p] <= clock => p \in settled

\* A verdict under way is its card's only one, and what it was answered is so.
CallsSound ==
  /\ OneVerdictUnderWay
  /\ \A c \in calls : /\ c.id \in submitting
                      /\ c.result \in {"accepted", "late", "unsaved"} => c.id \in settled

GuiInv == GuiTypes /\ PlacesKept /\ SettledInTime /\ CallsSound

LEMMA GuiStarts == GuiInit => GuiInv
<1> SUFFICES ASSUME GuiInit PROVE GuiInv
  OBVIOUS
<1>1. Range(<<>>) = {}
  BY DEF Range
<1>2. GuiTypes
  BY DEF GuiInit, GuiTypes, NoEditor
<1> QED
  BY <1>1, <1>2 DEF GuiInit, GuiInv, PlacesKept, SettledInTime, CallsSound, OneVerdictUnderWay

\* What the list of cards, their places and the clock are concerned with.
deskVars == <<clock, now, losses, cards, armedAt, placedAt, deadline>>

LEMMA DeskRests ==
  ASSUME GuiInv, UNCHANGED <<clock, cards, armedAt, placedAt, deadline>>, DOMAIN editor' = {"open", "prompt"},
         now' \in {now, clock}, losses' \in {losses, losses + 1}, settled \subseteq settled'
  PROVE  PlacesKept' /\ SettledInTime' /\ (calls' \subseteq CallRecords => GuiTypes')
<1>1. calls' \subseteq CallRecords => GuiTypes'
  BY DEF GuiInv, GuiTypes
<1>2. PlacesKept' /\ SettledInTime'
  BY DEF GuiInv, PlacesKept, SettledInTime
<1> QED
  BY <1>1, <1>2

\* retire_cards: what is kept stays armed for as long as it should.
LEMMA RetireKeeps ==
  ASSUME GuiInv, NEW keep, RetireCards(keep, clock), UNCHANGED <<clock, deadline>>
  PROVE  /\ cards' \in Seq(Cards) /\ Range(cards') = Range(cards) \cap keep
         /\ armedAt' \in [Cards -> Nat] /\ placedAt' \in [Cards -> Nat]
         /\ PlacesKept'
<1> USE DEF GuiInv
<1>1. /\ cards \in Seq(Cards) /\ clock \in Nat /\ Arm \in Nat
      /\ armedAt \in [Cards -> Nat] /\ placedAt \in [Cards -> Nat]
  BY GuiAssumption DEF GuiTypes
<1>2. cards' \in Seq(Cards) /\ Range(cards') = Range(cards) \cap keep
  BY <1>1, KeptIs DEF RetireCards
<1>3. /\ armedAt' \in [Cards -> Nat] /\ placedAt' \in [Cards -> Nat]
      /\ \A p \in Cards : armedAt'[p] = IF MovedUp(cards, keep, p) /\ armedAt[p] < clock + Arm THEN clock + Arm ELSE armedAt[p]
      /\ \A p \in Cards : placedAt'[p] = IF MovedUp(cards, keep, p) THEN clock ELSE placedAt[p]
  <2>1. clock + Arm \in Nat
    BY <1>1
  <2> QED
    BY <1>1, <2>1 DEF RetireCards, ArmedAfter
<1>4. ASSUME NEW p \in Range(cards') PROVE armedAt'[p] >= placedAt'[p] + Arm /\ deadline'[p] > 0
  <2>1. p \in Range(cards) /\ p \in Cards
    BY <1>1, <1>2, RangeOfSeq
  <2>2. armedAt[p] >= placedAt[p] + Arm /\ deadline[p] > 0
    BY <2>1 DEF PlacesKept
  <2>3. armedAt[p] \in Nat /\ placedAt[p] \in Nat
    BY <1>1, <2>1
  <2>4. CASE MovedUp(cards, keep, p)
    <3>1. placedAt'[p] = clock
      BY <1>3, <2>1, <2>4
    <3>2. armedAt'[p] >= clock + Arm
      <4>1. CASE armedAt[p] < clock + Arm
        BY <1>1, <1>3, <2>1, <2>4, <4>1
      <4>2. CASE ~(armedAt[p] < clock + Arm)
        BY <1>1, <1>3, <2>1, <2>3, <2>4, <4>2
      <4> QED
        BY <4>1, <4>2
    <3> QED
      BY <2>2, <3>1, <3>2
  <2>5. CASE ~MovedUp(cards, keep, p)
    <3>1. placedAt'[p] = placedAt[p] /\ armedAt'[p] = armedAt[p]
      BY <1>3, <2>1, <2>5
    <3> QED
      BY <2>2, <3>1
  <2> QED
    BY <2>4, <2>5
<1>5. PlacesKept'
  BY <1>4 DEF PlacesKept
<1> QED
  BY <1>2, <1>3, <1>5
\* A verdict is given for a card that has none under way.
LEMMA SubmitKeepsCalls ==
  ASSUME GuiInv, NEW p \in Range(cards), p \notin submitting, NEW from \in {"button", "keys", "editor"},
         submitting' = submitting \cup {p},
         calls' = calls \cup {[id |-> p, from |-> from, result |-> "sent"]}, UNCHANGED settled
  PROVE  CallsSound' /\ calls' \subseteq CallRecords
<1> DEFINE new == [id |-> p, from |-> from, result |-> "sent"]
<1>1. p \in Cards
  BY RangeOfSeq DEF GuiInv, GuiTypes
<1>2. new \in CallRecords /\ new.id = p /\ new.result = "sent"
  BY <1>1 DEF CallRecords
<1> HIDE DEF new
<1>3. calls' = calls \cup {new}
  BY DEF new
<1>4. calls' \subseteq CallRecords
  BY <1>2, <1>3 DEF GuiInv, GuiTypes
<1>5. \A c \in calls : c.id # p
  BY DEF GuiInv, CallsSound
<1>6. OneVerdictUnderWay'
  BY <1>2, <1>3, <1>5 DEF GuiInv, CallsSound, OneVerdictUnderWay
<1>7. ASSUME NEW c \in calls'
      PROVE  c.id \in submitting' /\ (c.result \in {"accepted", "late", "unsaved"} => c.id \in settled')
  <2>1. CASE c \in calls
    BY <2>1 DEF GuiInv, CallsSound
  <2>2. CASE c = new
    BY <1>2, <2>2
  <2> QED
    BY <1>3, <2>1, <2>2
<1> QED
  BY <1>4, <1>6, <1>7 DEF CallsSound

LEMMA SubmitKeeps ==
  ASSUME GuiInv, (\E p \in Cards : ButtonPressed(p)) \/ KeyPressed \/ SaveRule
  PROVE  GuiInv'
<1>1. UNCHANGED <<clock, cards, armedAt, placedAt, deadline, settled, losses>> /\ now' \in {now, clock}
  BY DEF ButtonPressed, KeyPressed, SaveRule
<1>0. DOMAIN editor' = {"open", "prompt"}
  BY DEF ButtonPressed, KeyPressed, SaveRule, Detach, GuiInv, GuiTypes
<1>2. \E p \in Range(cards), from \in {"button", "keys", "editor"} :
         /\ p \notin submitting /\ submitting' = submitting \cup {p}
         /\ calls' = calls \cup {[id |-> p, from |-> from, result |-> "sent"]}
  <2>1. CASE \E p \in Cards : ButtonPressed(p)
    BY <2>1 DEF ButtonPressed, SubmitVerdict
  <2>2. CASE KeyPressed
    BY <2>2 DEF KeyPressed, SubmitVerdict
  <2>3. CASE SaveRule
    <3> DEFINE p == Detach(editor, cards).prompt
    <3>1. /\ p # NoCard /\ p \notin submitting /\ submitting' = submitting \cup {p}
          /\ calls' = calls \cup {[id |-> p, from |-> "editor", result |-> "sent"]}
      BY <2>3 DEF SaveRule
    <3>2. p \in Range(cards)
      <4>1. CASE editor.prompt \in Range(cards)
        BY <4>1 DEF Detach
      <4>2. CASE editor.prompt \notin Range(cards)
        <5>1. p = [editor EXCEPT !.prompt = NoCard].prompt
          BY <4>2 DEF Detach
        <5> QED
          BY <3>1, <5>1 DEF GuiInv, GuiTypes
      <4> QED
        BY <4>1, <4>2
    <3> QED
      BY <3>1, <3>2
  <2> QED
    BY <2>1, <2>2, <2>3
<1>3. CallsSound' /\ calls' \subseteq CallRecords
  BY <1>1, <1>2, SubmitKeepsCalls
<1>4. losses' \in {losses, losses + 1} /\ settled \subseteq settled'
  BY <1>1
<1> QED
  BY <1>0, <1>1, <1>3, <1>4, DeskRests DEF GuiInv

\* The daemon's answer is recorded with the call it was given to.
LEMMA CallAnsweredKeeps ==
  ASSUME GuiInv, NEW c \in calls, CallAnswered(c)
  PROVE  GuiInv'
<1>1. UNCHANGED <<clock, now, cards, armedAt, placedAt, deadline, submitting, losses>>
  BY DEF CallAnswered
<1>0. DOMAIN editor' = {"open", "prompt"}
  BY DEF CallAnswered, GuiInv, GuiTypes
<1>2. PICK result \in {"accepted", "late", "failed", "unsaved"} :
         /\ (result = "late") = (c.id \in settled /\ result # "failed")
         /\ calls' = (calls \ {c}) \cup {[c EXCEPT !.result = result]}
         /\ \/ result \in {"accepted", "unsaved"} /\ settled' = settled \cup {c.id}
            \/ result = "late" /\ UNCHANGED settled
            \/ result = "failed" /\ settled' \in {settled, settled \cup {c.id}}
  BY DEF CallAnswered
<1> DEFINE new == [c EXCEPT !.result = result]
<1>3. c \in CallRecords
  BY DEF GuiInv, GuiTypes
<1>4. new \in CallRecords /\ new.id = c.id /\ new.result = result
  BY <1>3 DEF CallRecords
<1> HIDE DEF new
<1>5. calls' = (calls \ {c}) \cup {new}
  BY <1>2 DEF new
<1>6. settled \subseteq settled' /\ (result # "failed" => c.id \in settled')
  BY <1>2
<1>7. calls' \subseteq CallRecords
  BY <1>4, <1>5 DEF GuiInv, GuiTypes
<1>8. \A d \in calls : d.id = c.id => d = c
  BY DEF GuiInv, CallsSound, OneVerdictUnderWay
<1>9. OneVerdictUnderWay'
  BY <1>4, <1>5, <1>8 DEF GuiInv, CallsSound, OneVerdictUnderWay
<1>10. ASSUME NEW d \in calls'
      PROVE  d.id \in submitting' /\ (d.result \in {"accepted", "late", "unsaved"} => d.id \in settled')
  <2>1. CASE d \in calls
    BY <1>1, <1>6, <2>1 DEF GuiInv, CallsSound
  <2>2. CASE d = new
    BY <1>1, <1>4, <1>6, <2>2 DEF GuiInv, CallsSound
  <2> QED
    BY <1>5, <2>1, <2>2
<1>11. CallsSound'
  BY <1>9, <1>10 DEF CallsSound
<1>12. losses' \in {losses, losses + 1} /\ now' \in {now, clock}
  BY <1>1
<1> QED
  BY <1>0, <1>1, <1>6, <1>7, <1>11, <1>12, DeskRests DEF GuiInv

\* A card that arrives is disarmed, and its deadline is still to come.
LEMMA PromptEventKeeps ==
  ASSUME GuiInv, NEW p \in Cards, PromptEvent(p)
  PROVE  GuiInv'
<1> USE DEF GuiInv
<1>1. /\ cards \in Seq(Cards) /\ clock \in Nat /\ Arm \in Nat /\ CardLife \in Nat \ {0}
      /\ armedAt \in [Cards -> Nat] /\ placedAt \in [Cards -> Nat] /\ deadline \in [Cards -> Nat]
  BY GuiAssumption DEF GuiTypes
<1>2. /\ UNCHANGED <<clock, submitting, settled, calls, editor, losses>> /\ now' = clock
      /\ cards' = Append(cards, p)
      /\ deadline' = [deadline EXCEPT ![p] = clock + CardLife]
      /\ armedAt' = [armedAt EXCEPT ![p] = clock + Arm]
      /\ placedAt' = [placedAt EXCEPT ![p] = clock]
  BY DEF PromptEvent
<1>3. cards' \in Seq(Cards) /\ Range(cards') = Range(cards) \cup {p}
  BY <1>1, <1>2, AppendRange
<1>4. /\ armedAt' \in [Cards -> Nat] /\ placedAt' \in [Cards -> Nat] /\ deadline' \in [Cards -> Nat]
      /\ armedAt'[p] = clock + Arm /\ placedAt'[p] = clock /\ deadline'[p] = clock + CardLife
      /\ \A q \in Cards : q # p => armedAt'[q] = armedAt[q] /\ placedAt'[q] = placedAt[q] /\ deadline'[q] = deadline[q]
  <2>1. clock + Arm \in Nat /\ clock + CardLife \in Nat
    BY <1>1
  <2> QED
    BY <1>1, <1>2, <2>1
<1>5. GuiTypes'
  BY <1>1, <1>2, <1>3, <1>4 DEF GuiTypes
<1>6. ASSUME NEW q \in Range(cards') PROVE armedAt'[q] >= placedAt'[q] + Arm /\ deadline'[q] > 0
  <2>1. CASE q = p
    BY <1>1, <1>4, <2>1
  <2>2. CASE q # p
    <3>1. q \in Range(cards) /\ q \in Cards
      BY <1>1, <1>3, <2>2, RangeOfSeq
    <3> QED
      BY <1>4, <2>2, <3>1 DEF PlacesKept
  <2> QED
    BY <2>1, <2>2
<1>7. PlacesKept'
  BY <1>6 DEF PlacesKept
<1>8. SettledInTime'
  <2>1. ~(clock + CardLife <= clock)
    BY <1>1
  <2> QED
    BY <1>2, <1>4, <2>1 DEF SettledInTime
<1>9. CallsSound'
  BY <1>2 DEF CallsSound, OneVerdictUnderWay
<1> QED
  BY <1>5, <1>7, <1>8, <1>9

\* Cards past their deadline go: the daemon settled them.
LEMMA HousekeepingKeeps ==
  ASSUME GuiInv, Housekeeping
  PROVE  GuiInv' /\ \A p \in Range(cards) : p \notin Range(cards') => p \in settled
<1> DEFINE keep == {p \in Range(cards) : deadline[p] > clock}
<1>1. /\ RetireCards(keep, clock) /\ now' = clock /\ editor' = Detach(editor, cards')
      /\ UNCHANGED <<clock, submitting, deadline, settled, calls, losses>>
  BY DEF Housekeeping
<1>2. \A p \in Range(cards) : p \notin keep => p \in settled
  <2>1. ASSUME NEW p \in Range(cards), ~(deadline[p] > clock) PROVE p \in settled
    <3>1. p \in Cards /\ deadline[p] \in Nat /\ clock \in Nat
      BY RangeOfSeq DEF GuiInv, GuiTypes
    <3>2. deadline[p] > 0
      BY DEF GuiInv, PlacesKept
    <3> QED
      BY <2>1, <3>1, <3>2 DEF GuiInv, SettledInTime
  <2> QED
    BY <2>1
<1> HIDE DEF keep
<1>3. /\ cards' \in Seq(Cards) /\ Range(cards') = Range(cards) \cap keep
      /\ armedAt' \in [Cards -> Nat] /\ placedAt' \in [Cards -> Nat] /\ PlacesKept'
  BY <1>1, RetireKeeps
<1>4. GuiTypes'
  <2>1. DOMAIN editor' = {"open", "prompt"}
    BY <1>1 DEF Detach, GuiInv, GuiTypes
  <2> QED
    BY <1>1, <1>3, <2>1 DEF GuiInv, GuiTypes
<1>5. SettledInTime' /\ CallsSound'
  BY <1>1 DEF GuiInv, SettledInTime, CallsSound, OneVerdictUnderWay
<1> QED
  BY <1>2, <1>3, <1>4, <1>5 DEF GuiInv

\* The answer to a call takes its card away only if the daemon settled it.
LEMMA VerdictSubmittedKeeps ==
  ASSUME GuiInv, NEW c \in calls, VerdictSubmitted(c)
  PROVE  GuiInv' /\ \A p \in Range(cards) : p \notin Range(cards') => p \in settled
<1>1. /\ c.result # "sent" /\ calls' = calls \ {c} /\ now' = clock /\ submitting' = submitting \ {c.id}
      /\ UNCHANGED <<clock, deadline, settled, losses>>
  BY DEF VerdictSubmitted, SettleCard
<1>2. DOMAIN editor' = {"open", "prompt"}
  BY DEF VerdictSubmitted, Detach, NoEditor, GuiInv, GuiTypes
<1>3. CallsSound' /\ calls' \subseteq CallRecords
  BY <1>1 DEF GuiInv, GuiTypes, CallsSound, OneVerdictUnderWay
<1>4. SettledInTime'
  BY <1>1 DEF GuiInv, SettledInTime
<1>5. /\ cards' \in Seq(Cards) /\ armedAt' \in [Cards -> Nat] /\ placedAt' \in [Cards -> Nat] /\ PlacesKept'
      /\ \A p \in Range(cards) : p \notin Range(cards') => p \in settled
  <2>1. CASE c.result = "failed"
    <3>1. UNCHANGED <<cards, armedAt, placedAt>>
      BY <2>1 DEF VerdictSubmitted, SettleCard
    <3> QED
      BY <1>1, <3>1 DEF GuiInv, GuiTypes, PlacesKept
  <2>2. CASE c.result # "failed"
    <3> DEFINE keep == Range(cards) \ {c.id}
    <3>1. RetireCards(keep, clock)
      BY <2>2 DEF VerdictSubmitted, SettleCard
    <3>2. c.id \in settled
      BY <1>1, <2>2 DEF GuiInv, GuiTypes, CallRecords, CallsSound
    <3>3. /\ cards' \in Seq(Cards) /\ Range(cards') = Range(cards) \cap keep
          /\ armedAt' \in [Cards -> Nat] /\ placedAt' \in [Cards -> Nat] /\ PlacesKept'
      <4> HIDE DEF keep
      <4> QED
        BY <1>1, <3>1, RetireKeeps
    <3> QED
      BY <3>2, <3>3
  <2> QED
    BY <2>1, <2>2
<1>6. GuiTypes'
  BY <1>1, <1>2, <1>3, <1>5 DEF GuiInv, GuiTypes
<1> QED
  BY <1>3, <1>4, <1>5, <1>6 DEF GuiInv

\* The rest: the stream and the connection, the editor, the tabs, the clock.
GuiSurroundings ==
  \/ PromptStreamEnded \/ ConnectionLost \/ Reconnected \/ OpenEditor \/ CloseEditor \/ TabSelected \/ RuleSaved
  \/ ClockAdvances \/ (\E p \in Cards : Customize(p) \/ DaemonSettles(p)) \/ UNCHANGED guiVars

LEMMA GuiSurroundingsKeep ==
  ASSUME GuiInv, GuiSurroundings
  PROVE  GuiInv' /\ (cards' = cards \/ losses' # losses)
<1>1. CASE PromptStreamEnded
  <2>1. /\ cards' = <<>> /\ losses' = losses + 1 /\ editor' = Detach(editor, <<>>)
        /\ UNCHANGED <<clock, now, armedAt, placedAt, submitting, deadline, settled, calls>>
    BY <1>1 DEF PromptStreamEnded
  <2>2. Range(cards') = {}
    BY <2>1 DEF Range
  <2>3. GuiTypes'
    BY <2>1 DEF GuiInv, GuiTypes, Detach
  <2>4. PlacesKept' /\ SettledInTime' /\ CallsSound'
    BY <2>1, <2>2 DEF GuiInv, PlacesKept, SettledInTime, CallsSound, OneVerdictUnderWay
  <2>5. losses' # losses
    BY <2>1 DEF GuiInv, GuiTypes
  <2> QED
    BY <2>3, <2>4, <2>5 DEF GuiInv
<1>2. CASE ClockAdvances
  <2>1. /\ clock' = clock + 1 /\ settled' = settled \cup {p \in Cards : deadline[p] > 0 /\ deadline[p] <= clock'}
        /\ UNCHANGED <<now, cards, armedAt, placedAt, submitting, deadline, calls, editor, losses>>
    BY <1>2 DEF ClockAdvances
  <2>2. GuiTypes' /\ PlacesKept' /\ SettledInTime'
    BY <2>1 DEF GuiInv, GuiTypes, PlacesKept, SettledInTime
  <2>3. CallsSound'
    BY <2>1 DEF GuiInv, CallsSound, OneVerdictUnderWay
  <2> QED
    BY <2>1, <2>2, <2>3 DEF GuiInv
<1>3. CASE \/ ConnectionLost \/ Reconnected \/ OpenEditor \/ CloseEditor \/ TabSelected \/ RuleSaved
           \/ (\E p \in Cards : Customize(p) \/ DaemonSettles(p)) \/ UNCHANGED guiVars
  <2>1. /\ UNCHANGED <<clock, cards, armedAt, placedAt, deadline, calls, submitting>>
        /\ now' \in {now, clock} /\ losses' \in {losses, losses + 1} /\ settled \subseteq settled'
    BY <1>3 DEF ConnectionLost, Reconnected, OpenEditor, CloseEditor, TabSelected, RuleSaved, Customize, DaemonSettles,
                guiVars
  <2>2. DOMAIN editor' = {"open", "prompt"}
    BY <1>3 DEF ConnectionLost, Reconnected, OpenEditor, CloseEditor, TabSelected, RuleSaved, Customize, DaemonSettles,
                guiVars, NoEditor, Detach, GuiInv, GuiTypes
  <2>3. calls' \subseteq CallRecords
    BY <2>1 DEF GuiInv, GuiTypes
  <2>4. PlacesKept' /\ SettledInTime' /\ GuiTypes'
    BY <2>1, <2>2, <2>3, DeskRests
  <2>5. CallsSound'
    BY <2>1 DEF GuiInv, CallsSound, OneVerdictUnderWay
  <2> QED
    BY <2>1, <2>4, <2>5 DEF GuiInv
<1> QED
  BY <1>1, <1>2, <1>3 DEF GuiSurroundings

LEMMA GuiKept ==
  GuiInv /\ [GuiNext]_guiVars =>
    GuiInv' /\ \A p \in Range(cards) : p \notin Range(cards') => p \in settled \/ losses' # losses
<1> SUFFICES ASSUME GuiInv, [GuiNext]_guiVars
             PROVE  GuiInv' /\ \A p \in Range(cards) : p \notin Range(cards') => p \in settled \/ losses' # losses
  OBVIOUS
<1>1. CASE Housekeeping
  BY <1>1, HousekeepingKeeps
<1>2. ASSUME NEW c \in calls, VerdictSubmitted(c)
      PROVE  GuiInv' /\ \A p \in Range(cards) : p \notin Range(cards') => p \in settled \/ losses' # losses
  BY <1>2, VerdictSubmittedKeeps
<1>3. ASSUME NEW c \in calls, CallAnswered(c)
      PROVE  GuiInv' /\ cards' = cards
  <2>1. cards' = cards
    BY <1>3 DEF CallAnswered
  <2> QED
    BY <1>3, <2>1, CallAnsweredKeeps
<1>4. ASSUME NEW p \in Cards, PromptEvent(p)
      PROVE  GuiInv' /\ Range(cards) \subseteq Range(cards')
  <2>1. cards \in Seq(Cards) /\ cards' = Append(cards, p)
    BY <1>4 DEF PromptEvent, GuiInv, GuiTypes
  <2>2. Range(cards) \subseteq Range(cards')
    BY <2>1, AppendRange
  <2> QED
    BY <1>4, <2>2, PromptEventKeeps
<1>5. CASE (\E p \in Cards : ButtonPressed(p)) \/ KeyPressed \/ SaveRule
  <2>1. cards' = cards
    BY <1>5 DEF ButtonPressed, KeyPressed, SaveRule
  <2> QED
    BY <1>5, <2>1, SubmitKeeps
<1>6. CASE GuiSurroundings
  BY <1>6, GuiSurroundingsKeep
<1>7. \/ Housekeeping \/ (\E c \in calls : VerdictSubmitted(c)) \/ (\E c \in calls : CallAnswered(c))
      \/ (\E p \in Cards : PromptEvent(p)) \/ (\E p \in Cards : ButtonPressed(p)) \/ KeyPressed \/ SaveRule
      \/ GuiSurroundings
  BY DEF GuiNext, GuiSurroundings
<1> QED
  BY <1>1, <1>2, <1>3, <1>4, <1>5, <1>6, <1>7

\* The app answers no prompt by accident and loses none before it counts
\* (CardKeptUntilSettled), for any prompts, arming time and deadline: a card is
\* disarmed from the moment it took its place, and what takes it away is an
\* answer the daemon gave or a deadline the daemon keeps too.
THEOREM CardKeptUntilSettledHolds == GuiInit /\ [][GuiNext]_guiVars => CardKeptUntilSettled
<1>1. GuiInv => ButtonsHoldStill /\ OneVerdictUnderWay
  <2> SUFFICES ASSUME GuiInv PROVE ButtonsHoldStill
    BY DEF GuiInv, CallsSound
  <2>1. ASSUME NEW p \in Range(cards), Armed(p, now) PROVE clock >= placedAt[p] + Arm
    <3>1. p \in Cards /\ armedAt[p] \in Nat /\ placedAt[p] \in Nat /\ now \in Nat /\ clock \in Nat /\ now <= clock
      BY RangeOfSeq DEF GuiInv, GuiTypes
    <3>2. now >= armedAt[p] /\ armedAt[p] >= placedAt[p] + Arm
      BY <2>1 DEF Armed, GuiInv, PlacesKept
    <3>3. Arm \in Nat
      BY GuiAssumption
    <3> QED
      BY <3>1, <3>2, <3>3
  <2> QED
    BY <2>1 DEF ButtonsHoldStill
<1> HIDE DEF GuiInv
<1> QED
  BY <1>1, GuiStarts, GuiKept, PTL DEF CardKeptUntilSettled

-----------------------------------------------------------------------------
(* The tools that write rules *)

BundleIds == {e.id : e \in Bundled}
AllIds == RuleIds \cup BundleIds

IsRule(r) ==
  /\ DOMAIN r = {"id", "on", "action", "dur", "secs", "scope", "created"}
  /\ r.secs \in Nat /\ r.created \in Nat

\* A stored rule against what its author asked for.
RuleSays(r, w) ==
  /\ w.end # Never => EndOf(r) # Never /\ EndOf(r) <= w.end
  /\ r.scope = w.scope
  /\ w.flow # NoFlow => Matches(r.scope, w.flow)

RulesRight ==
  /\ DOMAIN wanted = DOMAIN rules /\ DOMAIN rules \subseteq AllIds
  /\ \A i \in DOMAIN rules :
       IsRule(rules[i]) /\ rules[i].id = i /\ rules[i].created \in 1..hour /\ RuleSays(rules[i], wanted[i])

ListedRight ==
  /\ DOMAIN cmd = {"kind", "listed", "todo"}
  /\ cmd.kind = "none" => cmd.listed = Nothing
  /\ cmd.kind = "toggle" => cmd.todo \subseteq DOMAIN cmd.listed
  /\ cmd.kind \in {"bundle_add", "bundle_remove"} => cmd.todo \subseteq Bundled
  /\ DOMAIN cmd.listed \subseteq AllIds
  /\ \A i \in DOMAIN cmd.listed :
       IsRule(cmd.listed[i]) /\ cmd.listed[i].id = i /\ cmd.listed[i].created \in 1..hour

BackupRight ==
  /\ DOMAIN saved = DOMAIN backup /\ DOMAIN backup \subseteq AllIds
  /\ \A i \in DOMAIN backup :
       LET x == backup[i]
       IN /\ IsRule(x.rule) /\ x.rule.id = i /\ x.ends \in Nat
          /\ x.ends # Never <=> x.rule.dur = "seconds"
          /\ x.ends # Never => x.ends - x.rule.secs \in 1..hour
          /\ saved[i].end # Never => x.ends # Never /\ x.ends <= saved[i].end
          /\ x.rule.scope = saved[i].scope
          /\ saved[i].flow # NoFlow => Matches(x.rule.scope, saved[i].flow)

\* What the form shows is what it was opened on, with what was typed.
FormRight ==
  /\ DOMAIN form = {"open", "id", "fields", "carried", "action", "dur", "secs", "created", "on", "pinned", "typed", "flow"}
  /\ DOMAIN form.fields = Predicates /\ DOMAIN form.typed = Predicates
  /\ form.secs \in Nat /\ form.created \in Nat
  /\ form.id \in AllIds \cup {"none"}
  /\ form.id = "none" => form.dur # "seconds"
  /\ form.id # "none" => form.created \in 1..hour
  /\ \A p \in Predicates : form.typed[p] # "untouched" => p \in Shown /\ form.fields[p] = form.typed[p]
  /\ \A p \in Shown : form.typed[p] = "untouched" /\ form.id # "none" => form.fields[p] = form.carried[p]
  /\ form.typed = Untouched /\ form.flow # NoFlow => Matches(BuiltScope(form), form.flow)

\* No copy of the rule of this id is timed.
Untimed(i) ==
  /\ i \in DOMAIN rules => rules[i].dur # "seconds"
  /\ i \in DOMAIN cmd.listed => cmd.listed[i].dur # "seconds"
  /\ form.id = i => form.dur # "seconds"
  /\ i \in DOMAIN backup => backup[i].ends = Never
\* Every copy of the rule of this id says, or lets it be computed, that the
\* rule was created at c.
BornAt(i, c) ==
  /\ i \in DOMAIN rules => rules[i].created = c
  /\ i \in DOMAIN cmd.listed => cmd.listed[i].created = c
  /\ form.id = i => form.created = c
  /\ i \in DOMAIN backup => backup[i].ends # Never /\ backup[i].ends - backup[i].rule.secs = c

\* Copies of a timed rule never disagree on when it was created, so none can
\* bring it back with a later end.
OneBirth ==
  /\ \A i \in BundleIds : Untimed(i)
  /\ \A i \in RuleIds : Untimed(i) \/ \E c \in 1..hour : BornAt(i, c)

\* A rule that is no longer timed was made so by the one form that had it, or
\* by a copy taken after that: no older copy is left in a form or a listing.
OldCopiesGone ==
  /\ \A i \in DOMAIN rules : form.id = i /\ form.dur = "seconds" => rules[i].dur = "seconds"
  /\ cmd.kind = "toggle" =>
       \A i \in cmd.todo : cmd.listed[i].dur # "seconds" =>
         /\ form.id = i => form.dur # "seconds"
         /\ i \in DOMAIN rules => rules[i].dur # "seconds"

ToolsInv ==
  /\ hour \in Nat \ {0} /\ RulesRight /\ ListedRight /\ BackupRight /\ FormRight /\ OneBirth /\ OldCopiesGone

\* What an accepted write does to the rules and to what their authors asked for.
LEMMA UpsertDoes ==
  ASSUME NEW r, NEW w, Upsert(r, w), r.id \in AllIds, IsRule(r), DOMAIN wanted = DOMAIN rules
  PROVE  \/ UNCHANGED <<rules, wanted>>
         \/ /\ DOMAIN rules' = DOMAIN rules \cup {r.id} /\ DOMAIN wanted' = DOMAIN rules'
            /\ rules'[r.id] = Stamped(r) /\ wanted'[r.id] = w
            /\ \A j \in DOMAIN rules \ {r.id} : rules'[j] = rules[j] /\ wanted'[j] = wanted[j]
  BY DEF Upsert, With

\* The daemon changes nothing of a rule but its creation time.
LEMMA StampedIs ==
  ASSUME NEW r, IsRule(r), RulesRight, hour \in Nat \ {0}
  PROVE  /\ IsRule(Stamped(r))
         /\ Stamped(r).id = r.id /\ Stamped(r).dur = r.dur /\ Stamped(r).secs = r.secs /\ Stamped(r).scope = r.scope
         /\ Stamped(r).created \in 1..hour
         /\ r.id \in DOMAIN rules => Stamped(r).created = rules[r.id].created
         /\ r.id \notin DOMAIN rules /\ r.created \in 1..hour => Stamped(r).created = r.created
  BY DEF Stamped, IsRule, RulesRight

LEMMA RuleOfIs ==
  ASSUME NEW id, NEW on, NEW action, NEW dur, NEW secs \in Nat, NEW scope, NEW created \in Nat,
         NEW r, r = RuleOf(id, on, action, dur, secs, scope, created)
  PROVE  IsRule(r) /\ r.id = id /\ r.dur = dur /\ r.secs = secs /\ r.scope = scope /\ r.created = created
  BY DEF RuleOf, IsRule

LEMMA FreshIs ==
  ASSUME Unused # {}, ToolsInv
  PROVE  /\ Fresh \in RuleIds /\ Fresh \in AllIds /\ Fresh # "none"
         /\ Fresh \notin DOMAIN rules /\ Fresh \notin DOMAIN backup
         /\ Fresh \notin DOMAIN cmd.listed /\ Fresh # form.id
<1>1. Fresh \in Unused
  BY DEF Fresh
<1> QED
  BY <1>1, ToolsAssumption DEF Unused, AllIds

\* A write whose author's wish it meets leaves the rules right.
LEMMA UpsertSays ==
  ASSUME ToolsInv, NEW r, NEW w, Upsert(r, w), r.id \in AllIds, IsRule(r), hour' = hour,
         RuleSays(Stamped(r), w)
  PROVE  RulesRight'
<1>0. RulesRight /\ hour \in Nat \ {0}
  BY DEF ToolsInv
<1>1. DOMAIN wanted = DOMAIN rules
  BY <1>0 DEF RulesRight
<1>2. CASE UNCHANGED <<rules, wanted>>
  BY <1>0, <1>2 DEF RulesRight, RuleSays, EndOf, Matches
<1>3. CASE /\ DOMAIN rules' = DOMAIN rules \cup {r.id} /\ DOMAIN wanted' = DOMAIN rules'
           /\ rules'[r.id] = Stamped(r) /\ wanted'[r.id] = w
           /\ \A j \in DOMAIN rules \ {r.id} : rules'[j] = rules[j] /\ wanted'[j] = wanted[j]
  <2>1. DOMAIN wanted' = DOMAIN rules' /\ DOMAIN rules' \subseteq AllIds
    BY <1>0, <1>3 DEF RulesRight
  <2>2. ASSUME NEW i \in DOMAIN rules'
        PROVE  IsRule(rules'[i]) /\ rules'[i].id = i /\ rules'[i].created \in 1..hour
               /\ RuleSays(rules'[i], wanted'[i])
    <3>1. CASE i = r.id
      BY <1>0, <1>3, <3>1, StampedIs
    <3>2. CASE i # r.id
      BY <1>0, <1>3, <3>2 DEF RulesRight
    <3> QED
      BY <3>1, <3>2
  <2> QED
    BY <2>1, <2>2 DEF RulesRight, IsRule, RuleSays, EndOf, Matches
<1> QED
  BY <1>1, <1>2, <1>3, UpsertDoes

\* Nobody but the stored rules knows this id.
Forgotten(i) ==
  i \notin DOMAIN rules /\ i \notin DOMAIN cmd.listed /\ i # form.id /\ i \notin DOMAIN backup

LEMMA UpsertBirth ==
  ASSUME ToolsInv, NEW r, NEW w, Upsert(r, w), r.id \in AllIds, IsRule(r),
         hour' = hour, backup' = backup,
         form' \in {form, NoForm}, cmd'.listed \in {cmd.listed, Nothing},
         r.id \in BundleIds => r.dur # "seconds",
         r.id \in RuleIds =>
           \/ Forgotten(r.id)
           \/ /\ r.dur = "seconds" => ~Untimed(r.id)
              /\ \A c \in 1..hour : BornAt(r.id, c) /\ r.id \notin DOMAIN rules => r.created = c
  PROVE  OneBirth'
<1>0. OneBirth /\ RulesRight /\ hour \in Nat \ {0} /\ "none" \notin RuleIds /\ "none" \notin BundleIds
      /\ BundleIds \cap RuleIds = {} /\ DOMAIN wanted = DOMAIN rules
  BY ToolsAssumption DEF ToolsInv, BundleIds, RulesRight
<1>1. NoForm.id = "none" /\ DOMAIN Nothing = {}
  BY DEF NoForm, Nothing
<1>2. /\ \A i \in AllIds : form'.id = i => form'.id = form.id /\ form'.dur = form.dur /\ form'.created = form.created
      /\ \A i \in DOMAIN (cmd'.listed) : i \in DOMAIN cmd.listed /\ cmd'.listed[i] = cmd.listed[i]
  BY <1>0, <1>1 DEF AllIds
<1>w. \/ UNCHANGED <<rules, wanted>>
      \/ /\ DOMAIN rules' = DOMAIN rules \cup {r.id} /\ DOMAIN wanted' = DOMAIN rules'
         /\ rules'[r.id] = Stamped(r) /\ wanted'[r.id] = w
         /\ \A j \in DOMAIN rules \ {r.id} : rules'[j] = rules[j] /\ wanted'[j] = wanted[j]
  BY <1>0, UpsertDoes
<1>3. ASSUME NEW i \in AllIds, i # r.id
      PROVE  /\ i \in DOMAIN rules' => i \in DOMAIN rules /\ rules'[i] = rules[i]
             /\ Untimed(i) => Untimed(i)'
             /\ \A c \in 1..hour : BornAt(i, c) => BornAt(i, c)'
  <2>1. i \in DOMAIN rules' => i \in DOMAIN rules /\ rules'[i] = rules[i]
    BY <1>w, <1>3
  <2> QED
    BY <1>2, <1>3, <2>1 DEF Untimed, BornAt
<1>4. \/ r.id \in DOMAIN rules /\ r.id \in DOMAIN rules' /\ rules'[r.id] = rules[r.id]
      \/ r.id \notin DOMAIN rules /\ r.id \notin DOMAIN rules'
      \/ r.id \in DOMAIN rules' /\ rules'[r.id] = Stamped(r)
  BY <1>w
<1>5. CASE r.id \in BundleIds
  <2>1. Untimed(r.id) /\ r.dur # "seconds"
    BY <1>0, <1>5 DEF OneBirth
  <2>2. Untimed(r.id)'
    BY <1>0, <1>2, <1>4, <2>1, StampedIs DEF Untimed
  <2> QED
    BY <1>0, <1>3, <1>5, <2>2 DEF OneBirth, AllIds
<1>6. CASE r.id \in RuleIds
  <2>1. Untimed(r.id)' \/ \E c \in 1..hour : BornAt(r.id, c)'
    <3>1. CASE Forgotten(r.id)
      <4>1. CASE r.id \in DOMAIN rules'
        <5>1. rules'[r.id] = Stamped(r)
          BY <1>4, <3>1, <4>1 DEF Forgotten
        <5>2. PICK c \in 1..hour : c = Stamped(r).created
          BY <1>0, StampedIs
        <5>3. BornAt(r.id, c)'
          BY <1>2, <3>1, <5>1, <5>2 DEF Forgotten, BornAt
        <5> QED
          BY <5>3
      <4>2. CASE r.id \notin DOMAIN rules'
        BY <1>2, <3>1, <4>2 DEF Forgotten, Untimed
      <4> QED
        BY <4>1, <4>2
    <3>2. CASE ~Forgotten(r.id)
      <4>1. CASE Untimed(r.id)
        <5>1. r.dur # "seconds"
          BY <1>6, <3>2, <4>1
        <5> QED
          BY <1>0, <1>2, <1>4, <4>1, <5>1, StampedIs DEF Untimed
      <4>2. CASE ~Untimed(r.id)
        <5>1. PICK c \in 1..hour : BornAt(r.id, c)
          BY <1>0, <1>6, <4>2 DEF OneBirth
        <5>2. r.id \notin DOMAIN rules => r.created = c
          BY <1>6, <3>2, <5>1
        <5>3. r.id \in DOMAIN rules' => rules'[r.id].created = c
          BY <1>0, <1>4, <5>1, <5>2, StampedIs DEF BornAt
        <5>4. BornAt(r.id, c)'
          BY <1>2, <5>1, <5>3 DEF BornAt
        <5> QED
          BY <5>4
      <4> QED
        BY <4>1, <4>2
    <3> QED
      BY <3>1, <3>2
  <2>2. \A i \in BundleIds : Untimed(i)'
    BY <1>0, <1>3, <1>6 DEF OneBirth, AllIds
  <2>3. \A i \in RuleIds : Untimed(i)' \/ \E c \in 1..hour : BornAt(i, c)'
    BY <1>0, <1>3, <2>1 DEF OneBirth, AllIds
  <2> QED
    BY <2>2, <2>3 DEF OneBirth
<1> QED
  BY <1>5, <1>6 DEF AllIds

\* The parts of the invariant that read only what a step leaves alone.
LEMMA ListedKept ==
  ASSUME ListedRight, hour \in Nat, hour' \in {hour, hour + 1}, cmd' \in {cmd, NoCommand} PROVE ListedRight'
<1>1. CASE cmd' = cmd
  BY <1>1 DEF ListedRight, IsRule
<1>2. CASE cmd' = NoCommand
  <2>1. NoCommand.kind = "none" /\ NoCommand.listed = Nothing /\ DOMAIN Nothing = {}
        /\ DOMAIN NoCommand = {"kind", "listed", "todo"}
    BY DEF NoCommand, Nothing
  <2> QED
    BY <1>2, <2>1 DEF ListedRight
<1> QED
  BY <1>1, <1>2

LEMMA BackupKept ==
  ASSUME BackupRight, hour \in Nat, hour' \in {hour, hour + 1}, backup' = backup, saved' = saved PROVE BackupRight'
  BY DEF BackupRight, IsRule, Matches

LEMMA NoFormRight ==
  /\ DOMAIN NoForm = {"open", "id", "fields", "carried", "action", "dur", "secs", "created", "on", "pinned", "typed", "flow"}
  /\ DOMAIN NoForm.fields = Predicates /\ DOMAIN NoForm.typed = Predicates /\ NoForm.typed = Untouched
  /\ NoForm.carried = Blank /\ NoForm.fields = Blank
  /\ NoForm.secs = 0 /\ NoForm.created = 0 /\ NoForm.id = "none" /\ NoForm.dur = "always" /\ NoForm.flow = NoFlow
  /\ \A p \in Predicates : Untouched[p] = "untouched" /\ Blank[p] = "none"
  BY DEF NoForm, Blank, Untouched

LEMMA FormKept ==
  ASSUME FormRight, hour \in Nat, hour' \in {hour, hour + 1}, form' \in {form, NoForm} PROVE FormRight'
<1>1. CASE form' = form
  BY <1>1 DEF FormRight, Matches, BuiltScope
<1>2. CASE form' = NoForm
  BY <1>2, NoFormRight DEF FormRight
<1> QED
  BY <1>1, <1>2

\* The write of a rule under an id nobody knows.
LEMMA NewRuleKept ==
  ASSUME ToolsInv, Unused # {}, NEW r, NEW w, Upsert(r, w), IsRule(r), r.id = Fresh, RuleSays(Stamped(r), w),
         form' \in {form, NoForm}, UNCHANGED <<hour, backup, saved, cmd>>
  PROVE  ToolsInv'
<1>0. RulesRight /\ ListedRight /\ BackupRight /\ FormRight /\ OneBirth /\ OldCopiesGone /\ hour \in Nat \ {0}
  BY DEF ToolsInv
<1>1. Fresh \in RuleIds /\ Fresh \in AllIds /\ Fresh # "none" /\ Forgotten(Fresh)
  BY FreshIs DEF Forgotten
<1>2. RulesRight'
  BY <1>1, UpsertSays
<1>3. ListedRight' /\ BackupRight' /\ FormRight'
  BY <1>0, ListedKept, BackupKept, FormKept
<1>4. r.id \notin BundleIds
  BY <1>1, ToolsAssumption DEF BundleIds
<1>5. OneBirth'
  BY <1>1, <1>4, UpsertBirth
<1>6. \A j \in AllIds \ {Fresh} : j \in DOMAIN rules' => j \in DOMAIN rules /\ rules'[j] = rules[j]
  BY <1>0, <1>1, UpsertDoes DEF RulesRight
<1>7. OldCopiesGone'
  <2>1. NoForm.id # Fresh /\ NoForm.dur # "seconds"
    BY <1>1, NoFormRight
  <2>2. form'.id # Fresh /\ (form'.dur = "seconds" => form' = form)
    BY <1>1, <2>1 DEF Forgotten
  <2>3. DOMAIN rules' \subseteq AllIds
    BY <1>2 DEF RulesRight
  <2>4. \A i \in DOMAIN rules' : form'.id = i /\ form'.dur = "seconds" => rules'[i].dur = "seconds"
    BY <1>0, <1>6, <2>2, <2>3 DEF OldCopiesGone
  <2>5. ASSUME cmd'.kind = "toggle", NEW i \in cmd'.todo, cmd'.listed[i].dur # "seconds"
        PROVE  (form'.id = i => form'.dur # "seconds") /\ (i \in DOMAIN rules' => rules'[i].dur # "seconds")
    <3>1. cmd.kind = "toggle" /\ i \in cmd.todo /\ cmd.listed[i].dur # "seconds" /\ i \in DOMAIN cmd.listed
      BY <1>0, <2>5 DEF ListedRight
    <3>2. i # Fresh /\ i \in AllIds
      BY <1>0, <1>1, <3>1 DEF Forgotten, ListedRight
    <3> QED
      BY <1>0, <1>6, <2>2, <3>1, <3>2 DEF OldCopiesGone
  <2> QED
    BY <2>4, <2>5 DEF OldCopiesGone
<1> QED
  BY <1>0, <1>2, <1>3, <1>5, <1>7 DEF ToolsInv

LEMMA AddKept == ASSUME ToolsInv, NEW f \in Flags, Add(f) PROVE ToolsInv'
<1> DEFINE r == RuleOf(Fresh, TRUE, f.action, f.dur, 0, f.scope, 0)
           w == Want(f.scope, Never, NoFlow)
<1>1. IsRule(r) /\ r.id = Fresh /\ r.scope = f.scope
  BY DEF RuleOf, IsRule
<1>2. RulesRight /\ hour \in Nat \ {0}
  BY DEF ToolsInv
<1>3. Stamped(r).scope = f.scope
  BY <1>1, <1>2, StampedIs
<1>4. w.scope = f.scope /\ w.end = Never /\ w.flow = NoFlow
  BY DEF Want
<1>5. RuleSays(Stamped(r), w)
  BY <1>3, <1>4 DEF RuleSays
<1>6. Upsert(r, w) /\ Unused # {} /\ UNCHANGED <<hour, backup, saved, cmd, form>>
  BY DEF Add
<1> HIDE DEF r, w
<1> QED
  BY <1>1, <1>5, <1>6, NewRuleKept

\* A timed rule ends TimedFor after the answer: its id is new, so the daemon
\* stamps it with the hour.
LEMMA AnswerTimedKept == ASSUME ToolsInv, NEW f \in Flags, AnswerTimed(f) PROVE ToolsInv'
<1> DEFINE r == RuleOf(Fresh, TRUE, f.action, "seconds", TimedFor, f.scope, 0)
           w == Want(f.scope, hour + TimedFor, NoFlow)
<1>0. Upsert(r, w) /\ Unused # {} /\ UNCHANGED <<hour, backup, saved, cmd, form>>
  BY DEF AnswerTimed
<1>1. IsRule(r) /\ r.id = Fresh /\ r.scope = f.scope /\ r.dur = "seconds" /\ r.secs = TimedFor /\ r.created = 0
  BY ToolsAssumption DEF RuleOf, IsRule
<1>2. RulesRight /\ hour \in Nat \ {0}
  BY DEF ToolsInv
<1>3. Stamped(r).scope = f.scope /\ Stamped(r).dur = "seconds" /\ Stamped(r).secs = TimedFor
      /\ Stamped(r).created \in 1..hour
  BY <1>1, <1>2, StampedIs
<1>4. w.scope = f.scope /\ w.end = hour + TimedFor /\ w.flow = NoFlow
  BY DEF Want
<1> HIDE DEF r, w
<1>5. RuleSays(Stamped(r), w)
  BY <1>2, <1>3, <1>4, ToolsAssumption DEF RuleSays, EndOf, Never
<1> QED
  BY <1>0, <1>1, <1>5, NewRuleKept

\* An operand that names one value says what the file means by it.
LEMMA OpensnitchMeans ==
  ASSUME NEW f \in OsnFiles, Convertible(f.ops) PROVE ConvertOpensnitch(f.ops) = OsnMeans(f.ops)
<1> DEFINE ops == f.ops
<1>1. ops \in Seq([operand : STRING, data : STRING, regexp : BOOLEAN])
  BY ToolsAssumption
<1> HIDE DEF ops
<1>2. \A i \in DOMAIN ops : ~ops[i].regexp /\ ~(\A q \in DOMAIN Operands : ops[i].operand # Operands[q])
  BY DEF Convertible, ops
<1>3. ASSUME NEW p \in DOMAIN Operands, Named(ops, p) # {}
      PROVE  Cardinality(Named(ops, p)) = 1
  <2> DEFINE I == {j \in DOMAIN ops : ops[j].operand = Operands[p]}
  <2>1. IsFiniteSet(I)
    <3>1. IsFiniteSet(1..Len(ops)) /\ DOMAIN ops = 1..Len(ops)
      BY <1>1, FS_Interval
    <3> QED
      BY <3>1, FS_Subset
  <2>2. Named(ops, p) = {ops[i].data : i \in I}
    BY DEF Named
  <2> HIDE DEF I
  <2> DEFINE g == [i \in I |-> ops[i].data]
  <2>3. g \in Surjection(I, Named(ops, p))
    BY <2>2 DEF Surjection
  <2>4. IsFiniteSet(Named(ops, p))
    BY <2>1, <2>3, FS_Surjection
  <2>5. Cardinality(Named(ops, p)) \in Nat /\ Cardinality(Named(ops, p)) # 0
    BY <1>3, <2>4, FS_CardinalityType, FS_EmptySet
  <2>6. Cardinality(Named(ops, p)) <= 1
    BY DEF Convertible, ops
  <2> QED
    BY <2>5, <2>6
<1>4. ASSUME NEW p \in Predicates PROVE ConvertOpensnitch(ops)[p] = OsnMeans(ops)[p]
  BY <1>2, <1>3 DEF ConvertOpensnitch, OsnMeans
<1>5. ConvertOpensnitch(ops) = [p \in Predicates |-> ConvertOpensnitch(ops)[p]]
  BY DEF ConvertOpensnitch
<1>6. OsnMeans(ops) = [p \in Predicates |-> OsnMeans(ops)[p]]
  BY DEF OsnMeans
<1> QED
  BY <1>4, <1>5, <1>6 DEF ops

LEMMA ImportOpensnitchKept == ASSUME ToolsInv, NEW f \in OsnFiles, ImportOpensnitch(f) PROVE ToolsInv'
<1> DEFINE scope == ConvertOpensnitch(f.ops)
           r == RuleOf(Fresh, TRUE, f.action, f.dur, 0, scope, 0)
           w == Want(OsnMeans(f.ops), Never, NoFlow)
<1>0. Convertible(f.ops) /\ Unused # {} /\ Upsert(r, w) /\ UNCHANGED <<hour, backup, saved, cmd, form>>
  BY DEF ImportOpensnitch
<1>1. IsRule(r) /\ r.id = Fresh /\ r.scope = scope
  BY DEF RuleOf, IsRule
<1>2. RulesRight /\ hour \in Nat \ {0}
  BY DEF ToolsInv
<1>3. Stamped(r).scope = scope
  BY <1>1, <1>2, StampedIs
<1>4. w.scope = scope /\ w.end = Never /\ w.flow = NoFlow
  BY <1>0, OpensnitchMeans DEF Want
<1>5. RuleSays(Stamped(r), w)
  BY <1>3, <1>4 DEF RuleSays
<1> HIDE DEF r, w
<1> QED
  BY <1>0, <1>1, <1>5, NewRuleKept

\* A toggle writes an old copy back.  If that copy was timed, every copy has its
\* creation time and the rule ends when the copy did.
LEMMA ToggleKept == ASSUME ToolsInv, Toggle PROVE ToolsInv'
<1>0. RulesRight /\ ListedRight /\ BackupRight /\ FormRight /\ OneBirth /\ OldCopiesGone /\ hour \in Nat \ {0}
  BY DEF ToolsInv
<1>1. PICK i \in cmd.todo : Upsert([cmd.listed[i] EXCEPT !.on = ~@],
                                   Want(cmd.listed[i].scope, EndOf(cmd.listed[i]), NoFlow))
  BY DEF Toggle
<1>2. cmd.kind = "toggle" /\ cmd' = NoCommand /\ UNCHANGED <<backup, form, saved, hour>>
  BY DEF Toggle
<1> DEFINE old == cmd.listed[i]
           r == [old EXCEPT !.on = ~@]
           w == Want(old.scope, EndOf(old), NoFlow)
<1>3. i \in DOMAIN cmd.listed /\ i \in AllIds /\ IsRule(old) /\ old.id = i /\ old.created \in 1..hour
  BY <1>0, <1>2 DEF ListedRight
<1>4. IsRule(r) /\ r.id = i /\ r.dur = old.dur /\ r.secs = old.secs /\ r.scope = old.scope /\ r.created = old.created
  BY <1>3 DEF IsRule
<1>w. w.scope = old.scope /\ w.end = EndOf(old) /\ w.flow = NoFlow
  BY DEF Want
<1>u. Upsert(r, w)
  BY <1>1
<1> HIDE DEF r, w
<1>5. old.dur = "seconds" => ~Untimed(i)
  BY <1>3 DEF Untimed
<1>6. \A c \in 1..hour : BornAt(i, c) => old.created = c
  BY <1>3 DEF BornAt
<1>7. i \in BundleIds => old.dur # "seconds"
  BY <1>0, <1>5 DEF OneBirth
<1>8. Stamped(r).scope = old.scope /\ Stamped(r).dur = old.dur /\ Stamped(r).secs = old.secs
  BY <1>0, <1>4, StampedIs
<1>9. old.dur = "seconds" => Stamped(r).created = old.created
  <2> SUFFICES ASSUME old.dur = "seconds" PROVE Stamped(r).created = old.created
    OBVIOUS
  <2>1. CASE i \in DOMAIN rules
    <3>1. i \in RuleIds
      BY <1>3, <1>7 DEF AllIds
    <3>2. PICK c \in 1..hour : BornAt(i, c)
      BY <1>0, <1>5, <3>1 DEF OneBirth
    <3>3. rules[i].created = c /\ old.created = c
      BY <1>6, <2>1, <3>2 DEF BornAt
    <3> QED
      BY <1>0, <1>4, <2>1, <3>3, StampedIs
  <2>2. CASE i \notin DOMAIN rules
    BY <1>0, <1>3, <1>4, <2>2, StampedIs
  <2> QED
    BY <2>1, <2>2
<1>10. EndOf(Stamped(r)) = EndOf(old)
  BY <1>8, <1>9 DEF EndOf
<1>11. EndOf(old) \in Nat
  BY <1>3 DEF EndOf, IsRule, Never
<1>12. RuleSays(Stamped(r), w)
  BY <1>8, <1>10, <1>11, <1>w DEF RuleSays
<1>13. RulesRight'
  BY <1>2, <1>3, <1>4, <1>12, <1>u, UpsertSays
<1>14. ListedRight' /\ BackupRight' /\ FormRight'
  BY <1>0, <1>2, ListedKept, BackupKept, FormKept
<1>15. OneBirth'
  <2>1. cmd'.listed = Nothing
    BY <1>2 DEF NoCommand
  <2> QED
    BY <1>2, <1>3, <1>4, <1>5, <1>6, <1>7, <1>u, <2>1, UpsertBirth
<1>16. OldCopiesGone'
  <2>1. cmd'.kind # "toggle"
    BY <1>2 DEF NoCommand
  <2>2. \A j \in DOMAIN rules' : \/ j \in DOMAIN rules /\ rules'[j] = rules[j]
                                 \/ j = i /\ rules'[j].dur = old.dur
    <3>1. DOMAIN wanted = DOMAIN rules
      BY <1>0 DEF RulesRight
    <3>2. \/ UNCHANGED <<rules, wanted>>
          \/ /\ DOMAIN rules' = DOMAIN rules \cup {r.id} /\ DOMAIN wanted' = DOMAIN rules'
             /\ rules'[r.id] = Stamped(r) /\ wanted'[r.id] = w
             /\ \A j \in DOMAIN rules \ {r.id} : rules'[j] = rules[j] /\ wanted'[j] = wanted[j]
      BY <1>3, <1>4, <1>u, <3>1, UpsertDoes
    <3> QED
      BY <1>4, <1>8, <3>2
  <2>3. \A j \in DOMAIN rules' : form.id = j /\ form.dur = "seconds" => rules'[j].dur = "seconds"
    BY <1>0, <1>1, <1>2, <2>2 DEF OldCopiesGone
  <2> QED
    BY <1>2, <2>1, <2>3 DEF OldCopiesGone
<1> QED
  BY <1>0, <1>2, <1>13, <1>14, <1>15, <1>16 DEF ToolsInv

LEMMA WithoutKept ==
  ASSUME ToolsInv, NEW S, rules' = Without(rules, S), wanted' = Without(wanted, S), hour' \in {hour, hour + 1},
         UNCHANGED <<form, backup>>, cmd'.listed = cmd.listed, cmd'.kind = cmd.kind,
         cmd.kind = "toggle" => cmd'.todo = cmd.todo
  PROVE  RulesRight' /\ OneBirth' /\ OldCopiesGone'
<1>0. RulesRight /\ OneBirth /\ OldCopiesGone /\ hour \in Nat \ {0}
  BY DEF ToolsInv
<1>1. DOMAIN rules' = DOMAIN rules \ S /\ \A j \in DOMAIN rules' : rules'[j] = rules[j]
  BY DEF Without
<1>2. DOMAIN wanted' = DOMAIN wanted \ S /\ \A j \in DOMAIN wanted' : wanted'[j] = wanted[j]
  BY DEF Without
<1>3. RulesRight'
  BY <1>0, <1>1, <1>2 DEF RulesRight, IsRule, RuleSays, EndOf, Matches
<1>4. \A i \in AllIds : Untimed(i) => Untimed(i)'
  BY <1>1 DEF Untimed
<1>5. \A i \in AllIds, c \in 1..hour : BornAt(i, c) => BornAt(i, c)'
  BY <1>1 DEF BornAt
<1>6. OneBirth'
  BY <1>0, <1>4, <1>5 DEF OneBirth, AllIds
<1>7. OldCopiesGone'
  BY <1>0, <1>1 DEF OldCopiesGone
<1> QED
  BY <1>3, <1>6, <1>7

LEMMA DeleteKept == ASSUME ToolsInv, NEW i, Delete(i) PROVE ToolsInv'
<1>0. ListedRight /\ BackupRight /\ FormRight /\ hour \in Nat \ {0}
  BY DEF ToolsInv
<1>1. rules' = Without(rules, {i}) /\ wanted' = Without(wanted, {i}) /\ UNCHANGED <<hour, form, backup, cmd, saved>>
  BY DEF Delete
<1>2. RulesRight' /\ OneBirth' /\ OldCopiesGone'
  BY <1>1, WithoutKept
<1> QED
  BY <1>0, <1>1, <1>2, ListedKept, BackupKept, FormKept DEF ToolsInv

LEMMA HourPassesKept == ASSUME ToolsInv, HourPasses PROVE ToolsInv'
<1>0. ListedRight /\ BackupRight /\ FormRight /\ hour \in Nat \ {0}
  BY DEF ToolsInv
<1>1. PICK S : rules' = Without(rules, S) /\ wanted' = Without(wanted, S)
  BY DEF HourPasses
<1>2. UNCHANGED <<form, backup, cmd, saved>> /\ hour' = hour + 1
  BY DEF HourPasses
<1>3. RulesRight' /\ OneBirth' /\ OldCopiesGone'
  BY <1>1, <1>2, WithoutKept
<1> QED
  BY <1>0, <1>2, <1>3, ListedKept, BackupKept, FormKept DEF ToolsInv

LEMMA BundleRemoveKept == ASSUME ToolsInv, BundleRemove PROVE ToolsInv'
<1>0. ListedRight /\ BackupRight /\ FormRight /\ hour \in Nat \ {0}
  BY DEF ToolsInv
<1>1. PICK e \in cmd.todo : /\ cmd' = [cmd EXCEPT !.todo = @ \ {e}]
                            /\ rules' = Without(rules, {e.id}) /\ wanted' = Without(wanted, {e.id})
  BY DEF BundleRemove
<1>2. cmd.kind = "bundle_remove" /\ UNCHANGED <<form, backup, saved, hour>>
  BY DEF BundleRemove
<1>3. cmd'.kind = cmd.kind /\ cmd'.listed = cmd.listed /\ cmd'.todo = cmd.todo \ {e}
      /\ DOMAIN cmd' = {"kind", "listed", "todo"}
  BY <1>0, <1>1 DEF ListedRight
<1>4. RulesRight' /\ OneBirth' /\ OldCopiesGone'
  BY <1>1, <1>2, <1>3, WithoutKept
<1>5. ListedRight'
  BY <1>0, <1>2, <1>3 DEF ListedRight, IsRule
<1> QED
  BY <1>0, <1>2, <1>4, <1>5, BackupKept, FormKept DEF ToolsInv

\* A rule of the bundle is never timed.
LEMMA BundleAddKept == ASSUME ToolsInv, BundleAdd PROVE ToolsInv'
<1>0. RulesRight /\ ListedRight /\ BackupRight /\ FormRight /\ OneBirth /\ OldCopiesGone /\ hour \in Nat \ {0}
  BY DEF ToolsInv
<1>1. PICK e \in cmd.todo : /\ cmd' = [cmd EXCEPT !.todo = @ \ {e}]
                            /\ \/ Upsert(ProtoFor(e), Want(ProtoFor(e).scope, Never, NoFlow))
                               \/ UNCHANGED <<rules, wanted>>
  BY DEF BundleAdd
<1>2. cmd.kind = "bundle_add" /\ UNCHANGED <<form, backup, saved, hour>>
  BY DEF BundleAdd
<1>3. cmd'.kind = cmd.kind /\ cmd'.listed = cmd.listed /\ cmd'.todo = cmd.todo \ {e}
      /\ DOMAIN cmd' = {"kind", "listed", "todo"}
  BY <1>0, <1>1 DEF ListedRight
<1>4. e \in Bundled /\ e.id \in BundleIds /\ e.id \in AllIds /\ e.id \notin RuleIds
  BY <1>0, <1>1, <1>2, ToolsAssumption DEF ListedRight, BundleIds, AllIds
<1>5. ListedRight'
  BY <1>0, <1>2, <1>3 DEF ListedRight, IsRule
<1>6. BackupRight' /\ FormRight'
  BY <1>0, <1>2, BackupKept, FormKept
<1>7. CASE UNCHANGED <<rules, wanted>>
  <2>1. RulesRight'
    BY <1>0, <1>2, <1>7 DEF RulesRight, IsRule, RuleSays, EndOf, Matches
  <2>2. OneBirth'
    <3>1. \A i \in AllIds : Untimed(i) => Untimed(i)'
      BY <1>2, <1>3, <1>7 DEF Untimed
    <3>2. \A i \in AllIds, c \in 1..hour : BornAt(i, c) => BornAt(i, c)'
      BY <1>2, <1>3, <1>7 DEF BornAt
    <3> QED
      BY <1>0, <1>2, <3>1, <3>2 DEF OneBirth, AllIds
  <2>3. OldCopiesGone'
    BY <1>0, <1>2, <1>3, <1>7 DEF OldCopiesGone
  <2> QED
    BY <1>0, <1>2, <1>5, <1>6, <2>1, <2>2, <2>3 DEF ToolsInv
<1>8. CASE Upsert(ProtoFor(e), Want(ProtoFor(e).scope, Never, NoFlow))
  <2> DEFINE r == ProtoFor(e)
             w == Want(r.scope, Never, NoFlow)
  <2>1. IsRule(r) /\ r.id = e.id /\ r.dur = "always"
    BY DEF ProtoFor, RuleOf, IsRule
  <2>w. w.scope = r.scope /\ w.end = Never /\ w.flow = NoFlow
    BY DEF Want
  <2>u. Upsert(r, w)
    BY <1>8
  <2> HIDE DEF r, w
  <2>2. Stamped(r).scope = r.scope /\ Stamped(r).dur = "always"
    BY <1>0, <2>1, StampedIs
  <2>3. RuleSays(Stamped(r), w)
    BY <2>2, <2>w DEF RuleSays
  <2>4. RulesRight'
    BY <1>2, <1>4, <2>1, <2>3, <2>u, UpsertSays
  <2>5. OneBirth'
    BY <1>2, <1>3, <1>4, <2>1, <2>u, UpsertBirth
  <2>6. OldCopiesGone'
    <3>1. DOMAIN wanted = DOMAIN rules
      BY <1>0 DEF RulesRight
    <3>2. \A j \in DOMAIN rules' : (j \in DOMAIN rules /\ rules'[j] = rules[j]) \/ j = e.id
      BY <1>4, <2>1, <2>u, <3>1, UpsertDoes
    <3>3. form.id = e.id => form.dur # "seconds"
      BY <1>0, <1>4 DEF OneBirth, Untimed
    <3> QED
      BY <1>0, <1>2, <1>3, <3>2, <3>3 DEF OldCopiesGone
  <2> QED
    BY <1>0, <1>2, <1>5, <1>6, <2>4, <2>5, <2>6 DEF ToolsInv
<1> QED
  BY <1>1, <1>7, <1>8

\* A listing is a copy of the rules.
LEMMA ListsKept ==
  ASSUME ToolsInv, NEW kind \in {"toggle", "import", "bundle_add", "bundle_remove"}, NEW todo, Lists(kind, todo),
         kind = "toggle" => todo \subseteq DOMAIN rules,
         kind \in {"bundle_add", "bundle_remove"} => todo \subseteq Bundled
  PROVE  ToolsInv'
<1>0. RulesRight /\ ListedRight /\ BackupRight /\ FormRight /\ OneBirth /\ OldCopiesGone /\ hour \in Nat \ {0}
  BY DEF ToolsInv
<1>1. cmd' = [kind |-> kind, listed |-> rules, todo |-> todo]
      /\ UNCHANGED <<rules, backup, form, wanted, saved, hour>>
  BY DEF Lists
<1>2. cmd'.kind = kind /\ cmd'.listed = rules /\ cmd'.todo = todo /\ DOMAIN cmd' = {"kind", "listed", "todo"}
  BY <1>1
<1>3. RulesRight'
  BY <1>0, <1>1 DEF RulesRight, IsRule, RuleSays, EndOf, Matches
<1>4. ListedRight'
  BY <1>0, <1>1, <1>2 DEF ListedRight, RulesRight, IsRule
<1>5. BackupRight' /\ FormRight'
  BY <1>0, <1>1, BackupKept, FormKept
<1>6. OneBirth'
  <2>1. \A i \in AllIds : Untimed(i) => Untimed(i)'
    BY <1>1, <1>2 DEF Untimed
  <2>2. \A i \in AllIds, c \in 1..hour : BornAt(i, c) => BornAt(i, c)'
    BY <1>1, <1>2 DEF BornAt
  <2> QED
    BY <1>0, <1>1, <2>1, <2>2 DEF OneBirth, AllIds
<1>7. OldCopiesGone'
  BY <1>0, <1>1, <1>2 DEF OldCopiesGone
<1> QED
  BY <1>0, <1>1, <1>3, <1>4, <1>5, <1>6, <1>7 DEF ToolsInv

LEMMA CommandEndsKept == ASSUME ToolsInv, CommandEnds PROVE ToolsInv'
<1>0. RulesRight /\ ListedRight /\ BackupRight /\ FormRight /\ OneBirth /\ OldCopiesGone /\ hour \in Nat \ {0}
  BY DEF ToolsInv
<1>1. cmd' = NoCommand /\ UNCHANGED <<rules, backup, form, wanted, saved, hour>>
  BY DEF CommandEnds
<1>2. cmd'.kind = "none" /\ cmd'.listed = Nothing /\ DOMAIN Nothing = {}
  BY <1>1 DEF NoCommand, Nothing
<1>3. RulesRight'
  BY <1>0, <1>1 DEF RulesRight, IsRule, RuleSays, EndOf, Matches
<1>4. ListedRight' /\ BackupRight' /\ FormRight'
  BY <1>0, <1>1, ListedKept, BackupKept, FormKept
<1>5. OneBirth'
  <2>1. \A i \in AllIds : Untimed(i) => Untimed(i)'
    BY <1>1, <1>2 DEF Untimed
  <2>2. \A i \in AllIds, c \in 1..hour : BornAt(i, c) => BornAt(i, c)'
    BY <1>1, <1>2 DEF BornAt
  <2> QED
    BY <1>0, <1>1, <2>1, <2>2 DEF OneBirth, AllIds
<1>6. OldCopiesGone'
  BY <1>0, <1>1, <1>2 DEF OldCopiesGone
<1> QED
  BY <1>0, <1>1, <1>3, <1>4, <1>5, <1>6 DEF ToolsInv

\* A file keeps when a timed rule ends; what is not timed has no timed copy,
\* since the file is written from the rules between two commands.
LEMMA ExportKept == ASSUME ToolsInv, Export PROVE ToolsInv'
<1>0. RulesRight /\ ListedRight /\ BackupRight /\ FormRight /\ OneBirth /\ OldCopiesGone /\ hour \in Nat \ {0}
  BY DEF ToolsInv
<1>1. backup' = [i \in DOMAIN rules |-> Exported(rules[i])] /\ saved' = wanted
      /\ UNCHANGED <<rules, form, cmd, wanted, hour>> /\ cmd.kind = "none"
  BY DEF Export
<1>2. RulesRight'
  BY <1>0, <1>1 DEF RulesRight, IsRule, RuleSays, EndOf, Matches
<1>3. ListedRight' /\ FormRight'
  BY <1>0, <1>1, ListedKept, FormKept
<1>4. ASSUME NEW i \in DOMAIN rules
      PROVE  /\ backup'[i].ends = EndOf(rules[i])
             /\ backup'[i].rule = [rules[i] EXCEPT !.created = 0]
             /\ IsRule(backup'[i].rule) /\ backup'[i].rule.id = i /\ backup'[i].rule.dur = rules[i].dur
             /\ backup'[i].rule.scope = rules[i].scope /\ backup'[i].rule.secs = rules[i].secs
             /\ backup'[i].ends \in Nat
             /\ backup'[i].ends # Never <=> rules[i].dur = "seconds"
             /\ backup'[i].ends # Never => backup'[i].ends - rules[i].secs = rules[i].created
  <2>1. backup'[i] = Exported(rules[i])
    BY <1>1
  <2>2. IsRule(rules[i]) /\ rules[i].id = i /\ rules[i].created \in 1..hour
    BY <1>0 DEF RulesRight
  <2>3. backup'[i].ends = EndOf(rules[i]) /\ backup'[i].rule = [rules[i] EXCEPT !.created = 0]
    BY <2>1 DEF Exported
  <2>4. EndOf(rules[i]) \in Nat /\ (EndOf(rules[i]) # Never <=> rules[i].dur = "seconds")
        /\ (EndOf(rules[i]) # Never => EndOf(rules[i]) - rules[i].secs = rules[i].created)
    BY <1>0, <2>2 DEF EndOf, IsRule, Never
  <2>5. /\ IsRule(backup'[i].rule) /\ backup'[i].rule.id = i /\ backup'[i].rule.dur = rules[i].dur
        /\ backup'[i].rule.scope = rules[i].scope /\ backup'[i].rule.secs = rules[i].secs
    BY <2>2, <2>3 DEF IsRule
  <2> QED
    BY <2>3, <2>4, <2>5
<1>5. BackupRight'
  <2>1. DOMAIN saved' = DOMAIN backup' /\ DOMAIN backup' = DOMAIN rules /\ DOMAIN rules \subseteq AllIds
    BY <1>0, <1>1 DEF RulesRight
  <2>2. \A i \in DOMAIN rules : RuleSays(rules[i], wanted[i]) /\ rules[i].created \in 1..hour
    BY <1>0 DEF RulesRight
  <2>3. ASSUME NEW i \in DOMAIN rules
        PROVE  /\ backup'[i].ends # Never => backup'[i].ends - backup'[i].rule.secs \in 1..hour
               /\ wanted[i].end # Never => backup'[i].ends # Never /\ backup'[i].ends <= wanted[i].end
               /\ backup'[i].rule.scope = wanted[i].scope
               /\ wanted[i].flow # NoFlow => Matches(backup'[i].rule.scope, wanted[i].flow)
    <3>1. backup'[i].ends = EndOf(rules[i]) /\ backup'[i].rule.scope = rules[i].scope
          /\ backup'[i].rule.secs = rules[i].secs
          /\ (backup'[i].ends # Never => backup'[i].ends - rules[i].secs = rules[i].created)
      BY <1>4
    <3>2. RuleSays(rules[i], wanted[i]) /\ rules[i].created \in 1..hour
      BY <2>2
    <3>3. backup'[i].ends # Never => backup'[i].ends - backup'[i].rule.secs \in 1..hour
      BY <3>1, <3>2
    <3>4. wanted[i].end # Never => backup'[i].ends # Never /\ backup'[i].ends <= wanted[i].end
      BY <3>1, <3>2 DEF RuleSays
    <3>5. rules[i].scope = wanted[i].scope /\ (wanted[i].flow # NoFlow => Matches(rules[i].scope, wanted[i].flow))
      BY <3>2 DEF RuleSays
    <3>6. wanted[i].flow # NoFlow => Matches(backup'[i].rule.scope, wanted[i].flow)
      BY <3>1, <3>5
    <3> QED
      BY <3>1, <3>3, <3>4, <3>5, <3>6
  <2>4. ASSUME NEW i \in DOMAIN backup'
        PROVE  /\ IsRule(backup'[i].rule) /\ backup'[i].rule.id = i /\ backup'[i].ends \in Nat
               /\ backup'[i].ends # Never <=> backup'[i].rule.dur = "seconds"
               /\ backup'[i].ends # Never => backup'[i].ends - backup'[i].rule.secs \in 1..hour'
               /\ saved'[i].end # Never => backup'[i].ends # Never /\ backup'[i].ends <= saved'[i].end
               /\ backup'[i].rule.scope = saved'[i].scope
               /\ saved'[i].flow # NoFlow => Matches(backup'[i].rule.scope, saved'[i].flow)
    <3>1. i \in DOMAIN rules /\ saved'[i] = wanted[i] /\ hour' = hour
      BY <1>1, <2>1
    <3> QED
      BY <1>4, <2>3, <3>1, SMTT(30), ZenonT(30)
  <2> QED
    <3>1. DOMAIN saved' = DOMAIN backup' /\ DOMAIN backup' \subseteq AllIds'
      BY <2>1 DEF AllIds, BundleIds
    <3> QED
      BY <2>4, <3>1 DEF BackupRight, Matches
<1>6. DOMAIN cmd.listed = {}
  <2>1. DOMAIN Nothing = {}
    BY DEF Nothing
  <2> QED
    BY <1>0, <1>1, <2>1 DEF ListedRight
<1>7. OneBirth'
  <2>1. \A i \in AllIds : Untimed(i) => Untimed(i)'
    BY <1>1, <1>4 DEF Untimed
  <2>2. ASSUME NEW i \in AllIds, NEW c \in 1..hour, BornAt(i, c) PROVE Untimed(i)' \/ BornAt(i, c)'
    <3>1. CASE i \in DOMAIN rules /\ rules[i].dur = "seconds"
      BY <1>1, <1>4, <2>2, <3>1, SMTT(30), ZenonT(30) DEF BornAt
    <3>2. CASE i \in DOMAIN rules /\ rules[i].dur # "seconds"
      <4>1. form.id = i => form.dur # "seconds"
        BY <1>0, <3>2 DEF OldCopiesGone
      <4> QED
        BY <1>1, <1>4, <1>6, <3>2, <4>1 DEF Untimed
    <3>3. CASE i \notin DOMAIN rules
      BY <1>1, <1>6, <2>2, <3>3 DEF BornAt
    <3> QED
      BY <3>1, <3>2, <3>3
  <2> QED
    BY <1>0, <1>1, <2>1, <2>2 DEF OneBirth, AllIds
<1>8. OldCopiesGone'
  BY <1>0, <1>1 DEF OldCopiesGone
<1> QED
  BY <1>0, <1>1, <1>2, <1>3, <1>5, <1>7, <1>8 DEF ToolsInv

\* A restored timed rule ends when its file says.
LEMMA RestoredIs ==
  ASSUME ToolsInv, NEW i \in DOMAIN backup
  PROVE  LET r == TryIntoProto(backup[i])
         IN /\ IsRule(Stamped(r)) /\ Stamped(r).id = i /\ Stamped(r).created \in 1..hour
            /\ Stamped(r).dur = backup[i].rule.dur /\ Stamped(r).scope = backup[i].rule.scope
            /\ RuleSays(Stamped(r), saved[i])
            /\ \A c \in 1..hour : BornAt(i, c) => Stamped(r).created = c
<1> DEFINE x == backup[i]
           r == TryIntoProto(x)
<1>0. RulesRight /\ BackupRight /\ OneBirth /\ hour \in Nat \ {0}
  BY DEF ToolsInv
<1>1. IsRule(x.rule) /\ x.rule.id = i /\ x.ends \in Nat /\ (x.ends # Never <=> x.rule.dur = "seconds")
      /\ (x.ends # Never => x.ends - x.rule.secs \in 1..hour) /\ i \in AllIds
  BY <1>0 DEF BackupRight
<1>2. /\ saved[i].end # Never => x.ends # Never /\ x.ends <= saved[i].end
      /\ x.rule.scope = saved[i].scope
      /\ saved[i].flow # NoFlow => Matches(x.rule.scope, saved[i].flow)
  BY <1>0 DEF BackupRight
<1>3. r = [x.rule EXCEPT !.created = IF x.ends = Never THEN 0 ELSE Larger(x.ends - x.rule.secs, 1)]
  BY DEF TryIntoProto
<1>4. /\ IsRule(r) /\ r.id = i /\ r.dur = x.rule.dur /\ r.secs = x.rule.secs /\ r.scope = x.rule.scope
      /\ x.ends # Never => r.created = x.ends - x.rule.secs
  BY <1>0, <1>1, <1>3 DEF IsRule, Larger
<1> HIDE DEF x, r
<1>5. IsRule(Stamped(r)) /\ Stamped(r).id = i /\ Stamped(r).dur = x.rule.dur /\ Stamped(r).secs = x.rule.secs
      /\ Stamped(r).scope = x.rule.scope /\ Stamped(r).created \in 1..hour
  BY <1>0, <1>4, StampedIs
<1>6. x.ends # Never => Stamped(r).created = x.ends - x.rule.secs
  <2> SUFFICES ASSUME x.ends # Never PROVE Stamped(r).created = x.ends - x.rule.secs
    OBVIOUS
  <2>1. CASE i \in DOMAIN rules
    <3>1. ~Untimed(i)
      BY DEF Untimed, x
    <3>2. i \in RuleIds
      BY <1>0, <1>1, <3>1 DEF AllIds, OneBirth
    <3>3. PICK c \in 1..hour : BornAt(i, c)
      BY <1>0, <3>1, <3>2 DEF OneBirth
    <3>4. rules[i].created = c /\ x.ends - x.rule.secs = c
      BY <2>1, <3>3 DEF BornAt, x
    <3> QED
      BY <1>0, <1>4, <2>1, <3>4, StampedIs
  <2>2. CASE i \notin DOMAIN rules
    BY <1>0, <1>1, <1>4, <2>2, StampedIs
  <2> QED
    BY <2>1, <2>2
<1>7. RuleSays(Stamped(r), saved[i])
  <2>1. saved[i].end # Never => EndOf(Stamped(r)) = x.ends
    BY <1>0, <1>1, <1>2, <1>5, <1>6 DEF EndOf, IsRule
  <2> QED
    BY <1>2, <1>5, <2>1 DEF RuleSays
<1>8. ASSUME NEW c \in 1..hour, BornAt(i, c) PROVE Stamped(r).created = c
  BY <1>6, <1>8 DEF BornAt, x
<1> QED
  BY <1>5, <1>7, <1>8 DEF r, x

LEMMA ImportKept == ASSUME ToolsInv, NEW replace \in BOOLEAN, Import(replace) PROVE ToolsInv'
<1>0. RulesRight /\ ListedRight /\ BackupRight /\ FormRight /\ OneBirth /\ OldCopiesGone /\ hour \in Nat \ {0}
  BY DEF ToolsInv
<1>1. cmd' = NoCommand /\ UNCHANGED <<backup, form, saved, hour>> /\ cmd.kind = "import"
  BY DEF Import
<1>2. cmd'.kind = "none" /\ cmd'.listed = Nothing /\ DOMAIN Nothing = {}
  BY <1>1 DEF NoCommand, Nothing
<1> DEFINE back(i) == Stamped(TryIntoProto(backup[i]))
<1>3. \/ UNCHANGED <<rules, wanted>>
      \/ /\ DOMAIN rules' \subseteq DOMAIN rules \cup DOMAIN backup /\ DOMAIN wanted' = DOMAIN rules'
         /\ \A i \in DOMAIN rules' : IF i \in DOMAIN backup THEN rules'[i] = back(i) /\ wanted'[i] = saved[i]
                                     ELSE rules'[i] = rules[i] /\ wanted'[i] = wanted[i]
  BY DEF Import
<1> HIDE DEF back
<1>4. ASSUME NEW i \in DOMAIN backup
      PROVE  /\ i \in AllIds
             /\ IsRule(back(i)) /\ back(i).id = i /\ back(i).created \in 1..hour
             /\ back(i).dur = "seconds" <=> backup[i].ends # Never
             /\ RuleSays(back(i), saved[i])
             /\ \A c \in 1..hour : BornAt(i, c) => back(i).created = c
  <2>1. i \in AllIds /\ (backup[i].ends # Never <=> backup[i].rule.dur = "seconds")
    BY <1>0 DEF BackupRight
  <2>2. /\ IsRule(back(i)) /\ back(i).id = i /\ back(i).created \in 1..hour
        /\ back(i).dur = backup[i].rule.dur
        /\ RuleSays(back(i), saved[i])
        /\ \A c \in 1..hour : BornAt(i, c) => back(i).created = c
    BY RestoredIs DEF back
  <2> QED
    BY <2>1, <2>2
<1>5. ListedRight' /\ BackupRight' /\ FormRight'
  BY <1>0, <1>1, ListedKept, BackupKept, FormKept
<1>6. CASE UNCHANGED <<rules, wanted>>
  <2>1. RulesRight'
    BY <1>0, <1>1, <1>6 DEF RulesRight, IsRule, RuleSays, EndOf, Matches
  <2>2. OneBirth'
    <3>1. \A i \in AllIds : Untimed(i) => Untimed(i)'
      BY <1>1, <1>2, <1>6 DEF Untimed
    <3>2. \A i \in AllIds, c \in 1..hour : BornAt(i, c) => BornAt(i, c)'
      BY <1>1, <1>2, <1>6 DEF BornAt
    <3> QED
      BY <1>0, <1>1, <3>1, <3>2 DEF OneBirth, AllIds
  <2>3. OldCopiesGone'
    BY <1>0, <1>1, <1>2, <1>6 DEF OldCopiesGone
  <2> QED
    BY <1>0, <1>1, <1>5, <2>1, <2>2, <2>3 DEF ToolsInv
<1>7. CASE /\ DOMAIN rules' \subseteq DOMAIN rules \cup DOMAIN backup /\ DOMAIN wanted' = DOMAIN rules'
           /\ \A i \in DOMAIN rules' : IF i \in DOMAIN backup THEN rules'[i] = back(i) /\ wanted'[i] = saved[i]
                                       ELSE rules'[i] = rules[i] /\ wanted'[i] = wanted[i]
  <2>1. \A i \in DOMAIN rules' : /\ i \in DOMAIN backup => rules'[i] = back(i) /\ wanted'[i] = saved[i]
                                 /\ i \notin DOMAIN backup =>
                                      i \in DOMAIN rules /\ rules'[i] = rules[i] /\ wanted'[i] = wanted[i]
    BY <1>7
  <2>2. DOMAIN wanted' = DOMAIN rules' /\ DOMAIN rules' \subseteq AllIds
    BY <1>0, <1>7 DEF RulesRight, BackupRight
  <2>3. ASSUME NEW i \in DOMAIN rules'
        PROVE  IsRule(rules'[i]) /\ rules'[i].id = i /\ rules'[i].created \in 1..hour
               /\ RuleSays(rules'[i], wanted'[i])
    <3>1. CASE i \in DOMAIN backup
      BY <1>4, <2>1, <3>1
    <3>2. CASE i \notin DOMAIN backup
      BY <1>0, <2>1, <3>2 DEF RulesRight
    <3> QED
      BY <3>1, <3>2
  <2>4. RulesRight'
    BY <1>1, <2>2, <2>3 DEF RulesRight, IsRule, RuleSays, EndOf, Matches
  <2>5. ASSUME NEW i \in AllIds, Untimed(i) PROVE Untimed(i)'
    <3>1. i \in DOMAIN rules' => rules'[i].dur # "seconds"
      <4>1. CASE i \in DOMAIN backup
        BY <1>4, <2>1, <2>5, <4>1 DEF Untimed
      <4>2. CASE i \notin DOMAIN backup
        BY <2>1, <2>5, <4>2 DEF Untimed
      <4> QED
        BY <4>1, <4>2
    <3> QED
      BY <1>1, <1>2, <2>5, <3>1 DEF Untimed
  <2>6. ASSUME NEW i \in AllIds, NEW c \in 1..hour, BornAt(i, c) PROVE BornAt(i, c)'
    <3>1. i \in DOMAIN rules' => rules'[i].created = c
      <4>1. CASE i \in DOMAIN backup
        BY <1>4, <2>1, <2>6, <4>1
      <4>2. CASE i \notin DOMAIN backup
        BY <2>1, <2>6, <4>2 DEF BornAt
      <4> QED
        BY <4>1, <4>2
    <3> QED
      BY <1>1, <1>2, <2>6, <3>1 DEF BornAt
  <2>7. OneBirth'
    BY <1>0, <1>1, <2>5, <2>6 DEF OneBirth, AllIds
  <2>8. ASSUME NEW i \in DOMAIN rules', form.id = i, form.dur = "seconds" PROVE rules'[i].dur = "seconds"
    <3>1. CASE i \in DOMAIN backup
      <4>1. ~Untimed(i) /\ i \in AllIds
        BY <1>4, <2>8, <3>1 DEF Untimed
      <4>2. PICK c \in 1..hour : BornAt(i, c)
        BY <1>0, <4>1 DEF OneBirth, AllIds
      <4>3. backup[i].ends # Never
        BY <3>1, <4>2 DEF BornAt
      <4> QED
        BY <1>4, <2>1, <3>1, <4>3
    <3>2. CASE i \notin DOMAIN backup
      BY <1>0, <2>1, <2>8, <3>2 DEF OldCopiesGone
    <3> QED
      BY <3>1, <3>2
  <2>9. OldCopiesGone'
    BY <1>1, <1>2, <2>8 DEF OldCopiesGone
  <2> QED
    BY <1>0, <1>1, <1>5, <2>4, <2>7, <2>9 DEF ToolsInv
<1> QED
  BY <1>3, <1>6, <1>7

\* Opening or changing the form changes no rule.
LEMMA FormStepKept ==
  ASSUME ToolsInv, UNCHANGED <<rules, backup, cmd, wanted, saved, hour>>, FormRight',
         \A i \in AllIds : form'.id = i =>
            \/ form.id = i /\ form'.created = form.created /\ (form'.dur = "seconds" => form.dur = "seconds")
            \/ i \in DOMAIN rules /\ form'.created = rules[i].created /\ form'.dur = rules[i].dur
  PROVE  ToolsInv'
<1>0. RulesRight /\ ListedRight /\ BackupRight /\ FormRight /\ OneBirth /\ OldCopiesGone /\ hour \in Nat \ {0}
  BY DEF ToolsInv
<1>1. RulesRight'
  BY <1>0 DEF RulesRight, IsRule, RuleSays, EndOf, Matches
<1>2. ListedRight' /\ BackupRight'
  BY <1>0, ListedKept, BackupKept
<1>3. OneBirth'
  <2>1. \A i \in AllIds : Untimed(i) => Untimed(i)'
    BY DEF Untimed
  <2>2. \A i \in AllIds, c \in 1..hour : BornAt(i, c) => BornAt(i, c)'
    BY DEF BornAt
  <2> QED
    BY <1>0, <2>1, <2>2 DEF OneBirth, AllIds
<1>4. OldCopiesGone'
  <2>1. DOMAIN rules \subseteq AllIds /\ (cmd.kind = "toggle" => cmd.todo \subseteq AllIds)
    BY <1>0 DEF RulesRight, ListedRight
  <2>2. \A i \in DOMAIN rules : form'.id = i /\ form'.dur = "seconds" => rules[i].dur = "seconds"
    BY <1>0, <2>1 DEF OldCopiesGone
  <2>3. ASSUME cmd.kind = "toggle", NEW i \in cmd.todo, cmd.listed[i].dur # "seconds"
        PROVE  (form'.id = i => form'.dur # "seconds") /\ (i \in DOMAIN rules => rules[i].dur # "seconds")
    BY <1>0, <2>1, <2>3 DEF OldCopiesGone
  <2> QED
    BY <2>2, <2>3 DEF OldCopiesGone
<1> QED
  BY <1>0, <1>1, <1>2, <1>3, <1>4 DEF ToolsInv

LEMMA EditExistingKept == ASSUME ToolsInv, NEW i, EditExisting(i) PROVE ToolsInv'
<1>0. RulesRight /\ hour \in Nat \ {0}
  BY DEF ToolsInv
<1>1. i \in DOMAIN rules /\ form' = FromExisting(rules[i])
      /\ UNCHANGED <<rules, aliases, scripts, backup, cmd, wanted, saved, hour>>
  BY DEF EditExisting, OpensForm
<1> DEFINE r == rules[i]
<1>2. IsRule(r) /\ r.id = i /\ r.created \in 1..hour /\ i \in AllIds
  BY <1>0, <1>1 DEF RulesRight
<1> HIDE DEF r
<1>3. form' = [NoForm EXCEPT !.open = TRUE, !.id = r.id, !.fields = Visible(r.scope), !.carried = r.scope, !.action = r.action,
                   !.dur = r.dur, !.secs = r.secs, !.created = r.created, !.on = r.on]
  BY <1>1 DEF FromExisting, r
<1>4. /\ DOMAIN form' = DOMAIN NoForm
      /\ form'.id = i /\ form'.fields = Visible(r.scope) /\ form'.carried = r.scope /\ form'.dur = r.dur
      /\ form'.secs = r.secs /\ form'.created = r.created /\ form'.typed = Untouched /\ form'.flow = NoFlow
  BY <1>2, <1>3, NoFormRight
<1>5. /\ DOMAIN Visible(r.scope) = Predicates /\ Shown \subseteq Predicates
      /\ \A p \in Shown : Visible(r.scope)[p] = r.scope[p]
  BY DEF Visible, Shown, Predicates
<1>6. i # "none"
  BY <1>2, ToolsAssumption DEF AllIds, BundleIds
<1>7. FormRight'
  BY <1>1, <1>2, <1>4, <1>5, <1>6, NoFormRight DEF FormRight, IsRule, AllIds, BundleIds
<1> QED
  BY <1>1, <1>4, <1>7, FormStepKept DEF r

\* A form made from a flow covers it.
LEMMA ObservedForm ==
  ASSUME NEW f, NEW fm, fm = FromObserved(f)
  PROVE  /\ DOMAIN fm = DOMAIN NoForm /\ DOMAIN fm.fields = Predicates /\ DOMAIN fm.carried = Predicates
         /\ fm.id = "none" /\ fm.dur = "always" /\ fm.secs = 0 /\ fm.created = 0
         /\ fm.typed = Untouched /\ fm.flow = f
         /\ fm.fields.exe \in {"none", f.exe} /\ fm.fields.dstNet \in {"none", f.peer} /\ fm.fields.dstPort = f.port
         /\ (fm.carried.dir = "in") = (f.dir = "in") /\ fm.carried.srcNet \in {"none", f.peer}
         /\ fm.carried.sha256 = "none"
<1> DEFINE inbound == f.dir = "in"
           scopable == ~inbound /\ ExeIsRuleScopable(f.exe)
           fields == [Blank EXCEPT !.exe = IF scopable THEN f.exe ELSE "none",
                                   !.dstNet = IF scopable \/ inbound THEN "none" ELSE f.peer,
                                   !.dstPort = f.port]
           carried == [Blank EXCEPT !.dir = IF inbound THEN "in" ELSE "none",
                                    !.srcNet = IF inbound THEN f.peer ELSE "none"]
<1>1. fm = [NoForm EXCEPT !.open = TRUE, !.flow = f, !.fields = fields, !.carried = carried]
  BY DEF FromObserved
<1>2. DOMAIN Blank = Predicates /\ Blank.sha256 = "none"
      /\ {"exe", "dstNet", "dstPort", "dir", "srcNet", "sha256"} \subseteq Predicates
  BY DEF Blank, Predicates
<1>3. DOMAIN fields = Predicates /\ fields.exe \in {"none", f.exe} /\ fields.dstNet \in {"none", f.peer}
      /\ fields.dstPort = f.port
  BY <1>2
<1>4. DOMAIN carried = Predicates /\ (carried.dir = "in") = (f.dir = "in") /\ carried.srcNet \in {"none", f.peer}
      /\ carried.sha256 = "none"
  BY <1>2
<1> HIDE DEF fields, carried
<1>5. fm.fields = fields /\ fm.carried = carried /\ fm.flow = f /\ DOMAIN fm = DOMAIN NoForm /\ fm.id = NoForm.id
      /\ fm.dur = NoForm.dur /\ fm.secs = NoForm.secs /\ fm.created = NoForm.created /\ fm.typed = NoForm.typed
  BY <1>1, NoFormRight
<1> QED
  BY <1>3, <1>4, <1>5, NoFormRight

LEMMA CoversFlow ==
  ASSUME NEW f, NEW fm,
         fm.fields.exe \in {"none", f.exe}, fm.fields.dstNet \in {"none", f.peer}, fm.fields.dstPort = f.port,
         (fm.carried.dir = "in") = (f.dir = "in"), fm.carried.srcNet \in {"none", f.peer},
         fm.carried.sha256 \in {"none", f.sha256}
  PROVE  Matches(BuiltScope(fm), f)
<1> DEFINE s == BuiltScope(fm)
<1>1. /\ s.exe = fm.fields.exe /\ s.dstNet = fm.fields.dstNet /\ s.dstPort = fm.fields.dstPort
      /\ s.dir = fm.carried.dir /\ s.srcNet = fm.carried.srcNet /\ s.sha256 = fm.carried.sha256
  BY DEF BuiltScope, Predicates, Shown
<1> HIDE DEF s
<1>2. Matches(s, f)
  BY <1>1 DEF Matches
<1> QED
  BY <1>2 DEF s

\* A new form with no rule behind it.
LEMMA NewFormKept ==
  ASSUME ToolsInv, UNCHANGED <<rules, backup, cmd, wanted, saved, hour>>,
         DOMAIN form' = DOMAIN NoForm, DOMAIN form'.fields = Predicates,
         form'.id = "none", form'.dur = "always", form'.secs = 0, form'.created = 0, form'.typed = Untouched,
         Matches(BuiltScope(form'), form'.flow)
  PROVE  ToolsInv'
<1>1. FormRight'
  BY NoFormRight DEF FormRight
<1>2. "none" \notin AllIds
  BY ToolsAssumption DEF AllIds, BundleIds
<1> QED
  BY <1>1, <1>2, FormStepKept

LEMMA MakeRuleFromEventKept == ASSUME ToolsInv, NEW f, MakeRuleFromEvent(f) PROVE ToolsInv'
<1>1. form' = FromObserved(f) /\ UNCHANGED <<rules, aliases, scripts, backup, cmd, wanted, saved, hour>>
  BY DEF MakeRuleFromEvent, OpensForm
<1> DEFINE fm == FromObserved(f)
<1>2. /\ DOMAIN fm = DOMAIN NoForm /\ DOMAIN fm.fields = Predicates
      /\ fm.id = "none" /\ fm.dur = "always" /\ fm.secs = 0 /\ fm.created = 0
      /\ fm.typed = Untouched /\ fm.flow = f /\ Matches(BuiltScope(fm), f)
  <2>1. /\ DOMAIN fm = DOMAIN NoForm /\ DOMAIN fm.fields = Predicates
        /\ fm.id = "none" /\ fm.dur = "always" /\ fm.secs = 0 /\ fm.created = 0
        /\ fm.typed = Untouched /\ fm.flow = f
        /\ fm.fields.exe \in {"none", f.exe} /\ fm.fields.dstNet \in {"none", f.peer} /\ fm.fields.dstPort = f.port
        /\ (fm.carried.dir = "in") = (f.dir = "in") /\ fm.carried.srcNet \in {"none", f.peer}
        /\ fm.carried.sha256 = "none"
    BY ObservedForm
  <2> HIDE DEF fm
  <2>2. fm.carried.sha256 \in {"none", f.sha256}
    BY <2>1
  <2>3. Matches(BuiltScope(fm), f)
    BY <2>1, <2>2, CoversFlow
  <2> QED
    BY <2>1, <2>3
<1> QED
  BY <1>1, <1>2, NewFormKept

LEMMA CustomizePromptRuleKept == ASSUME ToolsInv, NEW f, NEW binds \in BOOLEAN, CustomizePromptRule(f, binds) PROVE ToolsInv'
<1> DEFINE seed == FromObserved(f)
           fm == FromPrompt(f, binds)
           d == IF binds THEN f.sha256 ELSE "none"
<1>1. form' = fm /\ UNCHANGED <<rules, aliases, scripts, backup, cmd, wanted, saved, hour>>
  BY DEF CustomizePromptRule, OpensForm
<1>2. fm = [seed EXCEPT !.pinned = binds, !.carried.sha256 = d]
  BY DEF FromPrompt
<1>3. /\ DOMAIN seed = DOMAIN NoForm /\ DOMAIN seed.fields = Predicates /\ DOMAIN seed.carried = Predicates
      /\ seed.id = "none" /\ seed.dur = "always" /\ seed.secs = 0 /\ seed.created = 0
      /\ seed.typed = Untouched /\ seed.flow = f
      /\ seed.fields.exe \in {"none", f.exe} /\ seed.fields.dstNet \in {"none", f.peer} /\ seed.fields.dstPort = f.port
      /\ (seed.carried.dir = "in") = (f.dir = "in") /\ seed.carried.srcNet \in {"none", f.peer}
  BY ObservedForm
<1>d. d \in {"none", f.sha256}
  OBVIOUS
<1> HIDE DEF seed, fm, d
<1>4. /\ DOMAIN fm = DOMAIN NoForm /\ fm.fields = seed.fields /\ fm.id = seed.id /\ fm.dur = seed.dur
      /\ fm.secs = seed.secs /\ fm.created = seed.created /\ fm.typed = seed.typed /\ fm.flow = seed.flow
      /\ fm.carried = [seed.carried EXCEPT !.sha256 = d]
  BY <1>2, <1>3, NoFormRight
<1>5. fm.carried.dir = seed.carried.dir /\ fm.carried.srcNet = seed.carried.srcNet /\ fm.carried.sha256 = d
  BY <1>3, <1>4 DEF Predicates
<1>6. Matches(BuiltScope(fm), f)
  <2>1. /\ fm.fields.exe \in {"none", f.exe} /\ fm.fields.dstNet \in {"none", f.peer} /\ fm.fields.dstPort = f.port
        /\ (fm.carried.dir = "in") = (f.dir = "in") /\ fm.carried.srcNet \in {"none", f.peer}
        /\ fm.carried.sha256 \in {"none", f.sha256}
    BY <1>3, <1>4, <1>5, <1>d
  <2> QED
    BY <2>1, CoversFlow
<1> QED
  BY <1>1, <1>3, <1>4, <1>6, NewFormKept

LEMMA EditorDurationKept == ASSUME ToolsInv, NEW d \in {"always", "restart"}, EditorDuration(d) PROVE ToolsInv'
<1>0. FormRight
  BY DEF ToolsInv
<1>1. form' = [form EXCEPT !.dur = d, !.secs = 0] /\ UNCHANGED <<rules, aliases, scripts, backup, cmd, wanted, saved, hour>>
  BY DEF EditorDuration
<1>2. /\ DOMAIN form' = DOMAIN form /\ form'.dur = d /\ form'.secs = 0 /\ form'.id = form.id
      /\ form'.fields = form.fields /\ form'.carried = form.carried /\ form'.typed = form.typed
      /\ form'.flow = form.flow /\ form'.created = form.created
  BY <1>0, <1>1 DEF FormRight
<1>3. BuiltScope(form') = BuiltScope(form)
  BY <1>2 DEF BuiltScope
<1>4. FormRight'
  BY <1>0, <1>1, <1>2, <1>3 DEF FormRight, AllIds, BundleIds, Matches
<1> QED
  BY <1>1, <1>2, <1>4, FormStepKept

LEMMA TypesKept == ASSUME ToolsInv, NEW x \in FormInputs, Types(x) PROVE ToolsInv'
<1>0. FormRight
  BY DEF ToolsInv
<1>1. form' = [form EXCEPT !.fields[x.field] = x.value, !.typed[x.field] = x.value]
      /\ UNCHANGED <<rules, aliases, scripts, backup, cmd, wanted, saved, hour>>
  BY DEF Types
<1>2. /\ DOMAIN form' = DOMAIN form /\ form'.dur = form.dur /\ form'.secs = form.secs /\ form'.id = form.id
      /\ form'.fields = [form.fields EXCEPT ![x.field] = x.value] /\ form'.carried = form.carried
      /\ form'.typed = [form.typed EXCEPT ![x.field] = x.value]
      /\ form'.flow = form.flow /\ form'.created = form.created
  BY <1>0, <1>1 DEF FormRight
<1>3. x.field \in Shown /\ x.value # "untouched" /\ Shown \subseteq Predicates
  BY ToolsAssumption DEF Shown, Predicates
<1>4. form'.typed[x.field] = x.value /\ form'.fields[x.field] = x.value
      /\ DOMAIN form'.fields = Predicates /\ DOMAIN form'.typed = Predicates
      /\ \A p \in Predicates : p # x.field => form'.typed[p] = form.typed[p] /\ form'.fields[p] = form.fields[p]
  BY <1>0, <1>2, <1>3 DEF FormRight
<1>5. form'.typed # Untouched
  BY <1>3, <1>4, NoFormRight
<1>6. FormRight'
  BY <1>0, <1>1, <1>2, <1>3, <1>4, <1>5 DEF FormRight, AllIds, BundleIds
<1> QED
  BY <1>1, <1>2, <1>6, FormStepKept

\* The form saves what its user asked for.
LEMMA BuildsWhatWasAsked ==
  ASSUME FormRight PROVE BuiltScope(form) = AskedFor(form)
<1>1. \A p \in Predicates : BuiltScope(form)[p] = AskedFor(form)[p]
  BY DEF FormRight, BuiltScope, AskedFor
<1>2. BuiltScope(form) = [p \in Predicates |-> BuiltScope(form)[p]]
  BY DEF BuiltScope
<1>3. AskedFor(form) = [p \in Predicates |-> AskedFor(form)[p]]
  BY DEF AskedFor
<1> QED
  BY <1>1, <1>2, <1>3

LEMMA SaveFormKept == ASSUME ToolsInv, SaveForm PROVE ToolsInv'
<1>0. RulesRight /\ ListedRight /\ BackupRight /\ FormRight /\ OneBirth /\ OldCopiesGone /\ hour \in Nat \ {0}
  BY DEF ToolsInv
<1>1. form' = NoForm /\ UNCHANGED <<backup, cmd, saved, hour>>
  BY DEF SaveForm
<1>2. ListedRight' /\ BackupRight' /\ FormRight'
  BY <1>0, <1>1, ListedKept, BackupKept, FormKept
<1>3. NoForm.id = "none" /\ "none" \notin AllIds
  BY NoFormRight, ToolsAssumption DEF AllIds, BundleIds
<1>4. CASE UNCHANGED <<rules, wanted>>
  BY <1>1, <1>2, <1>3, <1>4, FormStepKept
<1>5. CASE /\ form.id = "none" => Unused # {}
           /\ LET id == IF form.id = "none" THEN Fresh ELSE form.id
                  built == RuleOf(id, form.on, form.action, form.dur, form.secs, BuiltScope(form), form.created)
              IN Upsert(built, Want(AskedFor(form), EndOf(Stamped(built)),
                                    IF form.typed = Untouched THEN form.flow ELSE NoFlow))
  <2> DEFINE id == IF form.id = "none" THEN Fresh ELSE form.id
             r == RuleOf(id, form.on, form.action, form.dur, form.secs, BuiltScope(form), form.created)
             w == Want(AskedFor(form), EndOf(Stamped(r)), IF form.typed = Untouched THEN form.flow ELSE NoFlow)
  <2>1. Upsert(r, w)
    BY <1>5
  <2>2. IsRule(r) /\ r.id = id /\ r.dur = form.dur /\ r.secs = form.secs /\ r.scope = BuiltScope(form)
        /\ r.created = form.created
    BY <1>0 DEF RuleOf, IsRule, FormRight
  <2>3. w.scope = AskedFor(form) /\ w.end = EndOf(Stamped(r))
        /\ w.flow = IF form.typed = Untouched THEN form.flow ELSE NoFlow
    BY DEF Want
  <2> HIDE DEF r, w
  <2>4. IsRule(Stamped(r)) /\ Stamped(r).scope = BuiltScope(form) /\ Stamped(r).dur = form.dur
        /\ Stamped(r).created \in 1..hour
    BY <1>0, <2>2, StampedIs
  <2>5. EndOf(Stamped(r)) \in Nat
    BY <1>0, <2>4 DEF EndOf, IsRule, Never
  <2>6. w.flow # NoFlow => Matches(Stamped(r).scope, w.flow)
    BY <1>0, <2>3, <2>4 DEF FormRight
  <2>7. RuleSays(Stamped(r), w)
    BY <1>0, <2>3, <2>4, <2>5, <2>6, BuildsWhatWasAsked DEF RuleSays
  <2>8. CASE form.id = "none"
    BY <1>1, <1>5, <2>1, <2>2, <2>7, <2>8, NewRuleKept
  <2>9. CASE form.id # "none"
    <3>1. id = form.id /\ id \in AllIds /\ form.created \in 1..hour
      BY <1>0, <2>9 DEF FormRight
    <3> HIDE DEF id
    <3>2. RulesRight'
      BY <1>1, <2>1, <2>2, <2>7, <3>1, UpsertSays
    <3>3. form.dur = "seconds" => ~Untimed(id)
      BY <3>1 DEF Untimed
    <3>4. \A c \in 1..hour : BornAt(id, c) => form.created = c
      BY <3>1 DEF BornAt
    <3>5. id \in BundleIds => form.dur # "seconds"
      BY <1>0, <3>3 DEF OneBirth
    <3>6. OneBirth'
      BY <1>1, <2>1, <2>2, <3>1, <3>3, <3>4, <3>5, UpsertBirth
    <3>7. OldCopiesGone'
      <4>1. DOMAIN wanted = DOMAIN rules
        BY <1>0 DEF RulesRight
      <4>2. \/ UNCHANGED <<rules, wanted>>
            \/ /\ DOMAIN rules' = DOMAIN rules \cup {r.id} /\ DOMAIN wanted' = DOMAIN rules'
               /\ rules'[r.id] = Stamped(r) /\ wanted'[r.id] = w
               /\ \A j \in DOMAIN rules \ {r.id} : rules'[j] = rules[j] /\ wanted'[j] = wanted[j]
        BY <2>1, <2>2, <3>1, <4>1, UpsertDoes
      <4>3. \A j \in DOMAIN rules' : \/ j \in DOMAIN rules /\ rules'[j] = rules[j]
                                     \/ j = form.id /\ rules'[j].dur = form.dur
        BY <2>2, <2>4, <3>1, <4>2
      <4>4. DOMAIN rules' \subseteq AllIds
        BY <3>2 DEF RulesRight
      <4>5. \A j \in DOMAIN rules' : form'.id # j
        BY <1>1, <1>3, <4>4
      <4>6. ASSUME cmd.kind = "toggle", NEW j \in cmd.todo, cmd.listed[j].dur # "seconds"
            PROVE  (form'.id = j => form'.dur # "seconds") /\ (j \in DOMAIN rules' => rules'[j].dur # "seconds")
        <5>1. (form.id = j => form.dur # "seconds") /\ (j \in DOMAIN rules => rules[j].dur # "seconds")
          BY <1>0, <4>6 DEF OldCopiesGone
        <5>2. j \in DOMAIN rules' => rules'[j].dur # "seconds"
          BY <4>3, <5>1
        <5>3. form'.id = j => form'.dur # "seconds"
          BY <1>1, NoFormRight
        <5> QED
          BY <5>2, <5>3
      <4> QED
        BY <1>1, <4>5, <4>6 DEF OldCopiesGone
    <3> QED
      BY <1>0, <1>1, <1>2, <3>2, <3>6, <3>7 DEF ToolsInv
  <2> QED
    BY <2>8, <2>9
<1> QED
  BY <1>4, <1>5 DEF SaveForm

LEMMA ToolsStarts == ToolsInit => ToolsInv
<1> SUFFICES ASSUME ToolsInit PROVE ToolsInv
  OBVIOUS
<1>1. rules = Nothing /\ backup = Nothing /\ form = NoForm /\ cmd = NoCommand /\ wanted = Nothing /\ saved = Nothing
      /\ hour = 1
  BY DEF ToolsInit
<1>2. DOMAIN Nothing = {} /\ NoCommand.kind = "none" /\ NoCommand.listed = Nothing
      /\ DOMAIN NoCommand = {"kind", "listed", "todo"}
  BY DEF Nothing, NoCommand
<1>3. RulesRight /\ ListedRight /\ BackupRight /\ FormRight
  BY <1>1, <1>2, NoFormRight DEF RulesRight, ListedRight, BackupRight, FormRight
<1>4. "none" \notin AllIds
  BY ToolsAssumption DEF AllIds, BundleIds
<1>5. OneBirth /\ OldCopiesGone
  BY <1>1, <1>2, <1>4, NoFormRight DEF OneBirth, OldCopiesGone, Untimed, AllIds
<1> QED
  BY <1>1, <1>3, <1>5 DEF ToolsInv

LEMMA ToolsKept == ToolsInv /\ [ToolsNext]_toolVars => ToolsInv'
<1> SUFFICES ASSUME ToolsInv, [ToolsNext]_toolVars PROVE ToolsInv'
  OBVIOUS
<1>1. CASE UNCHANGED toolVars
  BY <1>1, SMTT(30), ZenonT(30) DEF toolVars, ToolsInv, RulesRight, ListedRight,
              BackupRight, FormRight, OneBirth, OldCopiesGone, IsRule, RuleSays, EndOf, Matches, BuiltScope, Untimed, BornAt, AllIds, BundleIds
<1>2. CASE Starts
  <2>1. ASSUME NEW f \in Flags, Add(f) \/ AnswerTimed(f) PROVE ToolsInv'
    BY <2>1, AddKept, AnswerTimedKept
  <2>2. ASSUME NEW i \in RuleIds, BeginToggle(i) PROVE ToolsInv'
    BY <2>2, ListsKept DEF BeginToggle
  <2>3. ASSUME BeginImport PROVE ToolsInv'
    BY <2>3, ListsKept DEF BeginImport
  <2>4. ASSUME BeginBundleAdd PROVE ToolsInv'
    BY <2>4, ListsKept DEF BeginBundleAdd
  <2>5. ASSUME BeginBundleRemove PROVE ToolsInv'
    BY <2>5, ListsKept DEF BeginBundleRemove
  <2>6. ASSUME NEW exe, BecomesAlias(exe) PROVE ToolsInv'
    BY <2>6, SMTT(30), ZenonT(30) DEF BecomesAlias, ToolsInv, RulesRight, ListedRight,
              BackupRight, FormRight, OneBirth, OldCopiesGone, IsRule, RuleSays, EndOf, Matches, BuiltScope, Untimed, BornAt, AllIds, BundleIds
  <2> QED
    BY <1>2, <2>1, <2>2, <2>3, <2>4, <2>5, <2>6, DeleteKept, EditExistingKept, ExportKept, ImportOpensnitchKept,
       MakeRuleFromEventKept, CustomizePromptRuleKept, EditorDurationKept DEF Starts
<1>3. CASE Proceeds
  BY <1>3, ToggleKept, ImportKept, BundleAddKept, BundleRemoveKept, CommandEndsKept, TypesKept, SaveFormKept,
     HourPassesKept DEF Proceeds
<1> QED
  BY <1>1, <1>2, <1>3 DEF ToolsNext

\* Whatever client wrote a rule and through whatever forms it went, it says what
\* its author asked for: BuiltScope, TryIntoProto, Stamped and the toggle's old
\* copy lose nothing.
THEOREM SaysWhatWasAskedHolds == ToolsInit /\ [][ToolsNext]_toolVars => []SaysWhatWasAsked
<1>1. ToolsInv => SaysWhatWasAsked
  BY DEF ToolsInv, RulesRight, RuleSays, SaysWhatWasAsked, NeverOutlivesItsEnd
<1> QED
  BY <1>1, ToolsStarts, ToolsKept, PTL
=============================================================================
