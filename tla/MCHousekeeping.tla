--------------------------- MODULE MCHousekeeping ---------------------------
(***************************************************************************)
(* What goes on beside the packets: the pause and its timers, the event    *)
(* log, the daemon's life under systemd and the app that follows it.  One  *)
(* of the four is at work in a behaviour; each of the others rests in a    *)
(* state it takes no step from.                                            *)
(***************************************************************************)
EXTENDS Pause, EventPipeline, Supervision, ClientLink

VARIABLE part
houseVars == <<part, pauseVars, logVars, superVars, linkStateVars>>

File(profile, no_ui, inbound, parses, fail_open) ==
    [profile |-> profile, no_ui |-> no_ui, inbound |-> inbound, parses |-> parses, fail_open |-> fail_open]
MCClockSteps == {-2, 5}
MCFiles == {File("relaxed", "absent", "allow", TRUE, FALSE), File("balanced", "allow", "absent", TRUE, FALSE),
            File("strict", "absent", "absent", TRUE, TRUE)}

\* At rest: the daemon stopped, the app closed; no call made, no verdict given.
SuperRests == SuperAt("stopped") /\ table = FALSE /\ file = CHOOSE f \in ConfigFiles : TRUE
LinkRests == LinkAt("failed", 0)
PauseRests == PauseAt(MaxTime)

MCInit ==
  \/ part = "pause" /\ PauseInit /\ LogInit /\ SuperRests /\ LinkRests
  \/ part = "log" /\ PauseRests /\ LogInit /\ SuperRests /\ LinkRests
  \/ part = "daemon" /\ PauseRests /\ LogInit /\ SuperInit /\ LinkRests
  \/ part = "app" /\ PauseRests /\ LogInit /\ SuperRests /\ LinkInit

MCNext ==
  /\ UNCHANGED part
  /\ \/ part = "pause" /\ PauseNext /\ UNCHANGED <<logVars, superVars, linkStateVars>>
     \/ part = "log" /\ LogNext /\ UNCHANGED <<pauseVars, superVars, linkStateVars>>
     \/ part = "daemon" /\ SuperNext /\ UNCHANGED <<pauseVars, logVars, linkStateVars>>
     \/ part = "app" /\ LinkNext /\ UNCHANGED <<pauseVars, logVars, superVars>>

MCSpec ==
  /\ MCInit /\ [][MCNext]_houseVars
  /\ PauseFairness /\ SuperFairness /\ LinkFairness
=============================================================================
