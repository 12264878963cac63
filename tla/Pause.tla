------------------------------- MODULE Pause -------------------------------
(***************************************************************************)
(* Pausing and resuming enforcement: the SetPaused RPC (ipc/mod.rs), the   *)
(* timer task it leaves behind, and the two atomics they share through     *)
(* Stats::set_paused (stats.rs).                                           *)
(*                                                                         *)
(* A call or a timer runs to completion on one runtime thread, but there   *)
(* are four of them: two bodies may interleave between any two accesses to *)
(* the shared cells.  Overlap says whether they do.  Every access is its   *)
(* own step; the cells are sequentially consistent here (the code uses     *)
(* Relaxed, which could only add behaviours).                              *)
(***************************************************************************)
EXTENDS Integers

CONSTANTS
  Calls,        \* SetPaused RPCs made during a behaviour
  Durations,    \* duration_secs values a client may send
  DefaultSecs,  \* [pause] default_secs of the configuration
  MaxPauseSecs, \* MAX_PAUSE_SECS
  MaxTime,      \* bound: calls run before this second of a behaviour
  Overlap       \* may two bodies interleave?

ASSUME PauseAssumption ==
  /\ Durations \subseteq Nat /\ DefaultSecs \in Nat
  /\ MaxPauseSecs \in Nat \ {0}
  /\ MaxTime \in Nat /\ Overlap \in BOOLEAN

VARIABLES
  paused,      \* StatsInner::paused
  generation,  \* StatsInner::pause_generation
  resumeAt,    \* resume_at_ms, in seconds
  clock,
  pc,          \* where each call is
  req,         \* its request and what it computed from it
  timer        \* where the timer task of each call is

pauseVars == <<paused, generation, resumeAt, clock, pc, req, timer>>

CallStates  == {"idle", "store", "bump", "note", "spawn", "done"}
TimerStates == {"none", "sleeping", "look", "store", "bump", "note", "done"}
NoRequest   == [paused |-> FALSE, secs |-> 0, resume |-> 0, gen |-> 0,
                wake |-> 0]

PauseAt(t) ==
  /\ paused = FALSE /\ generation = 0 /\ resumeAt = 0 /\ clock = t
  /\ pc = [c \in Calls |-> "idle"]
  /\ req = [c \in Calls |-> NoRequest]
  /\ timer = [c \in Calls |-> "none"]

PauseInit == PauseAt(0)

RequestedPauseSecs(d) == IF d = 0 THEN DefaultSecs ELSE d

ResolvePauseSecs(d) ==
  IF RequestedPauseSecs(d) > MaxPauseSecs THEN MaxPauseSecs
  ELSE IF RequestedPauseSecs(d) < 1 THEN 1 ELSE RequestedPauseSecs(d)

\* Nobody else is between two of its accesses.
Alone == \/ Overlap
         \/ \A d \in Calls : /\ pc[d] \in {"idle", "done"}
                             /\ timer[d] \in {"none", "sleeping", "done"}

-----------------------------------------------------------------------------
(* The RPC *)

\* The call is authorised and, for a pause, its end is computed.
Receive(c) ==
  /\ pc[c] = "idle" /\ Alone /\ clock < MaxTime
  /\ pc' = [pc EXCEPT ![c] = "store"]
  /\ \/ req' = [req EXCEPT ![c] = NoRequest]
     \/ \E d \in Durations :
          req' = [req EXCEPT ![c] = [paused |-> TRUE, secs |-> ResolvePauseSecs(d),
                    resume |-> clock + ResolvePauseSecs(d), gen |-> 0, wake |-> 0]]
  /\ UNCHANGED <<paused, generation, resumeAt, clock, timer>>

\* Stats::set_paused, first access.
StoreFlag(c) ==
  /\ pc[c] = "store"
  /\ paused' = req[c].paused
  /\ pc' = [pc EXCEPT ![c] = "bump"]
  /\ UNCHANGED <<generation, resumeAt, clock, req, timer>>

\* Stats::set_paused, second access; the new generation is its result.
BumpGeneration(c) ==
  /\ pc[c] = "bump"
  /\ generation' = generation + 1
  /\ req' = [req EXCEPT ![c].gen = generation + 1]
  /\ pc' = [pc EXCEPT ![c] = "note"]
  /\ UNCHANGED <<paused, resumeAt, clock, timer>>

\* resume_at_ms is stored; a resume answers here.
NoteResumeAt(c) ==
  /\ pc[c] = "note"
  /\ resumeAt' = req[c].resume
  /\ pc' = [pc EXCEPT ![c] = IF req[c].paused THEN "spawn" ELSE "done"]
  /\ UNCHANGED <<paused, generation, clock, req, timer>>

\* The sleep counts from here, not from the time resume_at was computed.
SpawnTimer(c) ==
  /\ pc[c] = "spawn"
  /\ pc' = [pc EXCEPT ![c] = "done"]
  /\ timer' = [timer EXCEPT ![c] = "sleeping"]
  /\ req' = [req EXCEPT ![c].wake = clock + req[c].secs]
  /\ UNCHANGED <<paused, generation, resumeAt, clock>>

-----------------------------------------------------------------------------
(* The timer task of a pause *)

\* The sleep is over; the generation is compared with the captured one.
\* Faulty variant: wakes without comparing the generation.
WakeUnchecked(c) ==
  /\ timer[c] = "sleeping" /\ clock >= req[c].wake /\ Alone
  /\ timer' = [timer EXCEPT ![c] = "look"]
  /\ UNCHANGED <<paused, generation, resumeAt, clock, pc, req>>
TimerWakes(c) ==
  /\ timer[c] = "sleeping" /\ clock >= req[c].wake /\ Alone
  /\ timer' = [timer EXCEPT ![c] =
                 IF generation = req[c].gen THEN "look" ELSE "done"]
  /\ UNCHANGED <<paused, generation, resumeAt, clock, pc, req>>

\* is_paused, loaded after the generation.
\* Faulty variant: the flag is read the wrong way round.
LooksInverted(c) ==
  /\ timer[c] = "look"
  /\ timer' = [timer EXCEPT ![c] = IF paused THEN "done" ELSE "store"]
  /\ UNCHANGED <<paused, generation, resumeAt, clock, pc, req>>
TimerLooks(c) ==
  /\ timer[c] = "look"
  /\ timer' = [timer EXCEPT ![c] = IF paused THEN "store" ELSE "done"]
  /\ UNCHANGED <<paused, generation, resumeAt, clock, pc, req>>

\* Stats::set_paused(false), both accesses, then resume_at_ms.
TimerStores(c) ==
  /\ timer[c] = "store"
  /\ paused' = FALSE
  /\ timer' = [timer EXCEPT ![c] = "bump"]
  /\ UNCHANGED <<generation, resumeAt, clock, pc, req>>

TimerBumps(c) ==
  /\ timer[c] = "bump"
  /\ generation' = generation + 1
  /\ timer' = [timer EXCEPT ![c] = "note"]
  /\ UNCHANGED <<paused, resumeAt, clock, pc, req>>

TimerNotes(c) ==
  /\ timer[c] = "note"
  /\ resumeAt' = 0
  /\ timer' = [timer EXCEPT ![c] = "done"]
  /\ UNCHANGED <<paused, generation, clock, pc, req>>

SecondPasses ==
  /\ \/ clock < MaxTime
     \/ \E c \in Calls : timer[c] = "sleeping" /\ clock < req[c].wake
  /\ clock' = clock + 1
  /\ UNCHANGED <<paused, generation, resumeAt, pc, req, timer>>

CallStep(c)  == StoreFlag(c) \/ BumpGeneration(c) \/ NoteResumeAt(c) \/ SpawnTimer(c)
TimerStep(c) == TimerWakes(c) \/ TimerLooks(c) \/ TimerStores(c) \/ TimerBumps(c)
                \/ TimerNotes(c)

PauseNext == SecondPasses \/ \E c \in Calls : Receive(c) \/ CallStep(c) \/ TimerStep(c)

\* The runtime's timers fire and its tasks are polled; nobody has to call.
PauseFairness ==
  /\ WF_pauseVars(SecondPasses)
  /\ \A c \in Calls : WF_pauseVars(CallStep(c)) /\ WF_pauseVars(TimerStep(c))

PauseSpec == PauseInit /\ [][PauseNext]_pauseVars /\ PauseFairness

-----------------------------------------------------------------------------
(* Properties *)

\* A pause always ends by itself: whatever toggles and timers run, once the
\* flag is set it is later cleared (the promise of MAX_PAUSE_SECS).
PauseEnds == paused ~> ~paused

Quiet == \A c \in Calls : /\ pc[c] \in {"idle", "done"}
                          /\ timer[c] \in {"none", "sleeping", "done"}

\* The call that last completed set_paused, if it was a pause.
Latest(c) == pc[c] = "done" /\ req[c].paused
             /\ \A d \in Calls : d # c /\ pc[d] = "done" => req[d].gen < req[c].gen

\* A pause lasts: while no body is running, the last pause granted is in
\* force, and reported with its own end, until that end is reached; the timer
\* of an earlier, superseded pause does not cut it short.
PauseLasts ==
  Quiet => \A c \in Calls :
             Latest(c) /\ clock < req[c].resume
               => paused /\ resumeAt = req[c].resume
=============================================================================
