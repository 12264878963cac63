------------------------- MODULE HousekeepingProofs -------------------------
(***************************************************************************)
(* Proofs about what goes on beside the packets: the nftables probe        *)
(* (Supervision), the pause and its timers (Pause) and the event log       *)
(* (EventPipeline), each for every value of its constants.                 *)
(***************************************************************************)
EXTENDS Pause, EventPipeline, Supervision, FiniteSetTheorems, TLAPS

-----------------------------------------------------------------------------
(* The nftables probe *)

\* The clocks count, and no time is counted while the table is there.
ProbeClocks ==
  /\ gone \in Nat /\ uptime \in Nat /\ probeIn \in 0..(ProbeInterval - 1)
  /\ table \in BOOLEAN
  /\ table => gone = 0

\* A run starts with the probe due at its first tick.
ProbeFirst ==
  phase \in {"store", "bind", "chown", "chmod", "queue"} => uptime = 0 /\ probeIn = 0

\* While the table is gone and status does not say so, the probe comes, or is
\* due, before an interval is over; in the first tick of a run it comes at once.
ProbeComes ==
  phase \in {"ready", "ebpf", "running"} /\ "probe" \notin due /\ ~table /\ presence # "absent" =>
    gone + probeIn < ProbeInterval \/ (uptime = 0 /\ probeIn = 0)

ProbeInv == ProbeClocks /\ ProbeFirst /\ ProbeComes

LEMMA ProbeStarts == SuperInit => ProbeInv
BY SuperAssumption DEF SuperInit, SuperAt, ProbeInv, ProbeClocks, ProbeFirst, ProbeComes

LEMMA ProbeKept == ProbeInv /\ [SuperNext]_superVars => ProbeInv'
<1> SUFFICES ASSUME ProbeInv, [SuperNext]_superVars PROVE ProbeInv'
  OBVIOUS
<1> USE SuperAssumption DEF ProbeInv, timeVars, netVars
<1>1. CASE LoadConfig
  BY <1>1 DEF LoadConfig, Goes, ProbeClocks, ProbeFirst, ProbeComes
<1>2. CASE OpenStore \/ BindSocket \/ StartFails \/ Restarts \/ SystemdKills \/ Reload
          \/ NotifyReady \/ \E ok \in BOOLEAN : ChownSocket(ok) \/ ChmodSocket(ok) \/ Shutdown(ok)
  BY <1>2 DEF OpenStore, BindSocket, StartFails, Restarts, SystemdKills, Reload, NotifyReady,
              ChownSocket, ChmodSocket, Shutdown, Goes, Ready, ProbeClocks, ProbeFirst, ProbeComes
<1>3. CASE BindQueue
  BY <1>3 DEF BindQueue, Goes, ProbeClocks, ProbeFirst, ProbeComes
<1>4. CASE (\E l \in {"queue", "connect"} : StartEbpf(l)) \/ (\E packet \in BOOLEAN : WorkerLoop(packet))
          \/ Wedges \/ WatchdogTick
  BY <1>4 DEF StartEbpf, WorkerLoop, Wedges, WatchdogTick, Goes, Ready, ProbeClocks, ProbeFirst, ProbeComes
<1>5. ASSUME NEW answers \in BOOLEAN, Probe(answers)
      PROVE  ProbeInv'
  BY <1>5 DEF Probe, ProbeClocks, ProbeFirst, ProbeComes
<1>6. CASE Tick
  <2>1. /\ phase \in {"ready", "ebpf", "running"} /\ due = {} /\ UNCHANGED <<phase, table, presence>>
        /\ probeIn = 0 => "probe" \in due'
    BY <1>6 DEF Tick
  <2>2. uptime' \in Nat /\ uptime' # 0
    BY <1>6 DEF Tick, Cap, ProbeClocks
  <2>3. gone' \in Nat /\ gone' <= gone + 1 /\ (table => gone' = 0)
    BY <1>6 DEF Tick, Cap, ProbeClocks
  <2>4. probeIn' = IF probeIn = 0 THEN ProbeInterval - 1 ELSE probeIn - 1
    BY <1>6 DEF Tick
  <2>5. ProbeClocks'
    BY <2>1, <2>2, <2>3, <2>4 DEF ProbeClocks
  <2>6. ProbeComes'
    <3> SUFFICES ASSUME probeIn # 0, ~table, presence # "absent" PROVE gone' + probeIn' < ProbeInterval
      BY <2>1 DEF ProbeComes
    <3>1. gone + probeIn < ProbeInterval
      BY <2>1 DEF ProbeComes
    <3>2. gone \in Int /\ probeIn \in Int /\ ProbeInterval \in Int /\ probeIn' = probeIn - 1
      BY <2>4 DEF ProbeClocks
    <3>3. gone' \in Int /\ gone' <= gone + 1
      BY <2>3
    <3>4. \A a, b, m, n \in Int : a + b < n /\ m <= a + 1 => m + (b - 1) < n
      OBVIOUS
    <3> QED
      BY <3>1, <3>2, <3>3, <3>4
  <2>7. ProbeFirst'
    BY <2>1 DEF ProbeFirst
  <2> QED
    BY <2>5, <2>6, <2>7
<1>7. ASSUME NEW d \in ClockSteps, ClockStep(d)
      PROVE  ProbeInv'
  BY <1>7 DEF ClockStep, ProbeClocks, ProbeFirst, ProbeComes
<1>8. CASE TableChanges
  BY <1>8 DEF TableChanges, ProbeClocks, ProbeFirst, ProbeComes
<1>9. CASE UNCHANGED <<phase, due, uptime, probeIn, gone, table, presence>>
  BY <1>9 DEF ProbeClocks, ProbeFirst, ProbeComes
<1> QED
  BY <1>1, <1>2, <1>3, <1>4, <1>5, <1>6, <1>7, <1>8, <1>9
     DEF SuperNext, Housekeeping, StartUp, FileChanges, superVars

\* A table that has been gone for longer than the probe's interval, with every
\* probe answered, is reported (spawn_nft_presence_probe, enforcing_heuristic).
THEOREM GoneIsReportedHolds == SuperInit /\ [][SuperNext]_superVars => []GoneIsReported
<1>1. ProbeInv => GoneIsReported
  <2> SUFFICES ASSUME ProbeInv, phase = "running", due = {}, gone > ProbeInterval, uptime > Grace
               PROVE  ~Enforcing
    BY DEF GoneIsReported
  <2>1. ~table /\ gone + probeIn >= ProbeInterval /\ uptime # 0
    BY SuperAssumption DEF ProbeInv, ProbeClocks
  <2>2. ~(gone + probeIn < ProbeInterval)
    BY <2>1, SuperAssumption DEF ProbeInv, ProbeClocks
  <2>3. presence = "absent"
    BY <2>1, <2>2 DEF ProbeInv, ProbeComes
  <2>4. ~(uptime <= Grace)
    BY SuperAssumption DEF ProbeInv, ProbeClocks
  <2> QED
    BY <2>3, <2>4 DEF Enforcing
<1> QED
  BY <1>1, ProbeStarts, ProbeKept, PTL

-----------------------------------------------------------------------------
(* The pause, when no two bodies interleave *)

InCall(c)  == pc[c] \in {"store", "bump", "note", "spawn"}
InTimer(c) == timer[c] \in {"look", "store", "bump", "note"}
Bumped(c)  == pc[c] \in {"note", "spawn", "done"}

PauseTypes ==
  /\ paused \in BOOLEAN /\ generation \in Nat /\ resumeAt \in Nat /\ clock \in Nat
  /\ pc \in [Calls -> CallStates] /\ timer \in [Calls -> TimerStates]
  /\ req \in [Calls -> [paused : BOOLEAN, secs : Nat, resume : Nat, gen : Nat, wake : Nat]]

\* A body runs alone, and a timer is what a granted pause left behind.
OneBody ==
  /\ \A c \in Calls : timer[c] # "none" => pc[c] = "done"
  /\ \A c, d \in Calls : c # d /\ (InCall(c) \/ InTimer(c)) => ~InCall(d) /\ ~InTimer(d)

\* Each call took a generation of its own.
OwnGeneration ==
  /\ \A c \in Calls : Bumped(c) => req[c].gen <= generation
  /\ \A c, d \in Calls : c # d /\ Bumped(c) /\ Bumped(d) => req[c].gen # req[d].gen

\* What the running call has written is still there.
CallWrote ==
  \A c \in Calls :
    /\ pc[c] \in {"bump", "note", "spawn"} => paused = req[c].paused
    /\ pc[c] \in {"note", "spawn"} => req[c].gen = generation
    /\ pc[c] = "spawn" => resumeAt = req[c].resume /\ req[c].paused

\* The sleep is counted after the end was computed, so it never falls short.
SleepsLongEnough ==
  \A c \in Calls :
    /\ InCall(c) /\ req[c].paused => req[c].resume <= clock + req[c].secs
    /\ timer[c] = "sleeping" => req[c].resume <= req[c].wake
    /\ InTimer(c) => req[c].resume <= clock

\* While the last pause has time left, no timer is at work and, between two
\* calls, the cells are as it left them.
LastPauseStands ==
  \A c \in Calls :
    Latest(c) /\ clock < req[c].resume =>
      /\ \A d \in Calls : ~InTimer(d)
      /\ (\A d \in Calls : ~InCall(d)) => paused /\ resumeAt = req[c].resume

PauseInv ==
  /\ ~Overlap /\ PauseTypes /\ OneBody /\ OwnGeneration /\ CallWrote
  /\ SleepsLongEnough /\ LastPauseStands

LEMMA PauseStarts == PauseInit /\ ~Overlap => PauseInv
<1> SUFFICES ASSUME PauseInit, ~Overlap PROVE PauseInv
  OBVIOUS
<1>1. PauseTypes
  BY DEF PauseInit, PauseAt, PauseTypes, NoRequest, CallStates, TimerStates
<1>2. \A c \in Calls : pc[c] = "idle" /\ timer[c] = "none"
  BY DEF PauseInit, PauseAt
<1>3. OneBody /\ OwnGeneration /\ CallWrote /\ SleepsLongEnough /\ LastPauseStands
  BY <1>2 DEF OneBody, OwnGeneration, CallWrote, SleepsLongEnough, LastPauseStands, Latest,
              InCall, InTimer, Bumped
<1> QED
  BY <1>1, <1>3 DEF PauseInv

\* Alone, without overlap, is: nobody is in a body.
LEMMA AloneMeans ==
  ASSUME PauseInv, Alone
  PROVE  \A d \in Calls : ~InCall(d) /\ ~InTimer(d)
BY DEF PauseInv, PauseTypes, Alone, InCall, InTimer, CallStates, TimerStates

LEMMA SecsPositive ==
  ASSUME NEW d \in Durations
  PROVE  ResolvePauseSecs(d) \in Nat
BY PauseAssumption DEF ResolvePauseSecs, RequestedPauseSecs

LEMMA ReceiveKeeps ==
  ASSUME PauseInv, NEW c \in Calls, Receive(c)
  PROVE  PauseInv'
<1> USE DEF PauseInv
<1>0. \A d \in Calls : ~InCall(d) /\ ~InTimer(d)
  BY AloneMeans DEF Receive
<1>1. /\ pc[c] = "idle" /\ pc' = [pc EXCEPT ![c] = "store"]
      /\ UNCHANGED <<paused, generation, resumeAt, clock, timer>>
  BY DEF Receive
<1>2. PICK r \in [paused : BOOLEAN, secs : Nat, resume : Nat, gen : Nat, wake : Nat] :
        req' = [req EXCEPT ![c] = r] /\ (r.paused => r.resume = clock + r.secs)
  <2>1. CASE req' = [req EXCEPT ![c] = NoRequest]
    <3>1. /\ NoRequest \in [paused : BOOLEAN, secs : Nat, resume : Nat, gen : Nat, wake : Nat]
          /\ ~NoRequest.paused
      BY DEF NoRequest
    <3> QED
      BY <2>1, <3>1
  <2>2. ASSUME NEW d \in Durations,
               req' = [req EXCEPT ![c] = [paused |-> TRUE, secs |-> ResolvePauseSecs(d),
                         resume |-> clock + ResolvePauseSecs(d), gen |-> 0, wake |-> 0]]
        PROVE  \E r \in [paused : BOOLEAN, secs : Nat, resume : Nat, gen : Nat, wake : Nat] :
                 req' = [req EXCEPT ![c] = r] /\ (r.paused => r.resume = clock + r.secs)
    <3> DEFINE given == [paused |-> TRUE, secs |-> ResolvePauseSecs(d),
                         resume |-> clock + ResolvePauseSecs(d), gen |-> 0, wake |-> 0]
    <3>1. /\ given \in [paused : BOOLEAN, secs : Nat, resume : Nat, gen : Nat, wake : Nat]
          /\ given.resume = clock + given.secs
      BY SecsPositive DEF PauseTypes
    <3>2. req' = [req EXCEPT ![c] = given]
      BY <2>2
    <3> HIDE DEF given
    <3> QED
      BY <3>1, <3>2
  <2> QED
    BY <2>1, <2>2 DEF Receive
<1>3. PauseTypes'
  BY <1>1, <1>2 DEF PauseTypes, CallStates
<1>4. \A d \in Calls \ {c} : pc'[d] = pc[d] /\ req'[d] = req[d]
  BY <1>1, <1>2 DEF PauseTypes
<1>5. pc'[c] = "store" /\ req'[c] = r
  BY <1>1, <1>2 DEF PauseTypes
<1>6. OneBody'
  BY <1>0, <1>1, <1>4, <1>5 DEF OneBody, InCall, InTimer
<1>7. OwnGeneration' /\ CallWrote' /\ SleepsLongEnough'
  BY <1>0, <1>1, <1>2, <1>3, <1>4, <1>5
     DEF OwnGeneration, CallWrote, SleepsLongEnough, Bumped, InCall, InTimer, OneBody, PauseTypes
<1>8. LastPauseStands'
  <2>1. InCall(c)'
    BY <1>5 DEF InCall
  <2>2. \A d \in Calls : ~InTimer(d)'
    BY <1>0, <1>1 DEF InTimer
  <2> QED
    BY <2>1, <2>2 DEF LastPauseStands
<1> QED
  BY <1>3, <1>6, <1>7, <1>8

\* Who is in a call is alone, and no timer of its own is about.
LEMMA CallerIsAlone ==
  ASSUME PauseInv, NEW c \in Calls, InCall(c)
  PROVE  /\ \A d \in Calls : ~InTimer(d) /\ (d # c => ~InCall(d))
         /\ timer[c] = "none"
BY DEF PauseInv, OneBody, InCall, InTimer

\* StoreFlag and BumpGeneration: the call stays in its body.
LEMMA SetPausedKeeps ==
  ASSUME PauseInv, NEW c \in Calls, StoreFlag(c) \/ BumpGeneration(c)
  PROVE  PauseInv'
<1> USE DEF PauseInv
<1>1. /\ InCall(c) /\ InCall(c)' /\ pc' = [pc EXCEPT ![c] = pc'[c]]
      /\ UNCHANGED <<resumeAt, clock, timer>>
  BY DEF StoreFlag, BumpGeneration, InCall, PauseTypes
<1>2. /\ \A d \in Calls : ~InTimer(d) /\ (d # c => ~InCall(d))
      /\ timer[c] = "none"
  BY <1>1, CallerIsAlone
<1>3. \A d \in Calls \ {c} : pc'[d] = pc[d] /\ req'[d] = req[d]
  BY DEF StoreFlag, BumpGeneration, PauseTypes
<1>4. CASE StoreFlag(c)
  <2>1. PauseTypes'
    BY <1>4 DEF StoreFlag, PauseTypes, CallStates
  <2>2. /\ paused' = req[c].paused /\ generation' = generation /\ req' = req
        /\ pc[c] = "store" /\ pc'[c] = "bump"
    BY <1>4 DEF StoreFlag, PauseTypes
  <2>3. OneBody' /\ SleepsLongEnough'
    BY <1>1, <1>2, <1>3, <2>2 DEF OneBody, SleepsLongEnough, InCall, InTimer
  <2>4. OwnGeneration'
    BY <1>1, <1>2, <1>3, <2>2 DEF OwnGeneration, Bumped
  <2>5. CallWrote'
    BY <1>1, <1>2, <1>3, <2>2 DEF CallWrote, InCall
  <2>6. LastPauseStands'
    BY <1>1, <1>2 DEF LastPauseStands, InTimer
  <2> QED
    BY <2>1, <2>3, <2>4, <2>5, <2>6
<1>5. CASE BumpGeneration(c)
  <2>1. /\ paused' = paused /\ generation' = generation + 1 /\ pc[c] = "bump" /\ pc'[c] = "note"
        /\ req' = [req EXCEPT ![c].gen = generation + 1]
    BY <1>5 DEF BumpGeneration, PauseTypes
  <2>2. /\ req'[c].gen = generation + 1 /\ req'[c].paused = req[c].paused
        /\ req'[c].secs = req[c].secs /\ req'[c].resume = req[c].resume
    BY <2>1 DEF PauseTypes
  <2>3. PauseTypes'
    BY <1>5 DEF BumpGeneration, PauseTypes, CallStates
  <2>4. OneBody' /\ SleepsLongEnough'
    BY <1>1, <1>2, <1>3, <2>1, <2>2 DEF OneBody, SleepsLongEnough, InCall, InTimer
  <2>5. OwnGeneration'
    BY <1>1, <1>2, <1>3, <2>1, <2>2 DEF OwnGeneration, Bumped, PauseTypes
  <2>6. CallWrote'
    BY <1>1, <1>2, <1>3, <2>1, <2>2 DEF CallWrote, InCall
  <2>7. LastPauseStands'
    BY <1>1, <1>2 DEF LastPauseStands, InTimer
  <2> QED
    BY <2>3, <2>4, <2>5, <2>6, <2>7
<1> QED
  BY <1>4, <1>5

\* NoteResumeAt and SpawnTimer: a call that ends is the latest.
LEMMA CallEndsKeeps ==
  ASSUME PauseInv, NEW c \in Calls, NoteResumeAt(c) \/ SpawnTimer(c)
  PROVE  PauseInv'
<1> USE DEF PauseInv
<1>1. InCall(c) /\ Bumped(c) /\ UNCHANGED <<paused, generation, clock>>
  BY DEF NoteResumeAt, SpawnTimer, InCall, Bumped
<1>2. /\ \A d \in Calls : ~InTimer(d) /\ (d # c => ~InCall(d))
      /\ timer[c] = "none"
  BY <1>1, CallerIsAlone
<1>3. \A d \in Calls \ {c} : pc'[d] = pc[d] /\ req'[d] = req[d] /\ timer'[d] = timer[d]
  BY DEF NoteResumeAt, SpawnTimer, PauseTypes
<1>4. req[c].gen = generation /\ pc'[c] \in {"spawn", "done"} /\ paused = req[c].paused
  BY DEF NoteResumeAt, SpawnTimer, PauseTypes, CallWrote
<1>5. /\ req'[c].gen = req[c].gen /\ req'[c].paused = req[c].paused
      /\ req'[c].secs = req[c].secs /\ req'[c].resume = req[c].resume
  BY DEF NoteResumeAt, SpawnTimer, PauseTypes
<1>6. PauseTypes'
  BY DEF NoteResumeAt, SpawnTimer, PauseTypes, CallStates, TimerStates
<1>7. \A d \in Calls : ~InTimer(d)'
  BY <1>2, <1>3 DEF InTimer, NoteResumeAt, SpawnTimer, PauseTypes
<1>8. OneBody'
  BY <1>2, <1>3, <1>7, ZenonT(60) DEF OneBody, InCall, InTimer, NoteResumeAt, SpawnTimer, PauseTypes
<1>9. OwnGeneration'
  BY <1>1, <1>3, <1>4, <1>5 DEF OwnGeneration, Bumped, PauseTypes
<1>10. resumeAt' = req[c].resume /\ (pc'[c] = "spawn" => req[c].paused)
  BY DEF NoteResumeAt, SpawnTimer, PauseTypes, CallWrote
<1>11. CallWrote'
  BY <1>1, <1>2, <1>3, <1>4, <1>5, <1>10 DEF CallWrote, InCall
<1>12. timer'[c] = "sleeping" => req'[c].wake = clock + req[c].secs /\ req[c].paused
  BY <1>2 DEF NoteResumeAt, SpawnTimer, PauseTypes, CallWrote
<1>13. SleepsLongEnough'
  BY <1>1, <1>2, <1>3, <1>5, <1>7, <1>12 DEF SleepsLongEnough, InCall, InTimer
<1>14. LastPauseStands'
  <2> SUFFICES ASSUME NEW d \in Calls, Latest(d)', \A e \in Calls : ~InCall(e)'
               PROVE  paused' /\ resumeAt' = req'[d].resume
    BY <1>7 DEF LastPauseStands
  <2>1. pc'[c] = "done"
    BY <1>4 DEF InCall
  <2>2. d = c
    BY <2>1, <1>3, <1>4, <1>5 DEF Latest, OwnGeneration, Bumped, PauseTypes
  <2> QED
    BY <2>2, <1>1, <1>4, <1>5, <1>10 DEF Latest
<1> QED
  BY <1>6, <1>8, <1>9, <1>11, <1>13, <1>14

\* TimerWakes: only the timer of the last call finds its own generation.
LEMMA TimerWakesKeeps ==
  ASSUME PauseInv, NEW c \in Calls, TimerWakes(c)
  PROVE  PauseInv'
<1> USE DEF PauseInv
<1>0. \A d \in Calls : ~InCall(d) /\ ~InTimer(d)
  BY AloneMeans DEF TimerWakes
<1>1. /\ timer[c] = "sleeping" /\ clock >= req[c].wake
      /\ UNCHANGED <<paused, generation, resumeAt, clock, pc, req>>
  BY DEF TimerWakes
<1>2. /\ timer'[c] = (IF generation = req[c].gen THEN "look" ELSE "done")
      /\ \A d \in Calls \ {c} : timer'[d] = timer[d]
  BY DEF TimerWakes, PauseTypes
<1>3. PauseTypes'
  BY DEF TimerWakes, PauseTypes, TimerStates
<1>4. pc[c] = "done" /\ req[c].resume <= clock
  BY <1>1 DEF OneBody, SleepsLongEnough, PauseTypes
<1>5. \A d \in Calls \ {c} : ~InTimer(d)'
  BY <1>0, <1>2 DEF InTimer
<1>6. \A d \in Calls : ~InCall(d)'
  BY <1>0, <1>1 DEF InCall
<1>7. OneBody'
  BY <1>1, <1>2, <1>4, <1>5, <1>6 DEF OneBody
<1>8. OwnGeneration' /\ CallWrote'
  BY <1>1 DEF OwnGeneration, CallWrote, Bumped
<1>9. SleepsLongEnough'
  BY <1>1, <1>2, <1>4, <1>5, <1>6 DEF SleepsLongEnough
<1>10. LastPauseStands'
  <2> SUFFICES ASSUME NEW d \in Calls, Latest(d), clock < req[d].resume
               PROVE  ~InTimer(c)' /\ paused /\ resumeAt = req[d].resume
    BY <1>1, <1>5 DEF LastPauseStands, Latest
  <2>1. c # d
    BY <1>4 DEF PauseTypes
  <2>2. generation # req[c].gen
    BY <2>1, <1>4 DEF Latest, OwnGeneration, Bumped, PauseTypes
  <2> QED
    BY <2>2, <1>0, <1>2 DEF InTimer, LastPauseStands
<1> QED
  BY <1>3, <1>7, <1>8, <1>9, <1>10

\* The steps of a timer at work: there is then no pause with time left.
LEMMA TimerWorksKeeps ==
  ASSUME PauseInv, NEW c \in Calls,
         TimerLooks(c) \/ TimerStores(c) \/ TimerBumps(c) \/ TimerNotes(c)
  PROVE  PauseInv'
<1> USE DEF PauseInv
<1>1. InTimer(c) /\ UNCHANGED <<clock, pc, req>>
  BY DEF TimerLooks, TimerStores, TimerBumps, TimerNotes, InTimer
<1>2. /\ timer'[c] \in {"store", "bump", "note", "done"}
      /\ \A d \in Calls \ {c} : timer'[d] = timer[d]
  BY DEF TimerLooks, TimerStores, TimerBumps, TimerNotes, PauseTypes
<1>3. /\ pc[c] = "done"
      /\ \A d \in Calls : ~InCall(d) /\ (d # c => ~InTimer(d))
  BY <1>1 DEF OneBody, InTimer, InCall
<1>4. PauseTypes'
  <2>1. timer' \in [Calls -> TimerStates] /\ UNCHANGED <<clock, pc, req>>
    BY DEF TimerLooks, TimerStores, TimerBumps, TimerNotes, PauseTypes, TimerStates
  <2>2. paused' = paused \/ paused' = FALSE
    BY Zenon DEF TimerLooks, TimerStores, TimerBumps, TimerNotes
  <2>3. generation' \in {generation, generation + 1} /\ resumeAt' \in {resumeAt, 0}
    BY DEF TimerLooks, TimerStores, TimerBumps, TimerNotes
  <2>4. paused' \in BOOLEAN
    BY <2>2, Zenon DEF PauseTypes
  <2>5. generation' \in Nat /\ resumeAt' \in Nat /\ clock' \in Nat
    BY <2>1, <2>3 DEF PauseTypes
  <2> QED
    BY <2>1, <2>4, <2>5 DEF PauseTypes
<1>5. generation' >= generation
  BY DEF TimerLooks, TimerStores, TimerBumps, TimerNotes, PauseTypes
<1>6. \A d \in Calls \ {c} : ~InTimer(d)'
  BY <1>2, <1>3 DEF InTimer
<1>7. \A d \in Calls : ~InCall(d)'
  BY <1>1, <1>3 DEF InCall
<1>8. OneBody'
  BY <1>1, <1>2, <1>3, <1>6, <1>7 DEF OneBody
<1>9. OwnGeneration'
  BY <1>1, <1>4, <1>5 DEF OwnGeneration, Bumped, PauseTypes
<1>10. CallWrote'
  BY <1>7 DEF CallWrote, InCall
<1>11. req[c].resume <= clock
  BY <1>1 DEF SleepsLongEnough
<1>12. SleepsLongEnough'
  BY <1>1, <1>2, <1>6, <1>7, <1>11 DEF SleepsLongEnough
<1>13. \A d \in Calls : ~(Latest(d) /\ clock < req[d].resume)
  BY <1>1 DEF LastPauseStands
<1>14. LastPauseStands'
  BY <1>1, <1>13 DEF LastPauseStands, Latest
<1> QED
  BY <1>4, <1>8, <1>9, <1>10, <1>12, <1>14

LEMMA SecondKeeps ==
  ASSUME PauseInv, SecondPasses
  PROVE  PauseInv'
<1> USE DEF PauseInv
<1>1. clock' = clock + 1 /\ UNCHANGED <<paused, generation, resumeAt, pc, req, timer>>
  BY DEF SecondPasses
<1>2. PauseTypes'
  BY <1>1 DEF PauseTypes
<1>3. OneBody' /\ OwnGeneration' /\ CallWrote'
  BY <1>1 DEF OneBody, OwnGeneration, CallWrote, InCall, InTimer, Bumped
<1>4. SleepsLongEnough'
  <2> SUFFICES ASSUME NEW c \in Calls
               PROVE  /\ InCall(c) /\ req[c].paused => req[c].resume <= clock + 1 + req[c].secs
                      /\ timer[c] = "sleeping" => req[c].resume <= req[c].wake
                      /\ InTimer(c) => req[c].resume <= clock + 1
    BY <1>1 DEF SleepsLongEnough, InCall, InTimer
  <2>1. req[c].resume \in Nat /\ req[c].secs \in Nat /\ clock \in Nat
    BY DEF PauseTypes
  <2> QED
    BY <2>1 DEF SleepsLongEnough
<1>5. LastPauseStands'
  <2> SUFFICES ASSUME NEW c \in Calls, Latest(c), clock + 1 < req[c].resume
               PROVE  /\ \A d \in Calls : ~InTimer(d)
                      /\ (\A d \in Calls : ~InCall(d)) => paused /\ resumeAt = req[c].resume
    BY <1>1 DEF LastPauseStands, Latest, InCall, InTimer
  <2>1. clock < req[c].resume
    BY DEF PauseTypes
  <2> QED
    BY <2>1 DEF LastPauseStands
<1> QED
  BY <1>2, <1>3, <1>4, <1>5

LEMMA PauseKept == PauseInv /\ [PauseNext]_pauseVars => PauseInv'
<1> SUFFICES ASSUME PauseInv, [PauseNext]_pauseVars PROVE PauseInv'
  OBVIOUS
<1>1. CASE UNCHANGED pauseVars
  BY <1>1 DEF pauseVars, PauseInv, PauseTypes, OneBody, OwnGeneration, CallWrote, SleepsLongEnough,
              LastPauseStands, Latest, InCall, InTimer, Bumped
<1>2. CASE SecondPasses
  BY <1>2, SecondKeeps
<1>3. ASSUME NEW c \in Calls, Receive(c) \/ CallStep(c) \/ TimerStep(c)
      PROVE  PauseInv'
  BY <1>3, ReceiveKeeps, SetPausedKeeps, CallEndsKeeps, TimerWakesKeeps, TimerWorksKeeps
     DEF CallStep, TimerStep
<1> QED
  BY <1>1, <1>2, <1>3 DEF PauseNext

\* The pause granted last is in force until its own end, and no timer of an
\* earlier one cuts it short, as long as no two bodies interleave (the SetPaused
\* handler and the task it spawns).
THEOREM PauseLastsHolds == PauseInit /\ ~Overlap /\ [][PauseNext]_pauseVars => []PauseLasts
<1>1. PauseInv => PauseLasts
  <2> SUFFICES ASSUME PauseInv, Quiet, NEW c \in Calls, Latest(c), clock < req[c].resume
               PROVE  paused /\ resumeAt = req[c].resume
    BY DEF PauseLasts
  <2>1. \A d \in Calls : ~InCall(d)
    BY DEF Quiet, InCall
  <2> QED
    BY <2>1 DEF PauseInv, LastPauseStands
<1> QED
  BY <1>1, PauseStarts, PauseKept, PTL

-----------------------------------------------------------------------------
(* The event log *)

\* The rows under way, and the verdicts that ought to be among them by now.
Somewhere == Range(queue) \cup Range(batch) \cup Range(stored) \cup pruned
Due == {v \in Delivered : action[v] = "Allow" => v <= passed}

LogTypes ==
  /\ action \in Seq({"Allow", "Refuse"})
  /\ published \in Nat /\ passed \in Nat /\ dropped \in Nat
  /\ queue \in Seq(Nat) /\ batch \in Seq(Nat) /\ stored \in Seq(Nat)
  /\ passed <= published /\ published <= Len(action)

\* No row twice in one place, and no row in two places.
RowsApart ==
  /\ IsInjective(queue) /\ IsInjective(batch) /\ IsInjective(stored)
  /\ Range(queue) \cap Range(batch) = {} /\ Range(queue) \cap Range(stored) = {}
  /\ Range(batch) \cap Range(stored) = {}
  /\ pruned \cap (Range(queue) \cup Range(batch) \cup Range(stored)) = {}

\* No row before its verdict is delivered and, for an allow, read from the feed.
RowsAreDue == Somewhere \subseteq Due

LostAreCounted == IsFiniteSet(Due \ Somewhere) /\ Cardinality(Due \ Somewhere) <= dropped

LogInv == LogTypes /\ RowsApart /\ RowsAreDue /\ LostAreCounted

\* What appending, taking the head and joining do to the elements of a sequence.
LEMMA AppendRange ==
  ASSUME NEW s \in Seq(Nat), NEW v \in Nat
  PROVE  /\ Append(s, v) \in Seq(Nat)
         /\ Range(Append(s, v)) = Range(s) \cup {v}
         /\ IsInjective(s) /\ v \notin Range(s) => IsInjective(Append(s, v))
<1>1. /\ Append(s, v) \in Seq(Nat) /\ DOMAIN s = 1..Len(s) /\ Len(s) \in Nat
      /\ DOMAIN Append(s, v) = 1..(Len(s) + 1)
      /\ \A i \in 1..Len(s) : Append(s, v)[i] = s[i]
      /\ Append(s, v)[Len(s) + 1] = v
  OBVIOUS
<1>2. \A i \in 1..(Len(s) + 1) : i \in 1..Len(s) \/ i = Len(s) + 1
  BY <1>1
<1>3. Range(Append(s, v)) = Range(s) \cup {v}
  <2>1. Range(Append(s, v)) \subseteq Range(s) \cup {v}
    BY <1>1, <1>2 DEF Range
  <2>2. v \in Range(Append(s, v))
    BY <1>1 DEF Range
  <2>3. Range(s) \subseteq Range(Append(s, v))
    BY <1>1 DEF Range
  <2> QED
    BY <2>1, <2>2, <2>3
<1>4. ASSUME IsInjective(s), v \notin Range(s)
      PROVE  IsInjective(Append(s, v))
  BY <1>1, <1>2, <1>4 DEF IsInjective, Range
<1> QED
  BY <1>1, <1>3, <1>4

LEMMA TailRange ==
  ASSUME NEW s \in Seq(Nat), s # <<>>
  PROVE  /\ Tail(s) \in Seq(Nat) /\ Head(s) \in Range(s)
         /\ Range(s) = Range(Tail(s)) \cup {Head(s)}
         /\ IsInjective(s) => IsInjective(Tail(s)) /\ Head(s) \notin Range(Tail(s))
<1>1. /\ Tail(s) \in Seq(Nat) /\ DOMAIN s = 1..Len(s) /\ Len(s) \in Nat \ {0}
      /\ DOMAIN Tail(s) = 1..(Len(s) - 1)
      /\ \A i \in 1..(Len(s) - 1) : Tail(s)[i] = s[i + 1]
      /\ Head(s) = s[1]
  OBVIOUS
<1>2. /\ \A i \in 1..Len(s) : i = 1 \/ (i - 1 \in 1..(Len(s) - 1) /\ (i - 1) + 1 = i)
      /\ \A i \in 1..(Len(s) - 1) : i + 1 \in 1..Len(s) /\ i + 1 # 1
      /\ 1 \in 1..Len(s)
  BY <1>1
<1>3. Range(s) = Range(Tail(s)) \cup {Head(s)}
  <2>1. Range(s) \subseteq Range(Tail(s)) \cup {Head(s)}
    <3> SUFFICES ASSUME NEW i \in 1..Len(s), i # 1 PROVE s[i] \in Range(Tail(s))
      BY <1>1 DEF Range
    <3>1. i - 1 \in DOMAIN Tail(s) /\ Tail(s)[i - 1] = s[i]
      BY <1>1, <1>2
    <3> QED
      BY <3>1 DEF Range
  <2>2. Head(s) \in Range(s)
    BY <1>1, <1>2 DEF Range
  <2>3. Range(Tail(s)) \subseteq Range(s)
    BY <1>1, <1>2 DEF Range
  <2> QED
    BY <2>1, <2>2, <2>3
<1>4. ASSUME IsInjective(s)
      PROVE  IsInjective(Tail(s)) /\ Head(s) \notin Range(Tail(s))
  <2>1. Head(s) \notin Range(Tail(s))
    BY <1>1, <1>2, <1>4 DEF IsInjective, Range
  <2>2. IsInjective(Tail(s))
    <3> SUFFICES ASSUME NEW i \in 1..(Len(s) - 1), NEW j \in 1..(Len(s) - 1), Tail(s)[i] = Tail(s)[j]
                 PROVE  i = j
      BY <1>1 DEF IsInjective
    <3>1. i + 1 = j + 1
      BY <1>1, <1>2, <1>4 DEF IsInjective
    <3> QED
      BY <3>1
  <2> QED
    BY <2>1, <2>2
<1> QED
  BY <1>1, <1>3, <1>4

LEMMA JoinRange ==
  ASSUME NEW s \in Seq(Nat), NEW t \in Seq(Nat)
  PROVE  /\ s \o t \in Seq(Nat)
         /\ Range(s \o t) = Range(s) \cup Range(t)
         /\ IsInjective(s) /\ IsInjective(t) /\ Range(s) \cap Range(t) = {} => IsInjective(s \o t)
<1>1. /\ s \o t \in Seq(Nat) /\ DOMAIN s = 1..Len(s) /\ Len(s) \in Nat
      /\ DOMAIN t = 1..Len(t) /\ Len(t) \in Nat /\ DOMAIN (s \o t) = 1..(Len(s) + Len(t))
      /\ \A i \in 1..Len(s) : (s \o t)[i] = s[i]
      /\ \A i \in 1..(Len(s) + Len(t)) : i > Len(s) => (s \o t)[i] = t[i - Len(s)]
  OBVIOUS
<1>2. /\ \A i \in 1..(Len(s) + Len(t)) : i \in 1..Len(s) \/ (i > Len(s) /\ i - Len(s) \in 1..Len(t))
      /\ \A i \in 1..Len(s) : i \in 1..(Len(s) + Len(t))
      /\ \A i \in 1..Len(t) : /\ i + Len(s) \in 1..(Len(s) + Len(t)) /\ i + Len(s) > Len(s)
                              /\ (i + Len(s)) - Len(s) = i
  BY <1>1
<1>3. Range(s \o t) = Range(s) \cup Range(t)
  <2>1. Range(s \o t) \subseteq Range(s) \cup Range(t)
    BY <1>1, <1>2 DEF Range
  <2>2. Range(s) \subseteq Range(s \o t)
    BY <1>1, <1>2 DEF Range
  <2>3. Range(t) \subseteq Range(s \o t)
    <3> SUFFICES ASSUME NEW i \in 1..Len(t) PROVE t[i] \in Range(s \o t)
      BY <1>1 DEF Range
    <3>1. i + Len(s) \in DOMAIN (s \o t) /\ (s \o t)[i + Len(s)] = t[i]
      BY <1>1, <1>2
    <3> QED
      BY <3>1 DEF Range
  <2> QED
    BY <2>1, <2>2, <2>3
<1>4. ASSUME IsInjective(s), IsInjective(t), Range(s) \cap Range(t) = {}
      PROVE  IsInjective(s \o t)
  <2> SUFFICES ASSUME NEW i \in 1..(Len(s) + Len(t)), NEW j \in 1..(Len(s) + Len(t)),
                      (s \o t)[i] = (s \o t)[j]
               PROVE  i = j
    BY <1>1 DEF IsInjective
  <2>1. CASE i \in 1..Len(s) /\ j \in 1..Len(s)
    BY <2>1, <1>1, <1>4 DEF IsInjective
  <2>2. CASE i > Len(s) /\ j > Len(s)
    <3>1. i - Len(s) \in DOMAIN t /\ j - Len(s) \in DOMAIN t
      BY <2>2, <1>1, <1>2
    <3>2. t[i - Len(s)] = t[j - Len(s)]
      BY <2>2, <1>1
    <3>3. i - Len(s) = j - Len(s)
      BY <3>1, <3>2, <1>4 DEF IsInjective
    <3> QED
      BY <3>3, <1>1
  <2>3. ASSUME NEW k \in 1..Len(s), NEW l \in 1..(Len(s) + Len(t)), l > Len(s)
        PROVE  (s \o t)[k] # (s \o t)[l]
    <3>1. (s \o t)[k] \in Range(s)
      BY <1>1 DEF Range
    <3>2. (s \o t)[l] \in Range(t)
      <4>1. l - Len(s) \in DOMAIN t /\ (s \o t)[l] = t[l - Len(s)]
        BY <2>3, <1>1, <1>2
      <4> QED
        BY <4>1 DEF Range
    <3> QED
      BY <3>1, <3>2, <1>4
  <2> QED
    BY <2>1, <2>2, <2>3, <1>2
<1> QED
  BY <1>1, <1>3, <1>4

\* A sequence has no more elements than places.
LEMMA RangeIsSmall ==
  ASSUME NEW s \in Seq(Nat)
  PROVE  IsFiniteSet(Range(s)) /\ Cardinality(Range(s)) <= Len(s)
<1>1. DOMAIN s = 1..Len(s) /\ Len(s) \in Nat
  OBVIOUS
<1>2. IsFiniteSet(1..Len(s)) /\ Cardinality(1..Len(s)) = Len(s)
  BY <1>1, FS_Interval, SMTT(30)
<1>3. s \in Surjection(1..Len(s), Range(s))
  BY <1>1 DEF Surjection, Range
<1> QED
  BY <1>2, <1>3, FS_Surjection

\* What is counted covers what is lost when both grow together.
LEMMA CountCovers ==
  ASSUME NEW A, NEW B, NEW D, NEW n \in Nat, NEW k \in Nat,
         IsFiniteSet(A), Cardinality(A) <= n, IsFiniteSet(D), Cardinality(D) <= k, B \subseteq A \cup D
  PROVE  IsFiniteSet(B) /\ Cardinality(B) <= n + k
<1>1. IsFiniteSet(A \cup D) /\ Cardinality(A \cup D) = Cardinality(A) + Cardinality(D) - Cardinality(A \cap D)
  BY FS_Union
<1>2. IsFiniteSet(A \cap D)
  <2>1. A \cap D \subseteq A
    OBVIOUS
  <2> QED
    BY <2>1, FS_Subset
<1>3. IsFiniteSet(B) /\ Cardinality(B) <= Cardinality(A \cup D)
  BY <1>1, FS_Subset
<1>4. /\ Cardinality(A) \in Nat /\ Cardinality(D) \in Nat /\ Cardinality(A \cap D) \in Nat
      /\ Cardinality(B) \in Nat /\ Cardinality(A \cup D) \in Nat
  BY <1>1, <1>2, <1>3, FS_CardinalityType
<1> QED
  BY <1>1, <1>3, <1>4

LEMMA LogStarts == LogInit => LogInv
<1> SUFFICES ASSUME LogInit PROVE LogInv
  OBVIOUS
<1>1. LogTypes
  BY DEF LogInit, LogTypes
<1>2. Delivered = {} /\ Range(queue) = {} /\ Range(batch) = {} /\ Range(stored) = {} /\ pruned = {}
  BY DEF LogInit, Delivered, Range
<1>3. RowsApart
  BY <1>2 DEF LogInit, RowsApart, IsInjective
<1>4. RowsAreDue
  BY <1>2 DEF RowsAreDue, Somewhere
<1>5. LostAreCounted
  <2>1. Due \ Somewhere = {} /\ dropped = 0
    BY <1>2 DEF Due, LogInit
  <2> QED
    BY <2>1, FS_EmptySet DEF LostAreCounted
<1> QED
  BY <1>1, <1>3, <1>4, <1>5 DEF LogInv

\* A step that moves no row: as many verdicts may fall due as are counted.
LEMMA NoRowMoves ==
  ASSUME LogInv, NEW D, NEW k \in Nat, IsFiniteSet(D), Cardinality(D) <= k, dropped' = dropped + k,
         Due \subseteq Due', Due' \subseteq Due \cup D, UNCHANGED <<queue, batch, stored, pruned>>
  PROVE  RowsApart' /\ RowsAreDue' /\ LostAreCounted' /\ dropped' \in Nat
<1>1. Somewhere' = Somewhere /\ dropped \in Nat
  BY DEF Somewhere, LogInv, LogTypes
<1>2. RowsApart'
  BY DEF LogInv, RowsApart
<1>3. RowsAreDue'
  BY <1>1 DEF LogInv, RowsAreDue
<1>4. (Due \ Somewhere)' \subseteq (Due \ Somewhere) \cup D
  BY <1>1
<1>5. LostAreCounted'
  BY <1>1, <1>4, CountCovers DEF LogInv, LostAreCounted
<1> QED
  BY <1>1, <1>2, <1>3, <1>5

\* EventSink::push of a verdict that has just fallen due.
LEMMA PushKeeps ==
  ASSUME LogInv, NEW v \in Nat, v \notin Due, Push(v),
         Due' = Due \cup {v}, UNCHANGED <<batch, stored, pruned>>
  PROVE  /\ RowsApart' /\ RowsAreDue' /\ LostAreCounted'
         /\ dropped' \in Nat /\ queue' \in Seq(Nat)
<1> USE DEF LogInv
<1>1. CASE queue' = Append(queue, v) /\ UNCHANGED dropped
  <2>1. v \notin Somewhere
    BY DEF RowsAreDue
  <2>2. /\ queue' \in Seq(Nat) /\ Range(queue') = Range(queue) \cup {v}
        /\ IsInjective(queue')
    BY <1>1, <2>1, AppendRange DEF LogTypes, RowsApart, Somewhere
  <2>3. Somewhere' = Somewhere \cup {v}
    BY <2>2 DEF Somewhere
  <2>4. RowsApart'
    BY <2>1, <2>2 DEF RowsApart, Somewhere
  <2>5. RowsAreDue'
    BY <2>3 DEF RowsAreDue
  <2>6. (Due \ Somewhere)' = Due \ Somewhere
    BY <2>3
  <2> QED
    BY <1>1, <2>2, <2>4, <2>5, <2>6 DEF LostAreCounted, LogTypes
<1>2. CASE dropped' = dropped + 1 /\ UNCHANGED queue
  <2>1. IsFiniteSet({v}) /\ Cardinality({v}) = 1
    BY FS_Singleton
  <2>2. Cardinality({v}) <= 1 /\ Due \subseteq Due' /\ Due' \subseteq Due \cup {v}
    BY <2>1
  <2> QED
    BY <1>2, <2>1, <2>2, NoRowMoves DEF LogTypes
<1> QED
  BY <1>1, <1>2 DEF Push

\* write_batch: the rows held, with one taken from the queue or none, are stored
\* or counted.
LEMMA WriteKeeps ==
  ASSUME LogInv, NEW rows \in Seq(Nat), WriteBatch(rows), IsInjective(rows),
         queue' \in Seq(Nat), IsInjective(queue'), Range(queue') \cap Range(rows) = {},
         Range(queue') \cup Range(rows) = Range(queue) \cup Range(batch),
         Due' = Due, UNCHANGED pruned
  PROVE  /\ RowsApart' /\ RowsAreDue' /\ LostAreCounted'
         /\ dropped' \in Nat /\ batch' \in Seq(Nat) /\ stored' \in Seq(Nat)
<1> USE DEF LogInv
<1>1. batch' = <<>> /\ batch' \in Seq(Nat) /\ Range(batch') = {} /\ IsInjective(batch')
  BY DEF WriteBatch, Range, IsInjective
<1>2. CASE stored' = stored \o rows /\ UNCHANGED dropped
  <2>1. Range(stored) \cap Range(rows) = {} /\ pruned \cap Range(rows) = {}
    BY DEF RowsApart
  <2>2. /\ stored' \in Seq(Nat) /\ Range(stored') = Range(stored) \cup Range(rows)
        /\ IsInjective(stored')
    BY <1>2, <2>1, JoinRange DEF LogTypes, RowsApart
  <2>3. Somewhere' = Somewhere
    BY <1>1, <2>2 DEF Somewhere
  <2>4. RowsApart'
    BY <1>1, <2>1, <2>2 DEF RowsApart
  <2> QED
    BY <1>1, <1>2, <2>2, <2>3, <2>4 DEF RowsAreDue, LostAreCounted, LogTypes
<1>3. CASE dropped' = dropped + Len(rows) /\ UNCHANGED stored
  <2>1. Len(rows) \in Nat /\ dropped \in Nat
    BY DEF LogTypes
  <2>2. Somewhere' \subseteq Somewhere /\ Somewhere \subseteq Somewhere' \cup Range(rows)
    BY <1>1, <1>3 DEF Somewhere
  <2>3. (Due \ Somewhere)' \subseteq (Due \ Somewhere) \cup Range(rows)
    BY <2>2
  <2>4. LostAreCounted'
    BY <1>3, <2>1, <2>3, RangeIsSmall, CountCovers DEF LostAreCounted
  <2>5. RowsApart'
    BY <1>1, <1>3 DEF RowsApart
  <2>6. RowsAreDue'
    BY <2>2 DEF RowsAreDue
  <2> QED
    BY <1>1, <1>3, <2>1, <2>4, <2>5, <2>6 DEF LogTypes
<1> QED
  BY <1>2, <1>3 DEF WriteBatch

LEMMA DeliverKeeps ==
  ASSUME LogInv, NEW act \in {"Allow", "Refuse"}, Deliver(act)
  PROVE  LogInv'
<1> DEFINE v == Len(action) + 1
<1> USE DEF LogInv
<1>1. /\ Len(action) \in Nat /\ v \in Nat /\ passed <= Len(action) /\ passed \in Nat
      /\ published = Len(action)
  BY DEF LogTypes, Deliver
<1>2. /\ action' = Append(action, act)
      /\ UNCHANGED <<published, passed, batch, stored, pruned, commitFailures>>
      /\ IF act = "Refuse" THEN Push(v) ELSE UNCHANGED <<queue, dropped>>
  BY DEF Deliver
<1>3. /\ action' \in Seq({"Allow", "Refuse"}) /\ Len(action') = v /\ action'[v] = act
      /\ \A w \in 1..Len(action) : action'[w] = action[w]
  BY <1>2 DEF LogTypes
<1>4. /\ Delivered' = Delivered \cup {v} /\ v \notin Delivered
  <2>1. 1..(Len(action) + 1) = 1..Len(action) \cup {Len(action) + 1}
    BY <1>1
  <2> QED
    BY <1>1, <1>3, <2>1 DEF Delivered
<1>5. Due' = IF act = "Refuse" THEN Due \cup {v} ELSE Due
  <2>1. \A w \in Delivered : w \in Due' <=> w \in Due
    BY <1>2, <1>3, <1>4 DEF Due, Delivered
  <2>2. v \in Due' <=> act = "Refuse"
    BY <1>1, <1>2, <1>3, <1>4 DEF Due
  <2>3. Due \subseteq Delivered /\ Due' \subseteq Delivered \cup {v}
    BY <1>4 DEF Due
  <2> QED
    BY <2>1, <2>2, <2>3, <1>4
<1>6. CASE act = "Refuse"
  <2>1. v \notin Due
    BY <1>4 DEF Due
  <2> HIDE DEF v
  <2>2. /\ RowsApart' /\ RowsAreDue' /\ LostAreCounted'
        /\ dropped' \in Nat /\ queue' \in Seq(Nat)
    BY <1>1, <1>2, <1>5, <1>6, <2>1, PushKeeps
  <2>3. LogTypes'
    BY <1>1, <1>2, <1>3, <2>2 DEF LogTypes, v
  <2> QED
    BY <2>2, <2>3
<1>7. CASE act # "Refuse"
  <2>1. IsFiniteSet({}) /\ Cardinality({}) <= 0
    BY FS_EmptySet
  <2>2. Due' = Due /\ UNCHANGED <<queue, dropped>> /\ dropped' = dropped + 0
    BY <1>2, <1>5, <1>7 DEF LogTypes
  <2>3. /\ RowsApart' /\ RowsAreDue' /\ LostAreCounted'
    BY <1>2, <2>1, <2>2, NoRowMoves
  <2>4. LogTypes'
    BY <1>1, <1>2, <1>3, <2>2 DEF LogTypes
  <2> QED
    BY <2>3, <2>4
<1> QED
  BY <1>6, <1>7

LEMMA PublishKeeps ==
  ASSUME LogInv, Publish
  PROVE  LogInv'
<1>1. Due' = Due
  BY DEF Publish, Due, Delivered
<1> QED
  BY <1>1 DEF Publish, LogInv, LogTypes, RowsApart, RowsAreDue, LostAreCounted, Somewhere

LEMMA FeederKeeps ==
  ASSUME LogInv, Feeder
  PROVE  LogInv'
<1> USE DEF LogInv
<1>0. /\ passed \in Nat /\ published \in Nat /\ Len(action) \in Nat /\ dropped \in Nat
      /\ passed <= published /\ published <= Len(action)
      /\ UNCHANGED <<action, published, batch, stored, pruned>>
  BY DEF LogTypes, Feeder, FeederReads, FeederLags
<1>1. Delivered' = Delivered
  BY <1>0 DEF Delivered
<1>2. CASE FeederReads
  <2> DEFINE v == passed + 1
  <2>1. v \in Nat /\ v \in Delivered /\ passed' = v /\ v <= published
    BY <1>0, <1>2 DEF FeederReads, Delivered
  <2>2. \A w \in Delivered : w <= passed' <=> (w <= passed \/ w = v)
    BY <1>0, <2>1 DEF Delivered
  <2>3. CASE action[v] = "Allow"
    <3>1. v \notin Due /\ Due' = Due \cup {v}
      BY <1>0, <1>1, <2>1, <2>2, <2>3 DEF Due
    <3>2. Push(v)
      BY <1>2, <2>3 DEF FeederReads
    <3> HIDE DEF v
    <3>3. /\ RowsApart' /\ RowsAreDue' /\ LostAreCounted'
          /\ dropped' \in Nat /\ queue' \in Seq(Nat)
      BY <1>0, <2>1, <3>1, <3>2, PushKeeps
    <3>4. LogTypes'
      BY <1>0, <2>1, <3>3 DEF LogTypes
    <3> QED
      BY <3>3, <3>4
  <2>4. CASE action[v] # "Allow"
    <3>1. Due' = Due
      BY <1>0, <1>1, <2>1, <2>2, <2>4 DEF Due
    <3>2. UNCHANGED <<queue, dropped>>
      BY <1>2, <2>4 DEF FeederReads
    <3>3. RowsApart' /\ RowsAreDue' /\ LostAreCounted'
      BY <1>0, <3>1, <3>2 DEF RowsApart, RowsAreDue, LostAreCounted, Somewhere
    <3>4. LogTypes'
      BY <1>0, <2>1, <3>2 DEF LogTypes
    <3> QED
      BY <3>3, <3>4
  <2> QED
    BY <2>3, <2>4
<1>3. CASE FeederLags
  <2> DEFINE D == (passed + 1)..(passed + Missed)
  <2>1. Missed \in Nat /\ passed + Missed <= published
    BY <1>0, EventAssumption DEF Missed
  <2>2. passed' = passed + Missed /\ dropped' = dropped + Missed /\ UNCHANGED queue
    BY <1>3 DEF FeederLags
  <2>3. IsFiniteSet(D) /\ Cardinality(D) <= Missed
    <3>1. passed + 1 \in Int /\ passed + Missed \in Int
      BY <1>0, <2>1
    <3>2. /\ IsFiniteSet(D)
          /\ Cardinality(D) = IF passed + 1 > passed + Missed THEN 0 ELSE (passed + Missed) - (passed + 1) + 1
      BY <3>1, FS_Interval
    <3> QED
      BY <1>0, <2>1, <3>2
  <2>4. \A w \in Delivered : w <= passed' <=> (w <= passed \/ w \in D)
    BY <1>0, <2>1, <2>2 DEF Delivered
  <2> HIDE DEF D
  <2>5. Due \subseteq Due' /\ Due' \subseteq Due \cup D
    BY <1>0, <1>1, <2>4 DEF Due
  <2>6. RowsApart' /\ RowsAreDue' /\ LostAreCounted' /\ dropped' \in Nat
    BY <1>0, <2>1, <2>2, <2>3, <2>5, NoRowMoves
  <2>7. LogTypes'
    BY <1>0, <2>1, <2>2, <2>6 DEF LogTypes
  <2> QED
    BY <2>6, <2>7
<1> QED
  BY <1>2, <1>3 DEF Feeder

LEMMA WriterTakesKeeps ==
  ASSUME LogInv, WriterTakes
  PROVE  LogInv'
<1> DEFINE rows == Append(batch, Head(queue))
<1> USE DEF LogInv
<1>1. /\ queue # <<>> /\ queue' = Tail(queue)
      /\ UNCHANGED <<action, published, passed, pruned>>
      /\ IF Len(rows) >= BatchRows THEN WriteBatch(rows)
         ELSE batch' = rows /\ UNCHANGED <<stored, dropped, commitFailures>>
  BY DEF WriterTakes
<1>2. queue \in Seq(Nat) /\ batch \in Seq(Nat) /\ Head(queue) \in Nat
  BY <1>1 DEF LogTypes
<1>3. /\ queue' \in Seq(Nat) /\ Range(queue) = Range(queue') \cup {Head(queue)}
      /\ IsInjective(queue') /\ Head(queue) \notin Range(queue')
  BY <1>1, <1>2, TailRange DEF RowsApart
<1>4. Head(queue) \notin Range(batch) /\ Range(queue') \cap Range(batch) = {}
  BY <1>3 DEF RowsApart
<1>5. /\ rows \in Seq(Nat) /\ Range(rows) = Range(batch) \cup {Head(queue)} /\ IsInjective(rows)
  BY <1>2, <1>4, AppendRange DEF RowsApart
<1>6. Due' = Due
  BY <1>1 DEF Due, Delivered
<1> HIDE DEF rows
<1>7. /\ Range(queue') \cap Range(rows) = {}
      /\ Range(queue') \cup Range(rows) = Range(queue) \cup Range(batch)
  BY <1>3, <1>4, <1>5
<1>8. CASE WriteBatch(rows)
  <2>1. /\ RowsApart' /\ RowsAreDue' /\ LostAreCounted'
        /\ dropped' \in Nat /\ batch' \in Seq(Nat) /\ stored' \in Seq(Nat)
    BY <1>1, <1>3, <1>5, <1>6, <1>7, <1>8, WriteKeeps
  <2> QED
    BY <1>1, <1>3, <2>1 DEF LogTypes
<1>9. CASE batch' = rows /\ UNCHANGED <<stored, dropped, commitFailures>>
  <2>1. Somewhere' = Somewhere
    BY <1>1, <1>7, <1>9 DEF Somewhere
  <2>2. Range(rows) \cap Range(stored) = {} /\ Range(queue') \cap Range(stored) = {}
    BY <1>3, <1>5 DEF RowsApart
  <2>3. pruned \cap (Range(queue') \cup Range(rows) \cup Range(stored)) = {}
    BY <1>7 DEF RowsApart
  <2>4. RowsApart'
    BY <1>1, <1>3, <1>5, <1>7, <1>9, <2>2, <2>3 DEF RowsApart
  <2>5. RowsAreDue' /\ LostAreCounted'
    BY <1>6, <1>9, <2>1 DEF RowsAreDue, LostAreCounted
  <2> QED
    BY <1>1, <1>3, <1>5, <1>9, <2>4, <2>5 DEF LogTypes
<1> QED
  BY <1>1, <1>8, <1>9

LEMMA FlushTickKeeps ==
  ASSUME LogInv, FlushTick
  PROVE  LogInv'
<1>1. WriteBatch(batch) /\ UNCHANGED <<action, published, passed, queue, pruned>>
  BY DEF FlushTick
<1>2. Due' = Due
  BY <1>1 DEF Due, Delivered
<1>3. /\ batch \in Seq(Nat) /\ IsInjective(batch) /\ queue' \in Seq(Nat) /\ IsInjective(queue')
      /\ Range(queue') \cap Range(batch) = {}
      /\ Range(queue') \cup Range(batch) = Range(queue) \cup Range(batch)
  BY <1>1 DEF LogInv, LogTypes, RowsApart
<1>4. /\ RowsApart' /\ RowsAreDue' /\ LostAreCounted'
      /\ dropped' \in Nat /\ batch' \in Seq(Nat) /\ stored' \in Seq(Nat)
  BY <1>1, <1>2, <1>3, WriteKeeps
<1> QED
  BY <1>1, <1>3, <1>4 DEF LogInv, LogTypes

LEMMA PruneTickKeeps ==
  ASSUME LogInv, PruneTick
  PROVE  LogInv'
<1> USE DEF LogInv
<1>1. PICK kept \in [1..MaxRows -> 1..Len(stored)] :
        /\ \A i, j \in 1..MaxRows : i < j => kept[i] < kept[j]
        /\ stored' = [i \in 1..MaxRows |-> stored[kept[i]]]
        /\ pruned' = pruned \cup (Range(stored) \ Range(stored'))
  BY DEF PruneTick
<1>2. UNCHANGED <<action, published, passed, queue, batch, dropped, commitFailures>>
  BY DEF PruneTick
<1>3. stored \in Seq(Nat) /\ DOMAIN stored = 1..Len(stored) /\ Len(stored) \in Nat /\ MaxRows \in Nat
  BY EventAssumption DEF LogTypes
<1>4. stored' \in Seq(Nat)
  BY <1>1, <1>3
<1>5. Range(stored') \subseteq Range(stored)
  BY <1>1, <1>3 DEF Range
<1>6. IsInjective(stored')
  <2> SUFFICES ASSUME NEW i \in 1..MaxRows, NEW j \in 1..MaxRows, stored[kept[i]] = stored[kept[j]]
               PROVE  i = j
    BY <1>1 DEF IsInjective
  <2>1. kept[i] = kept[j] /\ kept[i] \in Int
    BY <1>1, <1>3 DEF RowsApart, IsInjective
  <2>2. ~(i < j) /\ ~(j < i)
    BY <1>1, <2>1
  <2> QED
    BY <2>2, <1>3
<1>7. Somewhere' = Somewhere
  BY <1>1, <1>2, <1>5 DEF Somewhere
<1>8. RowsApart'
  BY <1>1, <1>2, <1>5, <1>6 DEF RowsApart
<1>9. RowsAreDue' /\ LostAreCounted'
  BY <1>2, <1>7 DEF RowsAreDue, LostAreCounted, Due, Delivered
<1> QED
  BY <1>2, <1>4, <1>8, <1>9 DEF LogTypes

LEMMA LogKept == LogInv /\ [LogNext]_logVars => LogInv'
<1> SUFFICES ASSUME LogInv, [LogNext]_logVars PROVE LogInv'
  OBVIOUS
<1>1. CASE UNCHANGED logVars
  BY <1>1 DEF logVars, LogInv, LogTypes, RowsApart, RowsAreDue, LostAreCounted, Somewhere, Due, Delivered
<1>2. CASE LogNext
  BY <1>2, DeliverKeeps, PublishKeeps, FeederKeeps, WriterTakesKeeps, FlushTickKeeps, PruneTickKeeps
     DEF LogNext, Worker, Writer
<1> QED
  BY <1>1, <1>2

\* No verdict is logged twice, and every one that will never be in the table is
\* counted: the queue that is full, the feed that is overwritten and the batch
\* that fails (EventSink::push, log_events_task, event_writer_task).
THEOREM LoggedOrCountedHolds == LogInit /\ [][LogNext]_logVars => []LoggedOrCounted
<1>1. LogInv => LoggedOrCounted
  <2> SUFFICES ASSUME LogInv PROVE LoggedOrCounted
    OBVIOUS
  <2> USE DEF LogInv
  <2> DEFINE rest == batch \o stored
  <2>1. /\ rest \in Seq(Nat) /\ IsInjective(rest) /\ Range(rest) = Range(batch) \cup Range(stored)
    BY JoinRange DEF LogTypes, RowsApart
  <2>2. Rows = queue \o rest
    BY SMTT(30) DEF Rows, LogTypes
  <2> HIDE DEF rest
  <2>3. queue \in Seq(Nat) /\ IsInjective(queue) /\ Range(queue) \cap Range(rest) = {}
    BY <2>1 DEF RowsApart, LogTypes
  <2>4. IsInjective(Rows) /\ Range(Rows) = Range(queue) \cup Range(batch) \cup Range(stored)
    BY <2>1, <2>2, <2>3, JoinRange
  <2>5. Lost = Due \ Somewhere
    BY <2>4 DEF Lost, Due, Somewhere
  <2> QED
    BY <2>4, <2>5 DEF LoggedOrCounted, RowsApart, LostAreCounted
<1> QED
  BY <1>1, LogStarts, LogKept, PTL

=============================================================================
