----------------------------- MODULE PromptFlow -----------------------------
(***************************************************************************)
(* The ask-the-user path of colony-firewalld, from a queued packet to its  *)
(* kernel verdict: the NFQUEUE worker thread (nfqueue/mod.rs), the prompt  *)
(* router task with its timeout sweepers (prompts.rs), and the clients     *)
(* that subscribe and answer through the router.                           *)
(*                                                                         *)
(* The worker is one thread: it parks a packet no rule decides, hands a    *)
(* request to the router over a bounded channel, and applies whatever      *)
(* comes back on an unbounded one.  The router, every sweeper and every    *)
(* answering RPC run concurrently with it and with each other; whichever   *)
(* removes a prompt from the pending table is the one that resolves it.    *)
(*                                                                         *)
(* Abstractions.  A packet is a model value; its FlowKey is FlowOf (an     *)
(* unattributed origin gets a fresh key, so it is a flow of its own).      *)
(* Deny and Reject are one action, Refuse: they give the kernel the same   *)
(* verdict.  What the rules say about a flow now is the variable peek, the *)
(* outcome of Engine::peek, which rule writers may change at any time.     *)
(* The pause flag and the default policy are inputs of the steps that read *)
(* them: SetPaused and a SIGHUP reload may set them to anything meanwhile. *)
(***************************************************************************)
EXTENDS Integers, FiniteSets, Sequences, Functions

CONSTANTS
  Packets,              \* packets the kernel queues during a behaviour
  Flows,                \* FlowKey values
  FlowOf,               \* [Packets -> Flows], FlowKey::for_flow
  Uids,                 \* user ids, Root among them
  Root,                 \* uid 0
  OwnerOf,              \* [Flows -> Uids \cup {NoUid}], the process' uid
  NoUid,                \* attribution failed: Option::None
  Streams,              \* StreamPrompts calls
  UidOf,                \* [Streams -> Uids], SO_PEERCRED of the caller
  Answering,            \* SUBSET Streams: those with standing to answer
  PolicyActions,        \* what no_ui_action and timeout_action may be set to
  Decisions,            \* outcomes of Engine::peek the instance explores
  MaxParkedPrompts,     \* MAX_PARKED_PROMPTS
  MaxPacketsPerPrompt,  \* MAX_PACKETS_PER_PROMPT
  PromptChannelCap,     \* capacity of the worker-to-router channel
  MaxRecvErrors         \* MAX_CONSECUTIVE_RECV_ERRORS

Actions   == {"Allow", "Refuse"}
Sources   == {"Rule", "Policy", "User", "Silent"}
Verdicts  == [action : Actions, source : Sources]
NoVerdict == [action |-> "none", source |-> "none"]

\* Engine::peek for a flow: a rule's answer, the policy refusal of a name a
\* rule could not check, or "ask" (Undecided when a rule may be about it).
AllDecisions ==
  {"RuleAllow", "RuleRefuse", "PolicyRefuse", "Ask", "AskUndecided"}
Refusals  == {"RuleRefuse", "PolicyRefuse"}

\* What handle_packet learns of a packet before any rule is consulted.
\* "bad" packets do not parse; "own" is the daemon's own traffic.
Classes == {"badInbound", "badOutbound", "own", "inbound", "loopback", "outbound"}

ASSUME PromptFlowAssumption ==
  /\ FlowOf \in [Packets -> Flows]
  /\ Root \in Uids /\ NoUid \notin Uids
  /\ OwnerOf \in [Flows -> Uids \cup {NoUid}]
  /\ UidOf \in [Streams -> Uids] /\ Answering \subseteq Streams
  /\ PolicyActions \subseteq Actions /\ PolicyActions # {}
  /\ {"Ask"} \subseteq Decisions /\ Decisions \subseteq AllDecisions
  /\ MaxParkedPrompts \in Nat \ {0}
  /\ MaxPacketsPerPrompt \in Nat \ {0}
  /\ PromptChannelCap \in Nat \ {0}
  /\ MaxRecvErrors \in Nat \ {0}

VARIABLES
  \* The worker thread and what it owns.
  wpc,        \* where it is in its loop
  ret,        \* where resolve_prompt returns to
  cur,        \* resolve_prompt's arguments and the packets it has left
  recvErrors, \* consecutive_errors
  waiters,    \* prompt id -> PendingPrompt
  pendingFlows, \* FlowKey -> prompt id
  nextPromptId,
  channelOpen,  \* verdict_channel_open
  arrived,    \* packets read from the queue
  verdict,    \* what the kernel was told about each packet
  resolvedBy, \* the prompt whose resolution told it, 0 when none did
  \* The channels.
  promptQ,    \* worker -> router, bounded
  verdictQ,   \* router -> worker, unbounded
  \* The router, its sweepers and its clients.
  hand,       \* the request run_router_task is working on, and its step
  pending,    \* ids in RouterInner::pending
  sweepers,   \* ids with a timeout task still sleeping
  taken,      \* resolutions that removed an id and have not sent yet
  gauge,      \* Stats::prompts_pending
  audience,   \* <<id, uid>>: prompts an answering stream was sent
  accepted,   \* <<id, uid, action>>: answers a client was told landed
  stream,     \* state of each StreamPrompts call
  \* Shared state others write.
  stop,       \* the worker's stop flag
  routerUp,   \* the runtime still holds a sender of the verdict channel
  peek        \* what the rules say about each flow

locals     == <<ret, cur, recvErrors, channelOpen>>
tables     == <<waiters, pendingFlows, nextPromptId>>
kernel     == <<arrived, verdict, resolvedBy>>
workerVars == <<wpc, locals, tables, kernel>>
routerVars == <<hand, pending, sweepers, taken, gauge, audience, accepted>>
envVars    == <<stop, routerUp, peek>>
elsewhere  == <<routerVars, stream, envVars>>  \* what the worker never writes
vars == <<workerVars, promptQ, verdictQ, elsewhere>>

PromptIds == Nat \ {0}      \* 0 stands for "no prompt"

\* States of a StreamPrompts call.  An answering one enters the census
\* (registered), then subscribes to the broadcast (on); dropping it leaves the
\* census first (leaving) and releases the receiver after.
StreamStates == {"off", "registered", "on", "leaving"}

\* Where the worker is: top of the loop, draining verdicts, at recv, inside
\* resolve_prompt, flushing after a hang-up (before recv, or before the top).
WorkerStates == {"top", "drain", "recv", "resolve", "flushRecv", "flushTop",
                 "exited"}

\* The router task between two requests.
Idle == [step |-> "idle", id |-> 0, owner |-> NoUid]

NoResolution == [id |-> 0, verdict |-> NoVerdict, packets |-> <<>>]

-----------------------------------------------------------------------------
(* Helpers *)

\* should_deliver: root sees every prompt, anyone an unattributed one.
ShouldDeliver(owner, uid) == uid = Root \/ owner = NoUid \/ owner = uid

\* The answering streams the router's census counts, and those holding a
\* broadcast receiver: a stream registers before it subscribes, and leaves
\* the census before its receiver is dropped.
Census    == {s \in Answering : stream[s] \in {"registered", "on"}}
Receivers == {s \in Streams : stream[s] \in {"on", "leaving"}}

HasAudience(owner) == \E s \in Census : ShouldDeliver(owner, UidOf[s])

FromPolicy(action) == [action |-> action, source |-> "Policy"]

\* inbound_default: config refuses Allow for it.
InboundDefault == FromPolicy("Refuse")

\* A Decision::Resolved as a verdict.
FromDecision(d) ==
  [action |-> IF d = "RuleAllow" THEN "Allow" ELSE "Refuse",
   source |-> IF d = "PolicyRefuse" THEN "Policy" ELSE "Rule"]

\* Faulty variants of a definition stand just before it, named for the slip;
\* the project's mutation runs put them in its place.

ResolutionIgnoringRules(d, pv) == pv

\* The verdict resolve_prompt gives a packet whose flow the rules now judge
\* d, when the prompt came back with pv: a current refusal always wins, a
\* rule's Allow wins over an answer nobody chose, a user's answer stands.
ResolutionVerdict(d, pv) ==
  IF \/ d \in Refusals
     \/ d = "RuleAllow" /\ pv.source = "Policy"
  THEN FromDecision(d)
  ELSE pv

\* The verdict of a packet no rule is asked about: unparseable (by direction),
\* or the daemon's own.
Silent(class, noUi) ==
  [action |-> IF class = "badInbound" THEN "Refuse"
              ELSE IF class = "badOutbound" THEN noUi ELSE "Allow",
   source |-> "Silent"]

\* handle_packet: the verdict it settles on, or NoVerdict to prompt.  Inbound
\* never asks; neither loopback nor pause lifts a flow an undecided rule may
\* be about.
HandlePacket(class, d, paused, noUi) ==
  IF class \in {"badInbound", "badOutbound", "own"} THEN Silent(class, noUi)
  ELSE IF d \notin {"Ask", "AskUndecided"} THEN FromDecision(d)
  ELSE IF class = "inbound" THEN InboundDefault
  ELSE IF d = "Ask" /\ (class = "loopback" \/ paused) THEN FromPolicy("Allow")
  ELSE NoVerdict

-----------------------------------------------------------------------------
(* The NFQUEUE worker: Worker::run and what it calls *)

\* deliver / send_verdict: the kernel is told, through prompt id (0: none).
Deliver(p, v, id) ==
  /\ verdict' = [verdict EXCEPT ![p] = v]
  /\ resolvedBy' = [resolvedBy EXCEPT ![p] = id]

\* deliver_fallback: Engine::fallback_verdict, the policy's no_ui_action.
DeliverFallback(p) == \E noUi \in PolicyActions : Deliver(p, FromPolicy(noUi), 0)

\* Top of the loop: the stop flag, then the heartbeat stamp.
WorkerTop ==
  /\ wpc = "top"
  /\ wpc' = IF stop THEN "exited" ELSE "drain"
  /\ UNCHANGED <<locals, tables, kernel, promptQ, verdictQ, elsewhere>>

\* What resolve_prompt leaves of pending_flows.
FlowsKept(id) == pendingFlows
FlowsAfterResolve(id) ==
  Restrict(pendingFlows, DOMAIN pendingFlows \ {waiters[id].flow})

\* resolve_prompt, entry: forget the prompt, then verdict its packets one by
\* one.  A verdict for a prompt that already resolved is ignored.
ResolveBegin(id, v, back) ==
  IF id \in DOMAIN waiters
  THEN /\ waiters' = Restrict(waiters, DOMAIN waiters \ {id})
       /\ pendingFlows' = FlowsAfterResolve(id)
       /\ cur' = [id |-> id, verdict |-> v, packets |-> waiters[id].packets]
       /\ wpc' = "resolve"
       /\ ret' = back
  ELSE /\ wpc' = back
       /\ UNCHANGED <<waiters, pendingFlows, cur, ret>>

\* A verdict is waiting: drain_verdicts takes it at the head of an iteration,
\* idle_wait when the queue had nothing to read.
TakeVerdict ==
  /\ wpc \in {"drain", "recv"}
  /\ channelOpen
  /\ verdictQ # <<>>
  /\ verdictQ' = Tail(verdictQ)
  /\ ResolveBegin(Head(verdictQ).id, Head(verdictQ).verdict,
                  IF wpc = "drain" THEN "drain" ELSE "top")
  /\ UNCHANGED <<recvErrors, nextPromptId, channelOpen, kernel, promptQ,
                 elsewhere>>

\* drain_verdicts finds the channel empty, or closed earlier.
DrainEmpty ==
  /\ wpc = "drain"
  /\ ~channelOpen \/ (verdictQ = <<>> /\ routerUp)
  /\ wpc' = "recv"
  /\ UNCHANGED <<locals, tables, kernel, promptQ, verdictQ, elsewhere>>

\* close_verdict_channel, from either place that can see the hang-up.
CloseVerdictChannel ==
  /\ wpc \in {"drain", "recv"}
  /\ channelOpen
  /\ verdictQ = <<>> /\ ~routerUp
  /\ channelOpen' = FALSE
  /\ wpc' = IF wpc = "drain" THEN "flushRecv" ELSE "flushTop"
  /\ UNCHANGED <<ret, cur, recvErrors, tables, kernel, promptQ, verdictQ,
                 elsewhere>>

\* flush_waiters_disconnected: resolve each outstanding prompt with the
\* fallback it was parked with.
FlushWaiter ==
  /\ wpc \in {"flushRecv", "flushTop"}
  /\ \E id \in DOMAIN waiters : ResolveBegin(id, waiters[id].fallback, wpc)
  /\ UNCHANGED <<recvErrors, nextPromptId, channelOpen, kernel, promptQ,
                 verdictQ, elsewhere>>

FlushDone ==
  /\ wpc \in {"flushRecv", "flushTop"}
  /\ DOMAIN waiters = {}
  /\ wpc' = IF wpc = "flushRecv" THEN "recv" ELSE "top"
  /\ UNCHANGED <<locals, tables, kernel, promptQ, verdictQ, elsewhere>>

\* resolve_prompt, one turn of its loop: look at the rules again, deliver.
ResolvePacket ==
  /\ wpc = "resolve"
  /\ LET p == Head(cur.packets)
     IN  Deliver(p, ResolutionVerdict(peek[FlowOf[p]], cur.verdict), cur.id)
  /\ IF Len(cur.packets) = 1
     THEN wpc' = ret /\ cur' = NoResolution
     ELSE wpc' = wpc /\ cur' = [cur EXCEPT !.packets = Tail(@)]
  /\ UNCHANGED <<ret, recvErrors, channelOpen, tables, arrived, promptQ,
                 verdictQ, elsewhere>>

\* Telling the kernel fails: the error ends the worker where it stands.
VerdictFails ==
  /\ \/ wpc = "resolve"
     \/ wpc = "recv" /\ arrived # Packets
  /\ wpc' = "exited"
  /\ UNCHANGED <<locals, tables, kernel, promptQ, verdictQ, elsewhere>>

\* recv returned packet p: what every path through handle_message shares.
Receive(p) ==
  /\ wpc = "recv"
  /\ p \notin arrived
  /\ arrived' = arrived \cup {p}
  /\ recvErrors' = 0
  /\ wpc' = "top"
  /\ UNCHANGED <<ret, cur, channelOpen, verdictQ, elsewhere>>

\* handle_message when the pipeline settles the packet at once.
HandleSettled(p) ==
  /\ Receive(p)
  /\ \E class \in Classes, paused \in BOOLEAN, noUi \in PolicyActions :
       LET v == HandlePacket(class, peek[FlowOf[p]], paused, noUi)
       IN  v # NoVerdict /\ Deliver(p, v, 0)
  /\ UNCHANGED <<waiters, pendingFlows, nextPromptId, promptQ>>

\* handle_packet's outcome for p is Prompt.
Prompts(p) ==
  \E class \in Classes, paused \in BOOLEAN, noUi \in PolicyActions :
    HandlePacket(class, peek[FlowOf[p]], paused, noUi) = NoVerdict

\* park_for_prompt, 1: the flow has an outstanding prompt with room.
RidesOn(p) ==
  /\ FlowOf[p] \in DOMAIN pendingFlows
  /\ pendingFlows[FlowOf[p]] \in DOMAIN waiters

RidePrompt(p) ==
  /\ Receive(p)
  /\ Prompts(p)
  /\ RidesOn(p)
  /\ LET id == pendingFlows[FlowOf[p]]
     IN  /\ Len(waiters[id].packets) < MaxPacketsPerPrompt
         /\ waiters' = [waiters EXCEPT ![id].packets = Append(@, p)]
  /\ UNCHANGED <<pendingFlows, nextPromptId, verdict, resolvedBy, promptQ>>

\* park_for_prompt, 2: that prompt holds its packet cap; deliver_fallback.
RideOverflow(p) ==
  /\ Receive(p)
  /\ Prompts(p)
  /\ RidesOn(p)
  /\ Len(waiters[pendingFlows[FlowOf[p]]].packets) >= MaxPacketsPerPrompt
  /\ DeliverFallback(p)
  /\ UNCHANGED <<waiters, pendingFlows, nextPromptId, promptQ>>

\* A pending_flows entry whose prompt is gone is dropped before re-prompting.
FlowsAfterRepair(p) ==
  Restrict(pendingFlows, DOMAIN pendingFlows \ {FlowOf[p]})

\* The prompt backlog is at its cap.
BacklogPastCap == Cardinality(DOMAIN waiters) > MaxParkedPrompts
BacklogAtCap   == Cardinality(DOMAIN waiters) >= MaxParkedPrompts

\* park_for_prompt, 3: no room for another prompt.
BacklogFull(p) ==
  /\ Receive(p)
  /\ Prompts(p)
  /\ ~RidesOn(p)
  /\ BacklogAtCap
  /\ pendingFlows' = FlowsAfterRepair(p)
  /\ DeliverFallback(p)
  /\ UNCHANGED <<waiters, nextPromptId, promptQ>>

\* try_send on the prompt channel succeeds.
RouterTakes == routerUp /\ Len(promptQ) < PromptChannelCap

\* park_for_prompt, 4: a new prompt, both maps gain their entry.
OpenPrompt(p) ==
  /\ Receive(p)
  /\ Prompts(p)
  /\ ~RidesOn(p)
  /\ ~BacklogAtCap
  /\ RouterTakes
  /\ LET id == nextPromptId
         f  == FlowOf[p]
     IN  /\ nextPromptId' = id + 1
         /\ promptQ' = Append(promptQ, [id |-> id, owner |-> OwnerOf[f]])
         /\ pendingFlows' = [g \in DOMAIN pendingFlows \cup {f} |->
                               IF g = f THEN id ELSE pendingFlows[g]]
         /\ \E noUi \in PolicyActions :
              waiters' = [i \in DOMAIN waiters \cup {id} |->
                            IF i = id
                            THEN [flow |-> f, packets |-> <<p>>,
                                  fallback |-> FromPolicy(noUi)]
                            ELSE waiters[i]]
  /\ UNCHANGED <<verdict, resolvedBy>>

RouterGoneForgotten(p) ==
  /\ Receive(p)
  /\ Prompts(p)
  /\ ~RidesOn(p)
  /\ ~BacklogAtCap
  /\ ~RouterTakes
  /\ nextPromptId' = nextPromptId + 1
  /\ pendingFlows' = FlowsAfterRepair(p)
  /\ UNCHANGED <<waiters, verdict, resolvedBy, promptQ>>

\* park_for_prompt, 5: router saturated or gone.
RouterUnavailable(p) ==
  /\ Receive(p)
  /\ Prompts(p)
  /\ ~RidesOn(p)
  /\ ~BacklogAtCap
  /\ ~RouterTakes
  /\ nextPromptId' = nextPromptId + 1
  /\ pendingFlows' = FlowsAfterRepair(p)
  /\ DeliverFallback(p)
  /\ UNCHANGED <<waiters, promptQ>>

\* recv had nothing (idle_wait timed out) or was interrupted.
RecvNothing ==
  /\ wpc = "recv"
  /\ wpc' = "top"
  /\ UNCHANGED <<locals, tables, kernel, promptQ, verdictQ, elsewhere>>

GiveUp(n) == n >= MaxRecvErrors

\* recv failed: give up after MaxRecvErrors in a row.
RecvError ==
  /\ wpc = "recv"
  /\ recvErrors' = recvErrors + 1
  /\ wpc' = IF GiveUp(recvErrors + 1) THEN "exited" ELSE "top"
  /\ UNCHANGED <<ret, cur, channelOpen, tables, kernel, promptQ, verdictQ,
                 elsewhere>>

WorkerFails == VerdictFails \/ RecvError

WorkerRuns ==
  \/ WorkerTop \/ TakeVerdict \/ DrainEmpty \/ CloseVerdictChannel
  \/ FlushWaiter \/ FlushDone \/ ResolvePacket \/ RecvNothing
  \/ \E p \in Packets :
       \/ HandleSettled(p) \/ RidePrompt(p) \/ RideOverflow(p)
       \/ BacklogFull(p) \/ OpenPrompt(p) \/ RouterUnavailable(p)

-----------------------------------------------------------------------------
(* The router: run_router_task, PromptRouter::enqueue, submit, the sweepers *)

\* verdict_tx.send.
SendVerdict(id, v) == verdictQ' = Append(verdictQ, [id |-> id, verdict |-> v])

\* run_router_task takes the next request (and computes its binding).
RouterRecv ==
  /\ routerUp
  /\ hand = Idle
  /\ promptQ # <<>>
  /\ hand' = [step |-> "census", id |-> Head(promptQ).id,
              owner |-> Head(promptQ).owner]
  /\ promptQ' = Tail(promptQ)
  /\ UNCHANGED <<workerVars, verdictQ, pending, sweepers, taken, gauge,
                 audience, accepted, stream, envVars>>

\* enqueue: nobody who may see the prompt is subscribed, answer no_ui_action.
RouterNoAudience ==
  /\ hand.step = "census"
  /\ ~HasAudience(hand.owner)
  /\ \E noUi \in PolicyActions : SendVerdict(hand.id, FromPolicy(noUi))
  /\ hand' = Idle
  /\ UNCHANGED <<workerVars, promptQ, pending, sweepers, taken, gauge,
                 audience, accepted, stream, envVars>>

\* enqueue: the prompt becomes pending and is counted.
RouterInsert ==
  /\ hand.step = "census"
  /\ HasAudience(hand.owner)
  /\ pending' = pending \cup {hand.id}
  /\ gauge' = gauge + 1
  /\ hand' = [hand EXCEPT !.step = "cast"]
  /\ UNCHANGED <<workerVars, promptQ, verdictQ, sweepers, taken, audience,
                 accepted, stream, envVars>>

BroadcastWithoutSweeper ==
  /\ hand.step = "cast"
  /\ Receivers # {}
  /\ audience' = audience \cup {<<hand.id, UidOf[s]>> : s \in Receivers}
  /\ hand' = Idle
  /\ UNCHANGED <<workerVars, promptQ, verdictQ, pending, sweepers, taken,
                 gauge, accepted, stream, envVars>>

\* enqueue: broadcast and arm the sweeper.  Every stream filters the shared
\* feed by should_deliver; an answering one may answer what it forwards.
RouterBroadcast ==
  /\ hand.step = "cast"
  /\ Receivers # {}
  /\ audience' = audience \cup
       {<<hand.id, UidOf[s]>> : s \in {t \in Receivers \cap Answering :
                                        /\ stream[t] = "on"
                                        /\ ShouldDeliver(hand.owner, UidOf[t])}}
  /\ sweepers' = sweepers \cup {hand.id}
  /\ hand' = Idle
  /\ UNCHANGED <<workerVars, promptQ, verdictQ, pending, taken, gauge,
                 accepted, stream, envVars>>

\* enqueue: every receiver vanished since the census; reclaim and fall back.
RouterReclaim ==
  /\ hand.step = "cast"
  /\ Receivers = {}
  /\ IF hand.id \in pending
     THEN /\ pending' = pending \ {hand.id}
          /\ gauge' = gauge - 1
          /\ \E noUi \in PolicyActions : SendVerdict(hand.id, FromPolicy(noUi))
     ELSE UNCHANGED <<pending, gauge, verdictQ>>
  /\ hand' = Idle
  /\ UNCHANGED <<workerVars, promptQ, sweepers, taken, audience, accepted,
                 stream, envVars>>

SubmitLeavesPending(id, uid, action) ==
  /\ routerUp
  /\ <<id, uid>> \in audience
  /\ id \in pending
  /\ taken' = taken \cup {[id |-> id, by |-> "User", action |-> action]}
  /\ accepted' = accepted \cup {<<id, uid, action>>}
  /\ UNCHANGED <<workerVars, promptQ, verdictQ, hand, pending, sweepers, gauge,
                 audience, stream, envVars>>

\* submit_verdict + PromptRouter::submit: the answer lands only if the prompt
\* is still pending; the caller is told so.
Submit(id, uid, action) ==
  /\ routerUp
  /\ <<id, uid>> \in audience
  /\ id \in pending
  /\ pending' = pending \ {id}
  /\ taken' = taken \cup {[id |-> id, by |-> "User", action |-> action]}
  /\ accepted' = accepted \cup {<<id, uid, action>>}
  /\ UNCHANGED <<workerVars, promptQ, verdictQ, hand, sweepers, gauge,
                 audience, stream, envVars>>

SweeperAlwaysResolves(id) ==
  /\ id \in sweepers
  /\ sweepers' = sweepers \ {id}
  /\ pending' = pending \ {id}
  /\ taken' = taken \cup {[id |-> id, by |-> "Timeout", action |-> "none"]}
  /\ UNCHANGED <<workerVars, promptQ, verdictQ, hand, gauge, audience,
                 accepted, stream, envVars>>

\* The sweeper of id wakes: it resolves the prompt unless someone has.
SweeperFires(id) ==
  /\ id \in sweepers
  /\ sweepers' = sweepers \ {id}
  /\ IF id \in pending
     THEN /\ pending' = pending \ {id}
          /\ taken' = taken \cup {[id |-> id, by |-> "Timeout", action |-> "none"]}
     ELSE UNCHANGED <<pending, taken>>
  /\ UNCHANGED <<workerVars, promptQ, verdictQ, hand, gauge, audience,
                 accepted, stream, envVars>>

\* Whoever took the prompt uncounts it and sends its verdict; a sweeper reads
\* the policy only now.
SendTaken(t) ==
  /\ t \in taken
  /\ taken' = taken \ {t}
  /\ gauge' = gauge - 1
  /\ IF t.by = "User"
     THEN SendVerdict(t.id, [action |-> t.action, source |-> "User"])
     ELSE \E timeout \in PolicyActions : SendVerdict(t.id, FromPolicy(timeout))
  /\ UNCHANGED <<workerVars, promptQ, hand, pending, sweepers, audience,
                 accepted, stream, envVars>>

Sweeper == \E id \in sweepers : SweeperFires(id)
Sending == \E t \in taken : SendTaken(t)
Router  == RouterRecv \/ RouterNoAudience \/ RouterInsert
           \/ RouterBroadcast \/ RouterReclaim
Client  == \E au \in audience, action \in Actions :
             Submit(au[1], au[2], action)

-----------------------------------------------------------------------------
(* Everything else that touches this state *)

\* stream_prompts: PromptRouter::subscribe registers, then subscribes.
StreamOpens(s) ==
  /\ routerUp
  /\ stream[s] = "off"
  /\ stream' = [stream EXCEPT ![s] = IF s \in Answering THEN "registered"
                                                        ELSE "on"]
  /\ UNCHANGED <<workerVars, promptQ, verdictQ, routerVars, envVars>>

StreamSubscribes(s) ==
  /\ stream[s] = "registered"
  /\ stream' = [stream EXCEPT ![s] = "on"]
  /\ UNCHANGED <<workerVars, promptQ, verdictQ, routerVars, envVars>>

\* The stream ends: Drop for PromptSubscription, then its receiver.
StreamCloses(s) ==
  /\ stream[s] \in {"on", "leaving"}
  /\ stream' = [stream EXCEPT ![s] = IF stream[s] = "on" /\ s \in Answering
                                     THEN "leaving" ELSE "off"]
  /\ UNCHANGED <<workerVars, promptQ, verdictQ, routerVars, envVars>>

\* Rule upserts, deletes and expiries, seen through Engine::peek.
RulesChange(f, d) ==
  /\ peek' = [peek EXCEPT ![f] = d]
  /\ UNCHANGED <<workerVars, promptQ, verdictQ, routerVars, stream,
                 stop, routerUp>>

\* main's shutdown: the stop flag first, the runtime and every task after it.
\* A task is dropped only where it awaits, never between the steps of one
\* resolution.
RequestStop ==
  /\ ~stop
  /\ stop' = TRUE
  /\ UNCHANGED <<workerVars, promptQ, verdictQ, routerVars, stream,
                 routerUp, peek>>

RuntimeShutdown ==
  /\ stop /\ routerUp
  /\ taken = {} /\ hand.step # "cast"
  /\ routerUp' = FALSE
  /\ promptQ' = <<>>
  /\ hand' = Idle
  /\ pending' = {} /\ sweepers' = {} /\ gauge' = 0
  /\ stream' = [s \in Streams |-> "off"]
  /\ UNCHANGED <<workerVars, verdictQ, taken, audience, accepted,
                 stop, peek>>

Environment ==
  \/ \E s \in Streams : StreamOpens(s) \/ StreamSubscribes(s) \/ StreamCloses(s)
  \/ \E f \in Flows, d \in Decisions : RulesChange(f, d)
  \/ RequestStop
  \/ RuntimeShutdown

-----------------------------------------------------------------------------
Init ==
  /\ wpc = "top" /\ ret = "top" /\ cur = NoResolution /\ recvErrors = 0
  /\ waiters = <<>> /\ pendingFlows = <<>>
  /\ nextPromptId = 1
  /\ channelOpen = TRUE
  /\ arrived = {}
  /\ verdict = [p \in Packets |-> NoVerdict]
  /\ resolvedBy = [p \in Packets |-> 0]
  /\ promptQ = <<>> /\ verdictQ = <<>>
  /\ hand = Idle
  /\ pending = {} /\ sweepers = {} /\ taken = {} /\ gauge = 0
  /\ audience = {} /\ accepted = {}
  /\ stream = [s \in Streams |-> "off"]
  /\ stop = FALSE /\ routerUp = TRUE
  /\ peek \in [Flows -> Decisions]

Next == WorkerRuns \/ WorkerFails \/ Router \/ Sweeper \/ Sending \/ Client \/ Environment

\* The worker thread, the router task, every timer and every task between
\* removing a prompt and sending its verdict keep running; clients, rule
\* writers and signals owe nothing.
Fairness ==
  /\ WF_vars(WorkerRuns)
  /\ WF_vars(Router)
  /\ WF_vars(Sweeper)
  /\ WF_vars(Sending)

Spec == Init /\ [][Next]_vars /\ Fairness

-----------------------------------------------------------------------------
(* Type correctness *)

PendingPrompts == [flow : Flows, packets : Seq(Packets), fallback : Verdicts]

LocalTypes ==
  /\ wpc \in WorkerStates
  /\ ret \in {"top", "drain", "flushRecv", "flushTop"}
  /\ cur \in [id : Nat, verdict : Verdicts \cup {NoVerdict},
              packets : Seq(Packets)]
  /\ recvErrors \in 0 .. MaxRecvErrors
  /\ channelOpen \in BOOLEAN

TableTypes ==
  /\ DOMAIN waiters \subseteq PromptIds
  /\ \A id \in DOMAIN waiters : waiters[id] \in PendingPrompts
  /\ DOMAIN pendingFlows \subseteq Flows
  /\ \A f \in DOMAIN pendingFlows : pendingFlows[f] \in PromptIds
  /\ nextPromptId \in PromptIds

KernelTypes ==
  /\ arrived \subseteq Packets
  /\ verdict \in [Packets -> Verdicts \cup {NoVerdict}]
  /\ resolvedBy \in [Packets -> Nat]

Requests == [id : PromptIds, owner : Uids \cup {NoUid}]
Answers  == [id : PromptIds, verdict : Verdicts]

ChannelTypes == promptQ \in Seq(Requests) /\ verdictQ \in Seq(Answers)

RouterTypes ==
  /\ hand \in {Idle} \cup [step : {"census", "cast"}, id : PromptIds,
                           owner : Uids \cup {NoUid}]
  /\ pending \subseteq PromptIds
  /\ sweepers \subseteq PromptIds
  /\ taken \subseteq [id : PromptIds, by : {"User"}, action : Actions]
                      \cup [id : PromptIds, by : {"Timeout"}, action : {"none"}]
  /\ gauge \in Int
  /\ audience \subseteq PromptIds \X Uids
  /\ accepted \subseteq PromptIds \X Uids \X Actions

EnvTypes ==
  /\ stream \in [Streams -> StreamStates]
  /\ stop \in BOOLEAN /\ routerUp \in BOOLEAN
  /\ peek \in [Flows -> Decisions]

\* Every variable stays in its type: the fields of Worker and RouterInner, the
\* messages of the two channels, and the shared cells.
TypeOK == LocalTypes /\ TableTypes /\ KernelTypes /\ ChannelTypes
          /\ RouterTypes /\ EnvTypes

-----------------------------------------------------------------------------
(* Safety: what the worker's maps promise *)

\* The invariant documented on Worker: waiters and pending_flows are inverse
\* to each other, so a flow has at most one outstanding prompt, and every
\* prompt holds between one and MAX_PACKETS_PER_PROMPT packets, all its own
\* flow's.  Riding, repair, fallback and resolution all edit these maps.
WaitersMatchFlows ==
  /\ \A f \in DOMAIN pendingFlows :
       /\ pendingFlows[f] \in DOMAIN waiters
       /\ waiters[pendingFlows[f]].flow = f
  /\ \A id \in DOMAIN waiters :
       /\ waiters[id].flow \in DOMAIN pendingFlows
       /\ pendingFlows[waiters[id].flow] = id
       /\ Len(waiters[id].packets) \in 1 .. MaxPacketsPerPrompt
       /\ \A i \in 1 .. Len(waiters[id].packets) :
            FlowOf[waiters[id].packets[i]] = waiters[id].flow

\* A flood of flows cannot pin more than MAX_PARKED_PROMPTS prompts, hence (with
\* the per-prompt cap above) no more kernel queue slots than their product.
BacklogBounded ==
  IsFiniteSet(DOMAIN waiters) /\ Cardinality(DOMAIN waiters) <= MaxParkedPrompts

\* What the two properties above need to be inductive: ids are handed out in
\* order, resolve_prompt always has a packet in hand, and the error count only
\* reaches its limit by ending the worker.
WorkerSteps ==
  /\ \A id \in DOMAIN waiters : id < nextPromptId
  /\ wpc = "resolve" => cur.packets # <<>> /\ cur.verdict \in Verdicts
  /\ wpc # "exited" => recvErrors < MaxRecvErrors

IInv == TypeOK /\ WaitersMatchFlows /\ BacklogBounded /\ WorkerSteps

\* Every packet read from the queue is either answered or still held by
\* exactly one prompt, in one place, unless the worker died: no branch of
\* handle_message, park_for_prompt or resolve_prompt loses or repeats one.
NoPacketLost ==
  wpc # "exited" =>
    \A p \in arrived :
      LET places == {at \in (DOMAIN waiters) \X (1 .. MaxPacketsPerPrompt) :
                       /\ at[2] <= Len(waiters[at[1]].packets)
                       /\ waiters[at[1]].packets[at[2]] = p}
          left == {i \in 1 .. Len(cur.packets) : cur.packets[i] = p}
      IN  Cardinality(places) + Cardinality(left)
            = IF verdict[p] = NoVerdict THEN 1 ELSE 0

-----------------------------------------------------------------------------
(* Safety: one resolution per prompt *)

IdsIn(q) == {q[i].id : i \in DOMAIN q}

\* The number of places a prompt's resolution can come from.
Resolutions(id) ==
  Cardinality({i \in DOMAIN promptQ : promptQ[i].id = id})
  + (IF hand.step = "census" /\ hand.id = id THEN 1 ELSE 0)
  + (IF id \in pending THEN 1 ELSE 0)
  + Cardinality({t \in taken : t.id = id})
  + Cardinality({i \in DOMAIN verdictQ : verdictQ[i].id = id})

\* While the router runs, each outstanding prompt has exactly one resolution
\* under way, a pending one always has a sweeper or the router about to arm
\* it, and no verdict is under way for a prompt that is not outstanding: no
\* packet waits for ever, and the "late duplicate" branch of resolve_prompt
\* is never needed.  Stats::prompts_pending, an unsigned counter, counts the
\* prompts pending or just taken: it neither wraps below zero nor drifts.
OneResolution ==
  /\ gauge = Cardinality(pending) + Cardinality(taken)
  /\ (routerUp /\ wpc # "exited") =>
    /\ \A id \in DOMAIN waiters : Resolutions(id) = 1
    /\ \A id \in pending : id \in sweepers \/ (hand.step = "cast" /\ hand.id = id)
    /\ IdsIn(promptQ) \cup IdsIn(verdictQ) \cup pending
         \cup {t.id : t \in taken} \subseteq DOMAIN waiters

-----------------------------------------------------------------------------
(* Liveness *)

\* Every packet the worker reads gets its verdict, or the worker died (and
\* the kernel drops what it held), whoever of the client, the sweeper and the
\* router hanging up resolves its prompt; and a requested stop is observed.
EveryPacketAnswered ==
  /\ \A p \in Packets :
       (p \in arrived) ~> (verdict[p] # NoVerdict \/ wpc = "exited")
  /\ stop ~> (wpc = "exited")

=============================================================================
