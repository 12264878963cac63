-------------------------- MODULE PromptFlowProofs --------------------------
(***************************************************************************)
(* Proofs about PromptFlow for every set of packets, flows and clients and *)
(* every value of the caps: the tables and the backlog, that a prompt      *)
(* takes one resolution, that no packet is lost, and that PromptFlow       *)
(* implements AskUser.                                                     *)
(***************************************************************************)
EXTENDS PromptRefinement, FiniteSetTheorems, SequenceTheorems, TLAPS

USE DEF PromptIds, PendingPrompts, workerVars, locals, tables, kernel,
        elsewhere, routerVars, envVars

\* What a peek outcome or a resolution gives is a verdict.
LEMMA DecisionIsVerdict ==
  ASSUME NEW d \in AllDecisions, d \notin {"Ask", "AskUndecided"}
  PROVE  FromDecision(d) \in Verdicts
BY DEF FromDecision, AllDecisions, Verdicts, Actions, Sources

LEMMA ResolutionIsVerdict ==
  ASSUME NEW d \in AllDecisions, NEW pv \in Verdicts
  PROVE  ResolutionVerdict(d, pv) \in Verdicts
BY DEF ResolutionVerdict, FromDecision, Refusals, AllDecisions, Verdicts,
       Actions, Sources

LEMMA HandledIsVerdict ==
  ASSUME NEW c \in Classes, NEW d \in AllDecisions, NEW paused \in BOOLEAN,
         NEW noUi \in PolicyActions
  PROVE  HandlePacket(c, d, paused, noUi) \in Verdicts \cup {NoVerdict}
BY PromptFlowAssumption
   DEF HandlePacket, Silent, NoVerdict, FromDecision, FromPolicy, InboundDefault, Classes,
       AllDecisions, Verdicts, Actions, Sources

LEMMA PolicyIsVerdict ==
  ASSUME NEW a \in PolicyActions
  PROVE  FromPolicy(a) \in Verdicts
BY PromptFlowAssumption DEF FromPolicy, Verdicts, Actions, Sources

-----------------------------------------------------------------------------
(* Type correctness *)

LEMMA TypeInit == Init => TypeOK
<1> SUFFICES ASSUME Init PROVE TypeOK
  OBVIOUS
<1>1. LocalTypes
  BY PromptFlowAssumption DEF Init, LocalTypes, NoResolution, WorkerStates
<1>2. TableTypes
  BY DEF Init, TableTypes
<1>3. KernelTypes
  BY DEF Init, KernelTypes
<1>4. ChannelTypes
  BY DEF Init, ChannelTypes
<1>5. RouterTypes
  BY DEF Init, RouterTypes
<1>6. EnvTypes
  BY DEF Init, EnvTypes, StreamStates
<1> QED
  BY <1>1, <1>2, <1>3, <1>4, <1>5, <1>6 DEF TypeOK

LEMMA TypeWorkerTop ==
  ASSUME IInv, WorkerTop
  PROVE  TypeOK'
<1> USE DEF IInv, TypeOK
<1>1. LocalTypes'
  BY PromptFlowAssumption
  DEF WorkerTop, LocalTypes, WorkerStates
<1>2. TableTypes' /\ KernelTypes' /\ ChannelTypes' /\ RouterTypes' /\ EnvTypes'
  BY DEF WorkerTop, TableTypes, KernelTypes, ChannelTypes, RouterTypes,
         EnvTypes
<1> QED
  BY <1>1, <1>2

LEMMA TypeTakeVerdict ==
  ASSUME IInv, TakeVerdict
  PROVE  TypeOK'
<1> USE DEF IInv, TypeOK
<1>1. LocalTypes'
  <2>1. Head(verdictQ) \in Answers
    BY DEF TakeVerdict, ChannelTypes
  <2>2. ret' \in {"top", "drain", "flushRecv", "flushTop"} /\ wpc' \in WorkerStates
    BY DEF TakeVerdict, ResolveBegin, LocalTypes, WorkerStates
  <2>3. cur' \in [id : Nat, verdict : Verdicts \cup {NoVerdict},
                 packets : Seq(Packets)]
    BY <2>1 DEF TakeVerdict, ResolveBegin, LocalTypes, TableTypes, Answers
  <2> QED
    BY <2>2, <2>3 DEF TakeVerdict, LocalTypes
<1>2. TableTypes'
  BY PromptFlowAssumption
  DEF TakeVerdict, TableTypes, ResolveBegin, FlowsAfterResolve, Restrict
<1>3. ChannelTypes'
  BY PromptFlowAssumption
  DEF TakeVerdict, ChannelTypes, Requests, Answers
<1>4. KernelTypes' /\ RouterTypes' /\ EnvTypes'
  BY DEF TakeVerdict, KernelTypes, RouterTypes, EnvTypes
<1> QED
  BY <1>1, <1>2, <1>3, <1>4

LEMMA TypeDrainEmpty ==
  ASSUME IInv, DrainEmpty
  PROVE  TypeOK'
<1> USE DEF IInv, TypeOK
<1>1. LocalTypes'
  BY PromptFlowAssumption
  DEF DrainEmpty, LocalTypes, WorkerStates
<1>2. TableTypes' /\ KernelTypes' /\ ChannelTypes' /\ RouterTypes' /\ EnvTypes'
  BY DEF DrainEmpty, TableTypes, KernelTypes, ChannelTypes, RouterTypes,
         EnvTypes
<1> QED
  BY <1>1, <1>2

LEMMA TypeCloseVerdictChannel ==
  ASSUME IInv, CloseVerdictChannel
  PROVE  TypeOK'
<1> USE DEF IInv, TypeOK
<1>1. LocalTypes'
  BY PromptFlowAssumption
  DEF CloseVerdictChannel, LocalTypes, WorkerStates
<1>2. TableTypes' /\ KernelTypes' /\ ChannelTypes' /\ RouterTypes' /\ EnvTypes'
  BY DEF CloseVerdictChannel, TableTypes, KernelTypes, ChannelTypes,
         RouterTypes, EnvTypes
<1> QED
  BY <1>1, <1>2

LEMMA TypeFlushWaiter ==
  ASSUME IInv, FlushWaiter
  PROVE  TypeOK'
<1> USE DEF IInv, TypeOK
<1>1. LocalTypes'
  BY PromptFlowAssumption
  DEF FlushWaiter, LocalTypes, ResolveBegin, WorkerStates, TableTypes
<1>2. TableTypes'
  BY PromptFlowAssumption
  DEF FlushWaiter, TableTypes, ResolveBegin, FlowsAfterResolve, Restrict
<1>3. KernelTypes' /\ ChannelTypes' /\ RouterTypes' /\ EnvTypes'
  BY DEF FlushWaiter, KernelTypes, ChannelTypes, RouterTypes, EnvTypes
<1> QED
  BY <1>1, <1>2, <1>3

LEMMA TypeFlushDone ==
  ASSUME IInv, FlushDone
  PROVE  TypeOK'
<1> USE DEF IInv, TypeOK
<1>1. LocalTypes'
  BY PromptFlowAssumption
  DEF FlushDone, LocalTypes, WorkerStates
<1>2. TableTypes' /\ KernelTypes' /\ ChannelTypes' /\ RouterTypes' /\ EnvTypes'
  BY DEF FlushDone, TableTypes, KernelTypes, ChannelTypes, RouterTypes,
         EnvTypes
<1> QED
  BY <1>1, <1>2

LEMMA TypeResolvePacket ==
  ASSUME IInv, ResolvePacket
  PROVE  TypeOK'
<1> USE DEF IInv, TypeOK
<1>1. LocalTypes'
  <2>1. cur.packets # <<>> /\ cur.packets \in Seq(Packets)
    BY DEF ResolvePacket, WorkerSteps, LocalTypes
  <2>2. Tail(cur.packets) \in Seq(Packets)
    BY <2>1
  <2> DEFINE Resolving == [id : Nat, verdict : Verdicts \cup {NoVerdict},
                             packets : Seq(Packets)]
  <2>3. NoResolution \in Resolving
    BY DEF NoResolution
  <2>4. [cur EXCEPT !.packets = Tail(@)] \in Resolving
    BY <2>2 DEF LocalTypes
  <2>5. cur' \in Resolving
    BY <2>3, <2>4 DEF ResolvePacket
  <2> QED
    BY <2>5 DEF ResolvePacket, LocalTypes, WorkerStates
<1>2. KernelTypes'
  <2>1. cur.packets # <<>> /\ cur.verdict \in Verdicts
    BY DEF ResolvePacket, WorkerSteps
  <2>2. Head(cur.packets) \in Packets
    BY <2>1 DEF LocalTypes
  <2>3. peek[FlowOf[Head(cur.packets)]] \in AllDecisions
    BY <2>2, PromptFlowAssumption DEF EnvTypes
  <2>4. ResolutionVerdict(peek[FlowOf[Head(cur.packets)]], cur.verdict) \in Verdicts
    BY <2>1, <2>3, ResolutionIsVerdict
  <2> QED
    BY <2>4 DEF ResolvePacket, Deliver, KernelTypes, LocalTypes
<1>3. TableTypes' /\ ChannelTypes' /\ RouterTypes' /\ EnvTypes'
  BY DEF ResolvePacket, TableTypes, ChannelTypes, RouterTypes, EnvTypes
<1> QED
  BY <1>1, <1>2, <1>3

LEMMA TypeVerdictFails ==
  ASSUME IInv, VerdictFails
  PROVE  TypeOK'
<1> USE DEF IInv, TypeOK
<1>1. LocalTypes'
  BY PromptFlowAssumption
  DEF VerdictFails, LocalTypes, WorkerStates
<1>2. TableTypes' /\ KernelTypes' /\ ChannelTypes' /\ RouterTypes' /\ EnvTypes'
  BY DEF VerdictFails, TableTypes, KernelTypes, ChannelTypes, RouterTypes,
         EnvTypes
<1> QED
  BY <1>1, <1>2

LEMMA TypeHandleSettled ==
  ASSUME IInv, NEW p \in Packets, HandleSettled(p)
  PROVE  TypeOK'
<1> USE DEF IInv, TypeOK
<1>1. LocalTypes'
  BY PromptFlowAssumption
  DEF HandleSettled, LocalTypes, Receive, WorkerStates
<1>2. KernelTypes'
  <2>1. peek[FlowOf[p]] \in AllDecisions
    BY PromptFlowAssumption DEF EnvTypes
  <2>2. PICK v \in Verdicts \cup {NoVerdict} : Deliver(p, v, 0)
    BY <2>1, HandledIsVerdict DEF HandleSettled
  <2> QED
    BY <2>2 DEF HandleSettled, Receive, Deliver, KernelTypes
<1>3. TableTypes' /\ ChannelTypes' /\ RouterTypes' /\ EnvTypes'
  BY DEF HandleSettled, Receive, TableTypes, ChannelTypes, RouterTypes,
         EnvTypes
<1> QED
  BY <1>1, <1>2, <1>3

LEMMA TypeRidePrompt ==
  ASSUME IInv, NEW p \in Packets, RidePrompt(p)
  PROVE  TypeOK'
<1> USE DEF IInv, TypeOK
<1>1. LocalTypes'
  BY PromptFlowAssumption
  DEF RidePrompt, LocalTypes, Receive, WorkerStates
<1>2. TableTypes'
  <2> DEFINE id == pendingFlows[FlowOf[p]]
  <2>1. id \in DOMAIN waiters /\ waiters[id] \in PendingPrompts
    BY DEF RidePrompt, RidesOn, TableTypes
  <2>2. Append(waiters[id].packets, p) \in Seq(Packets)
    BY <2>1
  <2>3. waiters' = [waiters EXCEPT ![id].packets = Append(@, p)]
    BY DEF RidePrompt
  <2>4. \A i \in DOMAIN waiters' : waiters'[i] \in PendingPrompts
    BY <2>1, <2>2, <2>3 DEF TableTypes
  <2> QED
    BY <2>3, <2>4 DEF RidePrompt, TableTypes
<1>3. KernelTypes'
  BY PromptFlowAssumption
  DEF RidePrompt, KernelTypes, Receive
<1>4. ChannelTypes' /\ RouterTypes' /\ EnvTypes'
  BY DEF RidePrompt, Receive, ChannelTypes, RouterTypes, EnvTypes
<1> QED
  BY <1>1, <1>2, <1>3, <1>4

LEMMA TypeRideOverflow ==
  ASSUME IInv, NEW p \in Packets, RideOverflow(p)
  PROVE  TypeOK'
<1> USE DEF IInv, TypeOK
<1>1. LocalTypes'
  BY PromptFlowAssumption
  DEF RideOverflow, LocalTypes, Receive, WorkerStates
<1>2. KernelTypes'
  BY PromptFlowAssumption, PolicyIsVerdict
  DEF RideOverflow, KernelTypes, Receive, DeliverFallback, Deliver
<1>3. TableTypes' /\ ChannelTypes' /\ RouterTypes' /\ EnvTypes'
  BY DEF RideOverflow, Receive, TableTypes, ChannelTypes, RouterTypes,
         EnvTypes
<1> QED
  BY <1>1, <1>2, <1>3

LEMMA TypeBacklogFull ==
  ASSUME IInv, NEW p \in Packets, BacklogFull(p)
  PROVE  TypeOK'
<1> USE DEF IInv, TypeOK
<1>1. LocalTypes'
  BY PromptFlowAssumption
  DEF BacklogFull, LocalTypes, Receive, WorkerStates
<1>2. TableTypes'
  BY PromptFlowAssumption
  DEF BacklogFull, TableTypes, FlowsAfterRepair, Restrict
<1>3. KernelTypes'
  BY PromptFlowAssumption, PolicyIsVerdict
  DEF BacklogFull, KernelTypes, Receive, DeliverFallback, Deliver
<1>4. ChannelTypes' /\ RouterTypes' /\ EnvTypes'
  BY DEF BacklogFull, Receive, ChannelTypes, RouterTypes, EnvTypes
<1> QED
  BY <1>1, <1>2, <1>3, <1>4

LEMMA TypeOpenPrompt ==
  ASSUME IInv, NEW p \in Packets, OpenPrompt(p)
  PROVE  TypeOK'
<1> USE DEF IInv, TypeOK
<1>1. LocalTypes'
  BY PromptFlowAssumption
  DEF OpenPrompt, LocalTypes, Receive, WorkerStates
<1>2. TableTypes'
  BY PromptFlowAssumption, PolicyIsVerdict
  DEF OpenPrompt, TableTypes
<1>3. KernelTypes'
  BY PromptFlowAssumption
  DEF OpenPrompt, KernelTypes, Receive
<1>4. ChannelTypes'
  BY PromptFlowAssumption
  DEF OpenPrompt, ChannelTypes, Receive, TableTypes, Requests, Answers
<1>5. RouterTypes' /\ EnvTypes'
  BY DEF OpenPrompt, Receive, RouterTypes, EnvTypes
<1> QED
  BY <1>1, <1>2, <1>3, <1>4, <1>5

LEMMA TypeRouterUnavailable ==
  ASSUME IInv, NEW p \in Packets, RouterUnavailable(p)
  PROVE  TypeOK'
<1> USE DEF IInv, TypeOK
<1>1. LocalTypes'
  BY PromptFlowAssumption
  DEF RouterUnavailable, LocalTypes, Receive, WorkerStates
<1>2. TableTypes'
  BY PromptFlowAssumption
  DEF RouterUnavailable, TableTypes, FlowsAfterRepair, Restrict
<1>3. KernelTypes'
  BY PromptFlowAssumption, PolicyIsVerdict
  DEF RouterUnavailable, KernelTypes, Receive, DeliverFallback, Deliver
<1>4. ChannelTypes' /\ RouterTypes' /\ EnvTypes'
  BY DEF RouterUnavailable, Receive, ChannelTypes, RouterTypes, EnvTypes
<1> QED
  BY <1>1, <1>2, <1>3, <1>4

LEMMA TypeRecvNothing ==
  ASSUME IInv, RecvNothing
  PROVE  TypeOK'
<1> USE DEF IInv, TypeOK
<1>1. LocalTypes'
  BY PromptFlowAssumption
  DEF RecvNothing, LocalTypes, WorkerStates
<1>2. TableTypes' /\ KernelTypes' /\ ChannelTypes' /\ RouterTypes' /\ EnvTypes'
  BY DEF RecvNothing, TableTypes, KernelTypes, ChannelTypes, RouterTypes,
         EnvTypes
<1> QED
  BY <1>1, <1>2

LEMMA TypeRecvError ==
  ASSUME IInv, RecvError
  PROVE  TypeOK'
<1> USE DEF IInv, TypeOK
<1>1. LocalTypes'
  BY PromptFlowAssumption
  DEF RecvError, LocalTypes, WorkerStates, WorkerSteps, GiveUp
<1>2. TableTypes' /\ KernelTypes' /\ ChannelTypes' /\ RouterTypes' /\ EnvTypes'
  BY DEF RecvError, TableTypes, KernelTypes, ChannelTypes, RouterTypes,
         EnvTypes
<1> QED
  BY <1>1, <1>2

LEMMA TypeRouterRecv ==
  ASSUME IInv, RouterRecv
  PROVE  TypeOK'
<1> USE DEF IInv, TypeOK
<1>1. ChannelTypes'
  BY PromptFlowAssumption
  DEF RouterRecv, ChannelTypes, Requests, Answers
<1>2. RouterTypes'
  <2>1. Head(promptQ) \in Requests
    BY DEF RouterRecv, ChannelTypes
  <2>2. hand' \in [step : {"census", "cast"}, id : PromptIds,
                  owner : Uids \cup {NoUid}]
    BY <2>1 DEF RouterRecv, Requests
  <2> QED
    BY <2>2 DEF RouterRecv, RouterTypes
<1>3. LocalTypes' /\ TableTypes' /\ KernelTypes' /\ EnvTypes'
  BY DEF RouterRecv, LocalTypes, TableTypes, KernelTypes, EnvTypes
<1> QED
  BY <1>1, <1>2, <1>3

LEMMA TypeRouterNoAudience ==
  ASSUME IInv, RouterNoAudience
  PROVE  TypeOK'
<1> USE DEF IInv, TypeOK
<1>1. ChannelTypes'
  BY PromptFlowAssumption, PolicyIsVerdict
  DEF RouterNoAudience, ChannelTypes, SendVerdict, RouterTypes, Idle,
      Requests, Answers
<1>2. RouterTypes'
  BY PromptFlowAssumption
  DEF RouterNoAudience, RouterTypes, Idle
<1>3. LocalTypes' /\ TableTypes' /\ KernelTypes' /\ EnvTypes'
  BY DEF RouterNoAudience, LocalTypes, TableTypes, KernelTypes, EnvTypes
<1> QED
  BY <1>1, <1>2, <1>3

LEMMA TypeRouterInsert ==
  ASSUME IInv, RouterInsert
  PROVE  TypeOK'
<1> USE DEF IInv, TypeOK
<1>1. RouterTypes'
  BY PromptFlowAssumption
  DEF RouterInsert, RouterTypes, Idle
<1>2. LocalTypes' /\ TableTypes' /\ KernelTypes' /\ ChannelTypes' /\ EnvTypes'
  BY DEF RouterInsert, LocalTypes, TableTypes, KernelTypes, ChannelTypes,
         EnvTypes
<1> QED
  BY <1>1, <1>2

LEMMA TypeRouterBroadcast ==
  ASSUME IInv, RouterBroadcast
  PROVE  TypeOK'
<1> USE DEF IInv, TypeOK
<1>1. RouterTypes'
  <2>1. hand.id \in PromptIds
    BY DEF RouterBroadcast, RouterTypes, Idle
  <2>2. audience' \subseteq PromptIds \X Uids
    BY <2>1, PromptFlowAssumption DEF RouterBroadcast, RouterTypes, Receivers
  <2> QED
    BY <2>1, <2>2 DEF RouterBroadcast, RouterTypes
<1>2. LocalTypes' /\ TableTypes' /\ KernelTypes' /\ ChannelTypes' /\ EnvTypes'
  BY DEF RouterBroadcast, LocalTypes, TableTypes, KernelTypes, ChannelTypes,
         EnvTypes
<1> QED
  BY <1>1, <1>2

LEMMA TypeRouterReclaim ==
  ASSUME IInv, RouterReclaim
  PROVE  TypeOK'
<1> USE DEF IInv, TypeOK
<1>1. ChannelTypes'
  <2>1. hand.id \in PromptIds
    BY DEF RouterReclaim, RouterTypes, Idle
  <2>2. CASE hand.id \in pending
    <3>1. PICK a \in PolicyActions :
            verdictQ' = Append(verdictQ, [id |-> hand.id, verdict |-> FromPolicy(a)])
      BY <2>2 DEF RouterReclaim, SendVerdict
    <3>2. [id |-> hand.id, verdict |-> FromPolicy(a)] \in Answers
      BY <2>1, PolicyIsVerdict DEF Answers
    <3> QED
      BY <3>1, <3>2 DEF RouterReclaim, ChannelTypes
  <2>3. CASE hand.id \notin pending
    BY <2>3 DEF RouterReclaim, ChannelTypes
  <2> QED
    BY <2>2, <2>3
<1>2. RouterTypes'
  <2>1. CASE hand.id \in pending
    <3>1. pending' = pending \ {hand.id} /\ gauge' = gauge - 1
      BY <2>1 DEF RouterReclaim
    <3>2. hand' = Idle /\ UNCHANGED <<sweepers, taken, audience, accepted>>
      BY DEF RouterReclaim
    <3>3. pending' \subseteq PromptIds
      BY <3>1 DEF RouterTypes
    <3>4. gauge' \in Int
      BY <3>1 DEF RouterTypes
    <3> QED
      BY <3>2, <3>3, <3>4 DEF RouterTypes
  <2>2. CASE hand.id \notin pending
    BY <2>2 DEF RouterReclaim, RouterTypes
  <2> QED
    BY <2>1, <2>2
<1>3. LocalTypes' /\ TableTypes' /\ KernelTypes' /\ EnvTypes'
  BY DEF RouterReclaim, LocalTypes, TableTypes, KernelTypes, EnvTypes
<1> QED
  BY <1>1, <1>2, <1>3

LEMMA TypeSubmit ==
  ASSUME IInv, NEW id, NEW uid, NEW action \in Actions, Submit(id, uid, action)
  PROVE  TypeOK'
<1> USE DEF IInv, TypeOK
<1>1. RouterTypes'
  <2>1. id \in PromptIds /\ uid \in Uids
    BY DEF Submit, RouterTypes
  <2>2. accepted' \subseteq PromptIds \X Uids \X Actions
    BY <2>1 DEF Submit, RouterTypes
  <2>3. [id |-> id, by |-> "User", action |-> action]
          \in [id : PromptIds, by : {"User"}, action : Actions]
    BY <2>1
  <2> QED
    BY <2>2, <2>3 DEF Submit, RouterTypes
<1>2. LocalTypes' /\ TableTypes' /\ KernelTypes' /\ ChannelTypes' /\ EnvTypes'
  BY DEF Submit, LocalTypes, TableTypes, KernelTypes, ChannelTypes, EnvTypes
<1> QED
  BY <1>1, <1>2

LEMMA TypeSweeperFires ==
  ASSUME IInv, NEW id, SweeperFires(id)
  PROVE  TypeOK'
<1> USE DEF IInv, TypeOK
<1>1. RouterTypes'
  <2>1. id \in PromptIds
    BY DEF SweeperFires, RouterTypes
  <2>2. [id |-> id, by |-> "Timeout", action |-> "none"]
          \in [id : PromptIds, by : {"Timeout"}, action : {"none"}]
    BY <2>1
  <2> QED
    BY <2>2 DEF SweeperFires, RouterTypes
<1>2. LocalTypes' /\ TableTypes' /\ KernelTypes' /\ ChannelTypes' /\ EnvTypes'
  BY DEF SweeperFires, LocalTypes, TableTypes, KernelTypes, ChannelTypes,
         EnvTypes
<1> QED
  BY <1>1, <1>2

LEMMA TypeSendTaken ==
  ASSUME IInv, NEW t, SendTaken(t)
  PROVE  TypeOK'
<1> USE DEF IInv, TypeOK
<1>1. ChannelTypes'
  <2>1. t \in [id : PromptIds, by : {"User"}, action : Actions]
         \/ t \in [id : PromptIds, by : {"Timeout"}, action : {"none"}]
    BY DEF SendTaken, RouterTypes
  <2>2. PICK v \in Verdicts : verdictQ' = Append(verdictQ, [id |-> t.id, verdict |-> v])
    BY <2>1, PolicyIsVerdict DEF SendTaken, SendVerdict, Verdicts, Sources
  <2>3. [id |-> t.id, verdict |-> v] \in Answers
    BY <2>1 DEF Answers
  <2> QED
    BY <2>2, <2>3 DEF SendTaken, ChannelTypes
<1>2. RouterTypes'
  BY PromptFlowAssumption
  DEF SendTaken, RouterTypes
<1>3. LocalTypes' /\ TableTypes' /\ KernelTypes' /\ EnvTypes'
  BY DEF SendTaken, LocalTypes, TableTypes, KernelTypes, EnvTypes
<1> QED
  BY <1>1, <1>2, <1>3

LEMMA TypeStreamOpens ==
  ASSUME IInv, NEW s \in Streams, StreamOpens(s)
  PROVE  TypeOK'
<1> USE DEF IInv, TypeOK
<1>1. EnvTypes'
  BY PromptFlowAssumption
  DEF StreamOpens, EnvTypes, StreamStates
<1>2. LocalTypes' /\ TableTypes' /\ KernelTypes' /\ ChannelTypes' /\ RouterTypes'
  BY DEF StreamOpens, LocalTypes, TableTypes, KernelTypes, ChannelTypes,
         RouterTypes
<1> QED
  BY <1>1, <1>2

LEMMA TypeStreamSubscribes ==
  ASSUME IInv, NEW s \in Streams, StreamSubscribes(s)
  PROVE  TypeOK'
<1> USE DEF IInv, TypeOK
<1>1. EnvTypes'
  BY PromptFlowAssumption
  DEF StreamSubscribes, EnvTypes, StreamStates
<1>2. LocalTypes' /\ TableTypes' /\ KernelTypes' /\ ChannelTypes' /\ RouterTypes'
  BY DEF StreamSubscribes, LocalTypes, TableTypes, KernelTypes, ChannelTypes,
         RouterTypes
<1> QED
  BY <1>1, <1>2

LEMMA TypeStreamCloses ==
  ASSUME IInv, NEW s \in Streams, StreamCloses(s)
  PROVE  TypeOK'
<1> USE DEF IInv, TypeOK
<1>1. EnvTypes'
  BY PromptFlowAssumption
  DEF StreamCloses, EnvTypes, StreamStates
<1>2. LocalTypes' /\ TableTypes' /\ KernelTypes' /\ ChannelTypes' /\ RouterTypes'
  BY DEF StreamCloses, LocalTypes, TableTypes, KernelTypes, ChannelTypes,
         RouterTypes
<1> QED
  BY <1>1, <1>2

LEMMA TypeRulesChange ==
  ASSUME IInv, NEW f \in Flows, NEW d \in Decisions, RulesChange(f, d)
  PROVE  TypeOK'
<1> USE DEF IInv, TypeOK
<1>1. EnvTypes'
  BY PromptFlowAssumption
  DEF RulesChange, EnvTypes
<1>2. LocalTypes' /\ TableTypes' /\ KernelTypes' /\ ChannelTypes' /\ RouterTypes'
  BY DEF RulesChange, LocalTypes, TableTypes, KernelTypes, ChannelTypes,
         RouterTypes
<1> QED
  BY <1>1, <1>2

LEMMA TypeRequestStop ==
  ASSUME IInv, RequestStop
  PROVE  TypeOK'
<1> USE DEF IInv, TypeOK
<1>1. EnvTypes'
  BY PromptFlowAssumption
  DEF RequestStop, EnvTypes
<1>2. LocalTypes' /\ TableTypes' /\ KernelTypes' /\ ChannelTypes' /\ RouterTypes'
  BY DEF RequestStop, LocalTypes, TableTypes, KernelTypes, ChannelTypes,
         RouterTypes
<1> QED
  BY <1>1, <1>2

LEMMA TypeRuntimeShutdown ==
  ASSUME IInv, RuntimeShutdown
  PROVE  TypeOK'
<1> USE DEF IInv, TypeOK
<1>1. ChannelTypes'
  BY PromptFlowAssumption
  DEF RuntimeShutdown, ChannelTypes, Requests, Answers
<1>2. RouterTypes'
  BY PromptFlowAssumption
  DEF RuntimeShutdown, RouterTypes
<1>3. EnvTypes'
  BY PromptFlowAssumption
  DEF RuntimeShutdown, EnvTypes, StreamStates
<1>4. LocalTypes' /\ TableTypes' /\ KernelTypes'
  BY DEF RuntimeShutdown, LocalTypes, TableTypes, KernelTypes
<1> QED
  BY <1>1, <1>2, <1>3, <1>4

LEMMA TypeStep ==
  ASSUME IInv, [Next]_vars
  PROVE  TypeOK'
<1>1. CASE WorkerRuns
  BY <1>1, TypeWorkerTop, TypeTakeVerdict, TypeDrainEmpty,
     TypeCloseVerdictChannel, TypeFlushWaiter, TypeFlushDone,
     TypeResolvePacket, TypeRecvNothing, TypeHandleSettled, TypeRidePrompt,
     TypeRideOverflow, TypeBacklogFull, TypeOpenPrompt, TypeRouterUnavailable
  DEF WorkerRuns
<1>2. CASE WorkerFails
  BY <1>2, TypeVerdictFails, TypeRecvError DEF WorkerFails
<1>3. CASE Router
  BY <1>3, TypeRouterRecv, TypeRouterNoAudience, TypeRouterInsert,
     TypeRouterBroadcast, TypeRouterReclaim
  DEF Router
<1>4. CASE Sweeper \/ Sending
  BY <1>4, TypeSweeperFires, TypeSendTaken DEF Sweeper, Sending
<1>5. CASE Client
  BY <1>5, TypeSubmit DEF Client
<1>6. CASE Environment
  BY <1>6, TypeStreamOpens, TypeStreamSubscribes, TypeStreamCloses,
     TypeRulesChange, TypeRequestStop, TypeRuntimeShutdown
  DEF Environment
<1>7. CASE UNCHANGED vars
  BY <1>7 DEF IInv, TypeOK, LocalTypes, TableTypes, KernelTypes, ChannelTypes,
              RouterTypes, EnvTypes, vars
<1> QED
  BY <1>1, <1>2, <1>3, <1>4, <1>5, <1>6, <1>7 DEF Next

-----------------------------------------------------------------------------
(* The worker's tables *)

\* Both maps lose the entry of a resolved prompt together.
LEMMA MatchRemove ==
  ASSUME IInv, NEW id \in DOMAIN waiters,
         DOMAIN waiters' = DOMAIN waiters \ {id},
         \A i \in DOMAIN waiters' : waiters'[i] = waiters[i],
         DOMAIN pendingFlows' = DOMAIN pendingFlows \ {waiters[id].flow},
         \A f \in DOMAIN pendingFlows' : pendingFlows'[f] = pendingFlows[f]
  PROVE  WaitersMatchFlows' /\ BacklogBounded'
<1>1. WaitersMatchFlows'
  <2>1. \A f \in DOMAIN pendingFlows' :
          /\ pendingFlows'[f] \in DOMAIN waiters'
          /\ waiters'[pendingFlows'[f]].flow = f
    BY DEF IInv, WaitersMatchFlows
  <2>2. ASSUME NEW i \in DOMAIN waiters'
        PROVE  waiters'[i].flow \in DOMAIN pendingFlows'
               /\ pendingFlows'[waiters'[i].flow] = i
    BY DEF IInv, WaitersMatchFlows
  <2>3. ASSUME NEW i \in DOMAIN waiters'
        PROVE  /\ Len(waiters'[i].packets) \in 1 .. MaxPacketsPerPrompt
               /\ \A k \in 1 .. Len(waiters'[i].packets) :
                    FlowOf[waiters'[i].packets[k]] = waiters'[i].flow
    BY DEF IInv, WaitersMatchFlows
  <2> QED
    BY <2>1, <2>2, <2>3 DEF WaitersMatchFlows
<1>2. IsFiniteSet(DOMAIN waiters')
      /\ Cardinality(DOMAIN waiters') = Cardinality(DOMAIN waiters) - 1
  BY FS_RemoveElement DEF IInv, BacklogBounded
<1> QED
  BY <1>1, <1>2, FS_CardinalityType, PromptFlowAssumption DEF IInv, BacklogBounded

LEMMA MatchResolve ==
  ASSUME IInv, NEW id \in DOMAIN waiters,
         waiters' = Restrict(waiters, DOMAIN waiters \ {id}),
         pendingFlows' = FlowsAfterResolve(id)
  PROVE  WaitersMatchFlows' /\ BacklogBounded'
<1>1. DOMAIN waiters' = DOMAIN waiters \ {id}
      /\ \A i \in DOMAIN waiters' : waiters'[i] = waiters[i]
  BY DEF Restrict
<1>2. DOMAIN pendingFlows' = DOMAIN pendingFlows \ {waiters[id].flow}
      /\ \A f \in DOMAIN pendingFlows' : pendingFlows'[f] = pendingFlows[f]
  BY DEF Restrict, FlowsAfterResolve
<1> QED
  BY <1>1, <1>2, MatchRemove

\* Where nothing rides, the flow has no entry, and the repair changes nothing.
LEMMA RepairIsIdle ==
  ASSUME IInv, NEW p \in Packets, ~RidesOn(p)
  PROVE  /\ FlowOf[p] \notin DOMAIN pendingFlows
         /\ DOMAIN FlowsAfterRepair(p) = DOMAIN pendingFlows
         /\ \A f \in DOMAIN pendingFlows : FlowsAfterRepair(p)[f] = pendingFlows[f]
BY DEF RidesOn, FlowsAfterRepair, Restrict, IInv, WaitersMatchFlows

LEMMA MatchRide ==
  ASSUME IInv, NEW p \in Packets, RidePrompt(p)
  PROVE  WaitersMatchFlows' /\ BacklogBounded'
<1> DEFINE id == pendingFlows[FlowOf[p]]
<1>1. id \in DOMAIN waiters /\ waiters[id] \in PendingPrompts
      /\ waiters[id].flow = FlowOf[p]
  BY DEF RidePrompt, RidesOn, IInv, TypeOK, TableTypes, WaitersMatchFlows
<1>2. waiters' = [waiters EXCEPT ![id].packets = Append(@, p)]
      /\ pendingFlows' = pendingFlows
      /\ Len(waiters[id].packets) < MaxPacketsPerPrompt
  BY DEF RidePrompt
<1> DEFINE s == waiters[id].packets
           t == Append(s, p)
<1>3. s \in Seq(Packets) /\ Len(s) \in Nat /\ Len(t) = Len(s) + 1
      /\ \A i \in 1 .. Len(t) : t[i] = IF i <= Len(s) THEN s[i] ELSE p
  BY <1>1
<1>4. DOMAIN waiters' = DOMAIN waiters
      /\ waiters'[id].flow = FlowOf[p] /\ waiters'[id].packets = t
      /\ \A i \in DOMAIN waiters \ {id} : waiters'[i] = waiters[i]
  BY <1>1, <1>2
<1>5. Len(t) \in 1 .. MaxPacketsPerPrompt
      /\ \A i \in 1 .. Len(t) : FlowOf[t[i]] = FlowOf[p]
  BY <1>1, <1>2, <1>3, PromptFlowAssumption DEF IInv, WaitersMatchFlows
<1>6. \A i \in DOMAIN waiters' : waiters'[i].flow = waiters[i].flow
  BY <1>1, <1>4
<1>7. \A f \in DOMAIN pendingFlows' :
        /\ pendingFlows'[f] \in DOMAIN waiters'
        /\ waiters'[pendingFlows'[f]].flow = f
  BY <1>2, <1>4, <1>6 DEF IInv, WaitersMatchFlows
<1>8. ASSUME NEW i \in DOMAIN waiters'
      PROVE  /\ waiters'[i].flow \in DOMAIN pendingFlows'
             /\ pendingFlows'[waiters'[i].flow] = i
             /\ Len(waiters'[i].packets) \in 1 .. MaxPacketsPerPrompt
             /\ \A k \in 1 .. Len(waiters'[i].packets) :
                  FlowOf[waiters'[i].packets[k]] = waiters'[i].flow
  <2>1. CASE i = id
    BY <2>1, <1>1, <1>2, <1>4, <1>5, <1>6 DEF IInv, WaitersMatchFlows
  <2>2. CASE i # id
    BY <2>2, <1>2, <1>4, <1>6 DEF IInv, WaitersMatchFlows
  <2> QED
    BY <2>1, <2>2
<1> QED
  BY <1>4, <1>7, <1>8 DEF IInv, WaitersMatchFlows, BacklogBounded

LEMMA MatchOpen ==
  ASSUME IInv, NEW p \in Packets, OpenPrompt(p)
  PROVE  WaitersMatchFlows' /\ BacklogBounded'
<1> DEFINE id == nextPromptId
           f  == FlowOf[p]
<1>1. id \notin DOMAIN waiters /\ f \notin DOMAIN pendingFlows
  BY RepairIsIdle DEF OpenPrompt, IInv, TypeOK, TableTypes, WorkerSteps
<1>2. DOMAIN waiters' = DOMAIN waiters \cup {id}
      /\ waiters'[id].flow = f /\ waiters'[id].packets = <<p>>
      /\ \A i \in DOMAIN waiters : waiters'[i] = waiters[i]
  BY <1>1 DEF OpenPrompt
<1>3. DOMAIN pendingFlows' = DOMAIN pendingFlows \cup {f}
      /\ pendingFlows'[f] = id
      /\ \A g \in DOMAIN pendingFlows : pendingFlows'[g] = pendingFlows[g]
  BY <1>1 DEF OpenPrompt
<1>4. \A g \in DOMAIN pendingFlows' :
        /\ pendingFlows'[g] \in DOMAIN waiters'
        /\ waiters'[pendingFlows'[g]].flow = g
  BY <1>1, <1>2, <1>3 DEF IInv, WaitersMatchFlows
<1>5. ASSUME NEW i \in DOMAIN waiters'
      PROVE  /\ waiters'[i].flow \in DOMAIN pendingFlows'
             /\ pendingFlows'[waiters'[i].flow] = i
             /\ Len(waiters'[i].packets) \in 1 .. MaxPacketsPerPrompt
             /\ \A k \in 1 .. Len(waiters'[i].packets) :
                  FlowOf[waiters'[i].packets[k]] = waiters'[i].flow
  <2>1. CASE i = id
    BY <2>1, <1>2, <1>3, PromptFlowAssumption
  <2>2. CASE i # id
    BY <2>2, <1>1, <1>2, <1>3 DEF IInv, WaitersMatchFlows
  <2> QED
    BY <2>1, <2>2
<1>6. IsFiniteSet(DOMAIN waiters')
      /\ Cardinality(DOMAIN waiters') = Cardinality(DOMAIN waiters) + 1
  BY <1>1, <1>2, FS_AddElement DEF IInv, BacklogBounded
<1>7. Cardinality(DOMAIN waiters) \in Nat
      /\ Cardinality(DOMAIN waiters) < MaxParkedPrompts
  BY FS_CardinalityType, PromptFlowAssumption
     DEF OpenPrompt, BacklogAtCap, IInv, BacklogBounded
<1> QED
  BY <1>4, <1>5, <1>6, <1>7, PromptFlowAssumption
     DEF WaitersMatchFlows, BacklogBounded

LEMMA MatchUnchanged ==
  ASSUME IInv, DOMAIN waiters' = DOMAIN waiters,
         \A i \in DOMAIN waiters : waiters'[i] = waiters[i],
         DOMAIN pendingFlows' = DOMAIN pendingFlows,
         \A f \in DOMAIN pendingFlows : pendingFlows'[f] = pendingFlows[f]
  PROVE  WaitersMatchFlows' /\ BacklogBounded'
<1>1. \A f \in DOMAIN pendingFlows' :
        /\ pendingFlows'[f] \in DOMAIN waiters'
        /\ waiters'[pendingFlows'[f]].flow = f
  BY DEF IInv, WaitersMatchFlows
<1>2. ASSUME NEW i \in DOMAIN waiters'
      PROVE  waiters'[i].flow \in DOMAIN pendingFlows'
             /\ pendingFlows'[waiters'[i].flow] = i
  BY DEF IInv, WaitersMatchFlows
<1>3. ASSUME NEW i \in DOMAIN waiters'
      PROVE  /\ Len(waiters'[i].packets) \in 1 .. MaxPacketsPerPrompt
             /\ \A k \in 1 .. Len(waiters'[i].packets) :
                  FlowOf[waiters'[i].packets[k]] = waiters'[i].flow
  BY DEF IInv, WaitersMatchFlows
<1> QED
  BY <1>1, <1>2, <1>3 DEF IInv, WaitersMatchFlows, BacklogBounded

LEMMA TablesStep ==
  ASSUME IInv, [Next]_vars
  PROVE  WaitersMatchFlows' /\ BacklogBounded'
<1>1. CASE TakeVerdict
  <2>1. CASE Head(verdictQ).id \in DOMAIN waiters
    BY <1>1, <2>1, MatchResolve DEF TakeVerdict, ResolveBegin
  <2>2. CASE Head(verdictQ).id \notin DOMAIN waiters
    BY <1>1, <2>2, MatchUnchanged DEF TakeVerdict, ResolveBegin
  <2> QED
    BY <2>1, <2>2
<1>2. CASE FlushWaiter
  BY <1>2, MatchResolve DEF FlushWaiter, ResolveBegin
<1>3. ASSUME NEW p \in Packets, RidePrompt(p) \/ OpenPrompt(p)
      PROVE  WaitersMatchFlows' /\ BacklogBounded'
  BY <1>3, MatchRide, MatchOpen
<1>4. ASSUME NEW p \in Packets, BacklogFull(p) \/ RouterUnavailable(p)
      PROVE  WaitersMatchFlows' /\ BacklogBounded'
  BY <1>4, RepairIsIdle, MatchUnchanged DEF BacklogFull, RouterUnavailable
<1>5. CASE UNCHANGED <<waiters, pendingFlows>>
  BY <1>5, MatchUnchanged
<1>6. CASE WorkerRuns
  <2>1. CASE \/ WorkerTop \/ DrainEmpty \/ CloseVerdictChannel \/ FlushDone
             \/ ResolvePacket \/ RecvNothing
             \/ \E p \in Packets : HandleSettled(p) \/ RideOverflow(p)
    BY <2>1, <1>5 DEF WorkerTop, DrainEmpty, CloseVerdictChannel, FlushDone,
       ResolvePacket, RecvNothing, HandleSettled, RideOverflow
  <2> QED
    BY <1>6, <2>1, <1>1, <1>2, <1>3, <1>4 DEF WorkerRuns
<1>7. CASE \/ WorkerFails \/ Router \/ Sweeper \/ Sending \/ Client
           \/ Environment \/ UNCHANGED vars
  BY <1>7, <1>5
  DEF WorkerFails, VerdictFails, RecvError, Router, RouterRecv,
      RouterNoAudience, RouterInsert, RouterBroadcast, RouterReclaim, Sweeper,
      SweeperFires, Sending, SendTaken, Client, Submit, Environment,
      StreamOpens, StreamSubscribes, StreamCloses, RulesChange, RequestStop,
      RuntimeShutdown, vars
<1> QED
  BY <1>6, <1>7 DEF Next

-----------------------------------------------------------------------------
(* The worker's own bookkeeping *)

(* What is left of a deferred packet list with more than one entry is not
   empty (resolve_waiter's loop over waiter.msgs). *)
LEMMA TailNonEmpty ==
  ASSUME NEW S, NEW s \in Seq(S), s # <<>>, Len(s) # 1
  PROVE  Tail(s) # <<>>
<1>1. Len(s) \in Nat /\ Len(s) # 0
  BY EmptySeq
<1>2. Tail(s) \in Seq(S) /\ Len(Tail(s)) = Len(s) - 1
  BY HeadTailProperties
<1>3. Len(Tail(s)) # 0
  BY <1>1, <1>2
<1> QED
  BY <1>2, <1>3, EmptySeq

\* A prompt that starts resolving has a packet to answer.
LEMMA BeginHasWork ==
  ASSUME IInv, NEW id, NEW v \in Verdicts,
         NEW back \in {"drain", "top", "flushRecv", "flushTop"},
         ResolveBegin(id, v, back)
  PROVE  /\ DOMAIN waiters' \subseteq DOMAIN waiters
         /\ wpc' = "resolve" => cur'.packets # <<>> /\ cur'.verdict \in Verdicts
<1>1. CASE id \in DOMAIN waiters
  <2>1. waiters[id].packets \in Seq(Packets) /\ Len(waiters[id].packets) >= 1
    BY <1>1 DEF IInv, TypeOK, TableTypes, WaitersMatchFlows
  <2>2. waiters[id].packets # <<>>
    BY <2>1
  <2>3. cur'.packets = waiters[id].packets /\ cur'.verdict = v
    BY <1>1 DEF ResolveBegin
  <2>4. DOMAIN waiters' = DOMAIN waiters \ {id}
    BY <1>1 DEF ResolveBegin, Restrict
  <2> QED
    BY <2>2, <2>3, <2>4
<1>2. CASE id \notin DOMAIN waiters
  BY <1>2 DEF ResolveBegin
<1> QED
  BY <1>1, <1>2

LEMMA StepsStep ==
  ASSUME IInv, [Next]_vars
  PROVE  WorkerSteps'
<1> USE PromptFlowAssumption DEF IInv, WorkerSteps
<1>1. CASE TakeVerdict
  <2>1. Head(verdictQ) \in Answers
    BY <1>1 DEF TakeVerdict, TypeOK, ChannelTypes
  <2>2. Head(verdictQ).verdict \in Verdicts
    BY <2>1 DEF Answers
  <2> QED
    BY <1>1, <2>2, BeginHasWork DEF TakeVerdict
<1>2. CASE FlushWaiter
  <2>1. PICK id \in DOMAIN waiters : ResolveBegin(id, waiters[id].fallback, wpc)
    BY <1>2 DEF FlushWaiter
  <2>2. waiters[id].fallback \in Verdicts
    BY DEF TypeOK, TableTypes
  <2> QED
    BY <1>2, <2>1, <2>2, BeginHasWork DEF FlushWaiter
<1>3. CASE ResolvePacket
  <2>1. cur.packets \in Seq(Packets) /\ cur.packets # <<>>
    BY <1>3 DEF ResolvePacket, TypeOK, LocalTypes
  <2>2. Len(cur.packets) # 1 => Tail(cur.packets) # <<>>
    BY <2>1, TailNonEmpty
  <2>3. wpc' = "resolve" => cur'.packets # <<>> /\ cur'.verdict \in Verdicts
    BY <1>3, <2>2 DEF ResolvePacket, TypeOK, LocalTypes
  <2> QED
    BY <1>3, <2>3 DEF ResolvePacket
<1>4. ASSUME NEW p \in Packets,
             \/ HandleSettled(p) \/ RidePrompt(p) \/ RideOverflow(p)
             \/ BacklogFull(p) \/ RouterUnavailable(p)
      PROVE  WorkerSteps'
  BY <1>4 DEF HandleSettled, RidePrompt, RideOverflow, BacklogFull,
     RouterUnavailable, Receive, TypeOK, TableTypes
<1>5. ASSUME NEW p \in Packets, OpenPrompt(p)
      PROVE  WorkerSteps'
  BY <1>5 DEF OpenPrompt, Receive, TypeOK, TableTypes
<1>6. CASE RecvError
  BY <1>6 DEF RecvError, GiveUp, TypeOK, LocalTypes
<1>7. CASE WorkerTop \/ DrainEmpty \/ CloseVerdictChannel \/ FlushDone
           \/ RecvNothing \/ VerdictFails
  BY <1>7 DEF WorkerTop, DrainEmpty, CloseVerdictChannel, FlushDone,
     RecvNothing, VerdictFails
<1>8. CASE UNCHANGED workerVars
  BY <1>8
<1>9. CASE Router \/ Sweeper \/ Sending \/ Client \/ Environment
           \/ UNCHANGED vars
  BY <1>8, <1>9
  DEF Router, RouterRecv, RouterNoAudience, RouterInsert, RouterBroadcast,
      RouterReclaim, Sweeper, SweeperFires, Sending, SendTaken, Client, Submit,
      Environment, StreamOpens, StreamSubscribes, StreamCloses, RulesChange,
      RequestStop, RuntimeShutdown, vars
<1> QED
  BY <1>1, <1>2, <1>3, <1>4, <1>5, <1>6, <1>7, <1>9
  DEF Next, WorkerRuns, WorkerFails

-----------------------------------------------------------------------------
(* The theorems *)

LEMMA InvInit == Init => IInv
<1> SUFFICES ASSUME Init PROVE IInv
  OBVIOUS
<1>1. DOMAIN waiters = {} /\ DOMAIN pendingFlows = {}
  BY DEF Init
<1>2. WaitersMatchFlows
  BY <1>1 DEF WaitersMatchFlows
<1>3. BacklogBounded
  BY <1>1, FS_EmptySet, PromptFlowAssumption DEF BacklogBounded
<1>4. WorkerSteps
  BY <1>1, PromptFlowAssumption DEF Init, WorkerSteps
<1> QED
  BY <1>2, <1>3, <1>4, TypeInit DEF IInv

LEMMA InvStep == IInv /\ [Next]_vars => IInv'
BY TypeStep, TablesStep, StepsStep DEF IInv

\* The inductive invariant holds in every behaviour, whatever the number of
\* packets, flows and clients and whatever the caps.
THEOREM InvHolds == Spec => []IInv
BY InvInit, InvStep, PTL DEF Spec

\* Type correctness of the worker, the router, and the channels between them.
THEOREM TypeCorrect == Spec => []TypeOK
<1>1. IInv => TypeOK
  BY DEF IInv
<1> QED
  BY <1>1, InvHolds, PTL

\* waiters and pending_flows stay inverse to each other and every prompt holds
\* between one and MAX_PACKETS_PER_PROMPT packets of its own flow: the invariant
\* documented on Worker, so park_for_prompt's repair branch is never taken.
THEOREM TablesCorrect == Spec => []WaitersMatchFlows
<1>1. IInv => WaitersMatchFlows
  BY DEF IInv
<1> QED
  BY <1>1, InvHolds, PTL

\* Never more than MAX_PARKED_PROMPTS prompts are outstanding.
THEOREM BacklogCorrect == Spec => []BacklogBounded
<1>1. IInv => BacklogBounded
  BY DEF IInv
<1> QED
  BY <1>1, InvHolds, PTL

-----------------------------------------------------------------------------
(* The ids on a channel *)

\* Sending on a channel adds the message's id, and repeats none when it is new.
LEMMA IdsAppend ==
  ASSUME NEW S, NEW q \in Seq(S), NEW m
  PROVE  /\ IdsIn(Append(q, m)) = IdsIn(q) \cup {m.id}
         /\ NoRepeat(q) /\ m.id \notin IdsIn(q) => NoRepeat(Append(q, m))
<1> DEFINE r == Append(q, m)
<1>1. DOMAIN q = 1 .. Len(q) /\ Len(q) \in Nat /\ DOMAIN r = 1 .. Len(q) + 1
      /\ r[Len(q) + 1] = m
      /\ \A i \in DOMAIN q : r[i] = q[i]
  OBVIOUS
<1> HIDE DEF r
<1>2. \A i \in DOMAIN r : i \in DOMAIN q \/ i = Len(q) + 1
  BY <1>1
<1>3. DOMAIN q \subseteq DOMAIN r /\ Len(q) + 1 \in DOMAIN r /\ Len(q) + 1 \notin DOMAIN q
  BY <1>1
<1>4. IdsIn(r) = IdsIn(q) \cup {m.id}
  <2>1. IdsIn(r) \subseteq IdsIn(q) \cup {m.id}
    BY <1>1, <1>2 DEF IdsIn
  <2>2. \A i \in DOMAIN q : r[i].id = q[i].id
    BY <1>1
  <2>3. IdsIn(q) \subseteq IdsIn(r)
    BY <2>2, <1>3 DEF IdsIn
  <2>4. r[Len(q) + 1].id = m.id
    BY <1>1
  <2>5. m.id \in IdsIn(r)
    BY <2>4, <1>3 DEF IdsIn
  <2> QED
    BY <2>1, <2>3, <2>5
<1>5. ASSUME NoRepeat(q), m.id \notin IdsIn(q)
      PROVE  NoRepeat(r)
  <2> SUFFICES ASSUME NEW i \in DOMAIN r, NEW j \in DOMAIN r, r[i].id = r[j].id
               PROVE  i = j
    BY DEF NoRepeat
  <2> QED
    BY <1>1, <1>2, <1>5 DEF IdsIn, NoRepeat
<1> QED
  BY <1>4, <1>5 DEF r

\* Receiving takes the first message's id away, if no other has it.
LEMMA IdsTail ==
  ASSUME NEW S, NEW q \in Seq(S), q # <<>>, NoRepeat(q)
  PROVE  /\ Head(q).id \in IdsIn(q)
         /\ IdsIn(Tail(q)) = IdsIn(q) \ {Head(q).id}
         /\ NoRepeat(Tail(q))
<1> DEFINE r == Tail(q)
<1>1. DOMAIN q = 1 .. Len(q) /\ Len(q) \in Nat /\ Len(q) >= 1 /\ Head(q) = q[1]
      /\ DOMAIN r = 1 .. Len(q) - 1
      /\ \A i \in DOMAIN r : r[i] = q[i + 1]
  OBVIOUS
<1> HIDE DEF r
<1>2. \A i \in DOMAIN r : i + 1 \in DOMAIN q /\ i + 1 # 1
  BY <1>1
<1>3. \A j \in DOMAIN q : j # 1 => j - 1 \in DOMAIN r /\ r[j - 1] = q[j]
  BY <1>1
<1>4. 1 \in DOMAIN q
  BY <1>1
<1>5. IdsIn(r) \subseteq IdsIn(q) \ {q[1].id}
  BY <1>1, <1>2, <1>4 DEF IdsIn, NoRepeat
<1>6. IdsIn(q) \ {q[1].id} \subseteq IdsIn(r)
  BY <1>3 DEF IdsIn
<1>7. NoRepeat(r)
  BY <1>1, <1>2 DEF NoRepeat
<1> QED
  BY <1>1, <1>4, <1>5, <1>6, <1>7 DEF r, IdsIn

-----------------------------------------------------------------------------
(* One place for each prompt under way *)

Places == OnePlace /\ UnderWayIsOutstanding

LEMMA PlacesUnchanged ==
  ASSUME OnceInv, UNCHANGED <<promptQ, verdictQ, InHand, pending, taken>>,
         DOMAIN waiters' = DOMAIN waiters, routerUp' => routerUp
  PROVE  Places'
BY DEF OnceInv, Places, OnePlace, UnderWayIsOutstanding, UnderWay, TakenIds, IdsIn, NoRepeat

\* A channel that keeps its messages keeps their ids.
LEMMA SameIds ==
  /\ promptQ' = promptQ => IdsIn(promptQ)' = IdsIn(promptQ) /\ (NoRepeat(promptQ) => NoRepeat(promptQ)')
  /\ verdictQ' = verdictQ => IdsIn(verdictQ)' = IdsIn(verdictQ) /\ (NoRepeat(verdictQ) => NoRepeat(verdictQ)')
  /\ taken' = taken => TakenIds' = TakenIds
  /\ hand' = hand => InHand' = InHand
BY DEF IdsIn, NoRepeat, TakenIds, InHand

\* What resolve_prompt does to the table of outstanding prompts.
LEMMA BeginRemoves ==
  ASSUME NEW id, NEW v, NEW back, ResolveBegin(id, v, back)
  PROVE  DOMAIN waiters' = DOMAIN waiters \ {id}
BY DEF ResolveBegin, Restrict

LEMMA PlacesTakeVerdict ==
  ASSUME IInv, OnceInv, TakeVerdict
  PROVE  Places'
<1> DEFINE id == Head(verdictQ).id
<1>1. verdictQ \in Seq(Answers) /\ verdictQ # <<>> /\ verdictQ' = Tail(verdictQ)
  BY DEF TakeVerdict, IInv, TypeOK, ChannelTypes
<1>2. id \in IdsIn(verdictQ) /\ IdsIn(verdictQ)' = IdsIn(verdictQ) \ {id} /\ NoRepeat(verdictQ)'
  <2>1. NoRepeat(verdictQ)
    BY DEF OnceInv, OnePlace
  <2>2. /\ id \in IdsIn(verdictQ)
        /\ IdsIn(Tail(verdictQ)) = IdsIn(verdictQ) \ {id}
        /\ NoRepeat(Tail(verdictQ))
    BY <1>1, <2>1, IdsTail
  <2> QED
    BY <1>1, <2>2 DEF IdsIn, NoRepeat
<1>3. DOMAIN waiters' = DOMAIN waiters \ {id}
  BY BeginRemoves DEF TakeVerdict
<1>4. promptQ' = promptQ /\ hand' = hand /\ pending' = pending /\ taken' = taken /\ routerUp' = routerUp
  BY DEF TakeVerdict
<1>5. IdsIn(promptQ)' = IdsIn(promptQ) /\ NoRepeat(promptQ)' /\ TakenIds' = TakenIds /\ InHand' = InHand
  BY <1>4, SameIds DEF OnceInv, OnePlace
<1> HIDE DEF id
<1> QED
  BY <1>2, <1>3, <1>4, <1>5 DEF OnceInv, Places, OnePlace, UnderWayIsOutstanding, UnderWay

LEMMA PlacesFlushWaiter ==
  ASSUME IInv, OnceInv, FlushWaiter
  PROVE  Places'
<1>1. PICK id \in DOMAIN waiters : ResolveBegin(id, waiters[id].fallback, wpc)
  BY DEF FlushWaiter
<1>2. DOMAIN waiters' = DOMAIN waiters \ {id}
  BY <1>1, BeginRemoves
<1>3. UNCHANGED <<promptQ, verdictQ, hand, pending, taken, routerUp>>
  BY DEF FlushWaiter
<1>4. ~routerUp /\ UnderWay = {}
  <2>1. ~routerUp /\ verdictQ = <<>> /\ promptQ = <<>> /\ hand = Idle /\ pending = {} /\ taken = {}
    BY DEF FlushWaiter, OnceInv, Hangup
  <2> QED
    BY <2>1 DEF UnderWay, IdsIn, InHand, TakenIds, Idle
<1>5. UnderWay' = UnderWay /\ OnePlace'
  BY <1>3 DEF UnderWay, OnceInv, OnePlace, IdsIn, NoRepeat, TakenIds, InHand
<1> QED
  BY <1>2, <1>3, <1>4, <1>5 DEF Places, UnderWayIsOutstanding

LEMMA PlacesOpenPrompt ==
  ASSUME IInv, OnceInv, NEW p \in Packets, OpenPrompt(p)
  PROVE  Places'
<1> DEFINE id == nextPromptId
           m  == [id |-> id, owner |-> OwnerOf[FlowOf[p]]]
<1>1. id \notin DOMAIN waiters
  BY DEF IInv, WorkerSteps, TypeOK, TableTypes
<1>2. DOMAIN waiters' = DOMAIN waiters \cup {id}
  BY DEF OpenPrompt
<1>3. promptQ \in Seq(Requests) /\ promptQ' = Append(promptQ, m) /\ m.id = id
  BY DEF OpenPrompt, IInv, TypeOK, ChannelTypes
<1>4. id \notin UnderWay
  BY <1>1 DEF OnceInv, UnderWayIsOutstanding
<1>5. IdsIn(promptQ)' = IdsIn(promptQ) \cup {id} /\ NoRepeat(promptQ)'
  <2>1. NoRepeat(promptQ) /\ m.id \notin IdsIn(promptQ)
    BY <1>3, <1>4 DEF OnceInv, OnePlace, UnderWay
  <2>2. IdsIn(Append(promptQ, m)) = IdsIn(promptQ) \cup {id} /\ NoRepeat(Append(promptQ, m))
    BY <1>3, <2>1, IdsAppend
  <2> QED
    BY <1>3, <2>2 DEF IdsIn, NoRepeat
<1>6. verdictQ' = verdictQ /\ hand' = hand /\ pending' = pending /\ taken' = taken
      /\ routerUp' = routerUp /\ routerUp
  BY DEF OpenPrompt, Receive, RouterTakes
<1>7. IdsIn(verdictQ)' = IdsIn(verdictQ) /\ NoRepeat(verdictQ)' /\ TakenIds' = TakenIds /\ InHand' = InHand
  BY <1>6, SameIds DEF OnceInv, OnePlace
<1> HIDE DEF id
<1> QED
  BY <1>2, <1>4, <1>5, <1>6, <1>7 DEF OnceInv, Places, OnePlace, UnderWayIsOutstanding, UnderWay

LEMMA PlacesRouterRecv ==
  ASSUME IInv, OnceInv, RouterRecv
  PROVE  Places'
<1> DEFINE id == Head(promptQ).id
<1>1. promptQ \in Seq(Requests) /\ promptQ # <<>> /\ promptQ' = Tail(promptQ)
  BY DEF RouterRecv, IInv, TypeOK, ChannelTypes
<1>2. id \in IdsIn(promptQ) /\ IdsIn(promptQ)' = IdsIn(promptQ) \ {id} /\ NoRepeat(promptQ)'
  <2>1. NoRepeat(promptQ)
    BY DEF OnceInv, OnePlace
  <2>2. /\ id \in IdsIn(promptQ)
        /\ IdsIn(Tail(promptQ)) = IdsIn(promptQ) \ {id}
        /\ NoRepeat(Tail(promptQ))
    BY <1>1, <2>1, IdsTail
  <2> QED
    BY <1>1, <2>2 DEF IdsIn, NoRepeat
<1>3. InHand = {} /\ InHand' = {id}
  BY DEF RouterRecv, InHand, Idle
<1>4. waiters' = waiters /\ verdictQ' = verdictQ /\ pending' = pending /\ taken' = taken /\ routerUp' = routerUp
  BY DEF RouterRecv
<1>5. IdsIn(verdictQ)' = IdsIn(verdictQ) /\ NoRepeat(verdictQ)' /\ TakenIds' = TakenIds
  BY <1>4, SameIds DEF OnceInv, OnePlace
<1> HIDE DEF id
<1> QED
  BY <1>2, <1>3, <1>4, <1>5 DEF OnceInv, Places, OnePlace, UnderWayIsOutstanding, UnderWay

\* A verdict sent for a prompt no verdict is on its way for.
LEMMA SendAddsId ==
  ASSUME IInv, OnceInv, NEW id, NEW v, SendVerdict(id, v), id \notin IdsIn(verdictQ)
  PROVE  IdsIn(verdictQ)' = IdsIn(verdictQ) \cup {id} /\ NoRepeat(verdictQ)'
<1> DEFINE m == [id |-> id, verdict |-> v]
<1>1. verdictQ \in Seq(Answers) /\ verdictQ' = Append(verdictQ, m) /\ m.id = id
  BY DEF SendVerdict, IInv, TypeOK, ChannelTypes
<1>2. NoRepeat(verdictQ) /\ m.id \notin IdsIn(verdictQ)
  BY <1>1 DEF OnceInv, OnePlace
<1>3. IdsIn(Append(verdictQ, m)) = IdsIn(verdictQ) \cup {id} /\ NoRepeat(Append(verdictQ, m))
  BY <1>1, <1>2, IdsAppend
<1> QED
  BY <1>1, <1>3 DEF IdsIn, NoRepeat

LEMMA PlacesRouterNoAudience ==
  ASSUME IInv, OnceInv, RouterNoAudience
  PROVE  Places'
<1>1. PICK noUi \in PolicyActions : SendVerdict(hand.id, FromPolicy(noUi))
  BY DEF RouterNoAudience
<1>2. InHand = {hand.id} /\ InHand' = {}
  BY DEF RouterNoAudience, InHand, Idle
<1>3. hand.id \notin IdsIn(verdictQ)
  BY <1>2 DEF OnceInv, OnePlace
<1>4. IdsIn(verdictQ)' = IdsIn(verdictQ) \cup {hand.id} /\ NoRepeat(verdictQ)'
  BY <1>1, <1>3, SendAddsId
<1>5. promptQ' = promptQ /\ waiters' = waiters /\ pending' = pending /\ taken' = taken /\ routerUp' = routerUp
  BY DEF RouterNoAudience
<1>6. IdsIn(promptQ)' = IdsIn(promptQ) /\ NoRepeat(promptQ)' /\ TakenIds' = TakenIds
  BY <1>5, SameIds DEF OnceInv, OnePlace
<1> QED
  BY <1>2, <1>4, <1>5, <1>6 DEF OnceInv, Places, OnePlace, UnderWayIsOutstanding, UnderWay

LEMMA PlacesRouterInsert ==
  ASSUME IInv, OnceInv, RouterInsert
  PROVE  Places'
<1>1. InHand = {hand.id} /\ pending' = pending \cup {hand.id}
  BY DEF RouterInsert, InHand
<1>2. InHand' = {}
  BY DEF RouterInsert, InHand, IInv, TypeOK, RouterTypes, Idle
<1>3. promptQ' = promptQ /\ waiters' = waiters /\ verdictQ' = verdictQ /\ taken' = taken /\ routerUp' = routerUp
  BY DEF RouterInsert
<1>4. /\ IdsIn(promptQ)' = IdsIn(promptQ) /\ NoRepeat(promptQ)' /\ TakenIds' = TakenIds
      /\ IdsIn(verdictQ)' = IdsIn(verdictQ) /\ NoRepeat(verdictQ)'
  BY <1>3, SameIds DEF OnceInv, OnePlace
<1> QED
  BY <1>1, <1>2, <1>3, <1>4 DEF OnceInv, Places, OnePlace, UnderWayIsOutstanding, UnderWay

LEMMA PlacesRouterReclaim ==
  ASSUME IInv, OnceInv, RouterReclaim
  PROVE  Places'
<1>1. InHand = {} /\ InHand' = {}
  BY DEF RouterReclaim, InHand, Idle
<1>2. promptQ' = promptQ /\ waiters' = waiters /\ taken' = taken /\ routerUp' = routerUp
  BY DEF RouterReclaim
<1>3. IdsIn(promptQ)' = IdsIn(promptQ) /\ NoRepeat(promptQ)' /\ TakenIds' = TakenIds
  BY <1>2, SameIds DEF OnceInv, OnePlace
<1>4. CASE hand.id \in pending
  <2>1. PICK noUi \in PolicyActions : SendVerdict(hand.id, FromPolicy(noUi))
    BY <1>4 DEF RouterReclaim
  <2>2. hand.id \notin IdsIn(verdictQ)
    BY <1>4 DEF OnceInv, OnePlace
  <2>3. IdsIn(verdictQ)' = IdsIn(verdictQ) \cup {hand.id} /\ NoRepeat(verdictQ)'
    BY <2>1, <2>2, SendAddsId
  <2>4. pending' = pending \ {hand.id}
    BY <1>4 DEF RouterReclaim
  <2> QED
    BY <1>1, <1>2, <1>3, <1>4, <2>3, <2>4
       DEF OnceInv, Places, OnePlace, UnderWayIsOutstanding, UnderWay
<1>5. CASE hand.id \notin pending
  BY <1>1, <1>2, <1>5, PlacesUnchanged DEF RouterReclaim
<1> QED
  BY <1>4, <1>5

\* A prompt that whoever removed it from the pending table is about to resolve.
LEMMA PlacesTaken ==
  ASSUME IInv, OnceInv, NEW id \in pending, NEW by, NEW action,
         pending' = pending \ {id},
         taken' = taken \cup {[id |-> id, by |-> by, action |-> action]},
         UNCHANGED <<promptQ, verdictQ, hand, waiters, routerUp>>
  PROVE  Places'
<1> DEFINE t == [id |-> id, by |-> by, action |-> action]
<1>1. id \notin TakenIds /\ t.id = id
  BY DEF OnceInv, OnePlace
<1>2. TakenIds' = TakenIds \cup {id}
  BY <1>1 DEF TakenIds
<1>3. \A u, w \in taken' : u.id = w.id => u = w
  <2> SUFFICES ASSUME NEW u \in taken \cup {t}, NEW w \in taken \cup {t}, u.id = w.id
               PROVE  u = w
    OBVIOUS
  <2>1. \A x \in taken : x.id # id
    BY <1>1 DEF TakenIds
  <2> QED
    BY <1>1, <2>1 DEF OnceInv, OnePlace
<1>4. /\ IdsIn(promptQ)' = IdsIn(promptQ) /\ NoRepeat(promptQ)' /\ InHand' = InHand
      /\ IdsIn(verdictQ)' = IdsIn(verdictQ) /\ NoRepeat(verdictQ)'
  BY SameIds DEF OnceInv, OnePlace
<1> QED
  BY <1>1, <1>2, <1>3, <1>4 DEF OnceInv, Places, OnePlace, UnderWayIsOutstanding, UnderWay

LEMMA PlacesSendTaken ==
  ASSUME IInv, OnceInv, NEW t \in taken, SendTaken(t)
  PROVE  Places'
<1>1. \E v : SendVerdict(t.id, v)
  BY DEF SendTaken
<1>2. t.id \in TakenIds /\ TakenIds' = TakenIds \ {t.id}
  <2>1. \A u \in taken : u.id = t.id => u = t
    BY DEF OnceInv, OnePlace
  <2>2. taken' = taken \ {t}
    BY DEF SendTaken
  <2> QED
    BY <2>1, <2>2 DEF TakenIds
<1>3. t.id \notin IdsIn(verdictQ)
  BY <1>2 DEF OnceInv, OnePlace
<1>4. IdsIn(verdictQ)' = IdsIn(verdictQ) \cup {t.id} /\ NoRepeat(verdictQ)'
  BY <1>1, <1>3, SendAddsId
<1>5. /\ promptQ' = promptQ /\ hand' = hand /\ pending' = pending /\ waiters' = waiters
      /\ routerUp' = routerUp /\ taken' = taken \ {t}
  BY DEF SendTaken
<1>6. IdsIn(promptQ)' = IdsIn(promptQ) /\ NoRepeat(promptQ)' /\ InHand' = InHand
  BY <1>5, SameIds DEF OnceInv, OnePlace
<1> QED
  BY <1>2, <1>4, <1>5, <1>6 DEF OnceInv, Places, OnePlace, UnderWayIsOutstanding, UnderWay

LEMMA PlacesShutdown ==
  ASSUME IInv, OnceInv, RuntimeShutdown
  PROVE  Places'
<1>1. /\ promptQ' = <<>> /\ hand' = Idle /\ pending' = {} /\ taken = {} /\ taken' = {}
      /\ verdictQ' = verdictQ /\ waiters' = waiters /\ ~routerUp'
  BY DEF RuntimeShutdown
<1>2. IdsIn(promptQ)' = {} /\ NoRepeat(promptQ)' /\ InHand' = {} /\ TakenIds' = {}
  BY <1>1 DEF IdsIn, NoRepeat, InHand, TakenIds, Idle
<1>3. IdsIn(verdictQ)' = IdsIn(verdictQ) /\ NoRepeat(verdictQ)'
  BY <1>1, SameIds DEF OnceInv, OnePlace
<1> QED
  BY <1>1, <1>2, <1>3 DEF OnceInv, Places, OnePlace, UnderWayIsOutstanding, UnderWay
\* The actions that move no prompt between places.
KeepsPlaces ==
  \/ WorkerTop \/ DrainEmpty \/ CloseVerdictChannel \/ FlushDone \/ ResolvePacket
  \/ RecvNothing \/ WorkerFails \/ RouterBroadcast
  \/ \E p \in Packets : \/ HandleSettled(p) \/ RidePrompt(p) \/ RideOverflow(p)
                        \/ BacklogFull(p) \/ RouterUnavailable(p)
  \/ \E id \in sweepers : SweeperFires(id) /\ id \notin pending
  \/ \E s \in Streams : StreamOpens(s) \/ StreamSubscribes(s) \/ StreamCloses(s)
  \/ \E f \in Flows, d \in Decisions : RulesChange(f, d)
  \/ RequestStop
  \/ UNCHANGED vars

LEMMA KeepsPlacesKeeps ==
  ASSUME IInv, OnceInv, KeepsPlaces
  PROVE  Places'
<1>1. UNCHANGED <<promptQ, verdictQ, pending, taken, routerUp>>
  BY DEF KeepsPlaces, WorkerTop, DrainEmpty, CloseVerdictChannel, FlushDone, ResolvePacket,
     RecvNothing, WorkerFails, VerdictFails, RecvError, RouterBroadcast, HandleSettled, RidePrompt,
     RideOverflow, BacklogFull, RouterUnavailable, Receive, SweeperFires, StreamOpens,
     StreamSubscribes, StreamCloses, RulesChange, RequestStop, vars
<1>2. InHand' = InHand
  <2>1. CASE RouterBroadcast
    BY <2>1 DEF RouterBroadcast, InHand, Idle
  <2>2. CASE UNCHANGED hand
    BY <2>2 DEF InHand
  <2> QED
    BY <2>1, <2>2 DEF KeepsPlaces, WorkerTop, DrainEmpty, CloseVerdictChannel, FlushDone,
       ResolvePacket, RecvNothing, WorkerFails, VerdictFails, RecvError, HandleSettled,
       RidePrompt, RideOverflow, BacklogFull, RouterUnavailable, Receive, SweeperFires,
       StreamOpens, StreamSubscribes, StreamCloses, RulesChange, RequestStop, vars
<1>3. DOMAIN waiters' = DOMAIN waiters
  <2>1. ASSUME NEW p \in Packets, RidePrompt(p)
        PROVE  DOMAIN waiters' = DOMAIN waiters
    BY <2>1 DEF RidePrompt
  <2> QED
    BY <2>1 DEF KeepsPlaces, WorkerTop, DrainEmpty, CloseVerdictChannel, FlushDone, ResolvePacket,
     RecvNothing, WorkerFails, VerdictFails, RecvError, RouterBroadcast, HandleSettled,
     RideOverflow, BacklogFull, RouterUnavailable, Receive, SweeperFires, StreamOpens,
     StreamSubscribes, StreamCloses, RulesChange, RequestStop, vars
<1> QED
  BY <1>1, <1>2, <1>3, PlacesUnchanged

LEMMA PlacesStep ==
  ASSUME IInv, OnceInv, [Next]_vars
  PROVE  Places'
<1>1. CASE WorkerRuns \/ WorkerFails \/ UNCHANGED vars
  BY <1>1, KeepsPlacesKeeps, PlacesTakeVerdict, PlacesFlushWaiter, PlacesOpenPrompt
     DEF WorkerRuns, KeepsPlaces
<1>2. CASE Router
  BY <1>2, KeepsPlacesKeeps, PlacesRouterRecv, PlacesRouterNoAudience, PlacesRouterInsert,
     PlacesRouterReclaim
     DEF Router, KeepsPlaces
<1>3. CASE Sweeper
  <2>1. PICK id \in sweepers : SweeperFires(id)
    BY <1>3 DEF Sweeper
  <2>2. CASE id \in pending
    BY <2>1, <2>2, PlacesTaken DEF SweeperFires
  <2>3. CASE id \notin pending
    BY <2>1, <2>3, KeepsPlacesKeeps DEF KeepsPlaces
  <2> QED
    BY <2>2, <2>3
<1>4. CASE Sending
  BY <1>4, PlacesSendTaken DEF Sending
<1>5. CASE Client
  BY <1>5, PlacesTaken DEF Client, Submit
<1>6. CASE Environment
  BY <1>6, KeepsPlacesKeeps, PlacesShutdown DEF Environment, KeepsPlaces
<1> QED
  BY <1>1, <1>2, <1>3, <1>4, <1>5, <1>6 DEF Next

-----------------------------------------------------------------------------
(* The gauge, and a sweeper for everything pending *)

LEMMA CountedUnchanged ==
  ASSUME OnceInv, UNCHANGED <<pending, taken, gauge, sweepers>>, UNCHANGED hand \/ hand.step # "cast"
  PROVE  Counted'
BY DEF OnceInv, Counted

\* A prompt taken out of the pending table to be resolved is still counted.
LEMMA CountedTaken ==
  ASSUME IInv, OnceInv, NEW id \in pending, NEW by, NEW action,
         pending' = pending \ {id},
         taken' = taken \cup {[id |-> id, by |-> by, action |-> action]},
         sweepers \ {id} \subseteq sweepers',
         UNCHANGED <<hand, gauge>>
  PROVE  Counted'
<1> DEFINE t == [id |-> id, by |-> by, action |-> action]
<1>1. t \notin taken
  <2>1. id \notin TakenIds
    BY DEF OnceInv, OnePlace
  <2> QED
    BY <2>1 DEF TakenIds
<1>2. IsFiniteSet(pending') /\ Cardinality(pending') = Cardinality(pending) - 1
  BY FS_RemoveElement DEF OnceInv, Counted
<1>3. IsFiniteSet(taken') /\ Cardinality(taken') = Cardinality(taken) + 1
  BY <1>1, FS_AddElement DEF OnceInv, Counted
<1>4. Cardinality(pending) \in Nat /\ Cardinality(taken) \in Nat
  BY FS_CardinalityType DEF OnceInv, Counted
<1>5. gauge' = Cardinality(pending') + Cardinality(taken')
  BY <1>2, <1>3, <1>4 DEF OnceInv, Counted
<1>6. \A i \in pending' : i \in sweepers' \/ (hand'.step = "cast" /\ hand'.id = i)
  BY DEF OnceInv, Counted
<1> QED
  BY <1>2, <1>3, <1>5, <1>6 DEF Counted

LEMMA CountedRouter ==
  ASSUME IInv, OnceInv, Router
  PROVE  Counted'
<1>0. Cardinality(pending) \in Nat /\ Cardinality(taken) \in Nat
  BY FS_CardinalityType DEF OnceInv, Counted
<1>1. CASE RouterRecv \/ RouterNoAudience
  BY <1>1, CountedUnchanged DEF RouterRecv, RouterNoAudience, Idle
<1>2. CASE RouterInsert
  <2>1. hand.id \notin pending
    BY <1>2 DEF RouterInsert, OnceInv, OnePlace, InHand
  <2>2. pending' = pending \cup {hand.id} /\ gauge' = gauge + 1 /\ UNCHANGED <<taken, sweepers>>
    BY <1>2 DEF RouterInsert
  <2>3. IsFiniteSet(pending') /\ Cardinality(pending') = Cardinality(pending) + 1
    BY <2>1, <2>2, FS_AddElement DEF OnceInv, Counted
  <2>4. hand'.step = "cast" /\ hand'.id = hand.id /\ hand.step = "census"
    BY <1>2 DEF RouterInsert, IInv, TypeOK, RouterTypes, Idle
  <2>5. \A i \in pending' : i \in sweepers' \/ (hand'.step = "cast" /\ hand'.id = i)
    BY <2>2, <2>4 DEF OnceInv, Counted
  <2> QED
    BY <1>0, <2>2, <2>3, <2>5 DEF OnceInv, Counted
<1>3. CASE RouterBroadcast
  BY <1>3 DEF RouterBroadcast, OnceInv, Counted
<1>4. CASE RouterReclaim
  <2>1. CASE hand.id \in pending
    <3>1. pending' = pending \ {hand.id} /\ gauge' = gauge - 1 /\ UNCHANGED <<taken, sweepers>>
      BY <1>4, <2>1 DEF RouterReclaim
    <3>2. IsFiniteSet(pending') /\ Cardinality(pending') = Cardinality(pending) - 1
      BY <2>1, <3>1, FS_RemoveElement DEF OnceInv, Counted
    <3>3. \A i \in pending' : i \in sweepers'
      BY <3>1 DEF OnceInv, Counted
    <3> QED
      BY <1>0, <3>1, <3>2, <3>3 DEF OnceInv, Counted
  <2>2. CASE hand.id \notin pending
    BY <1>4, <2>2 DEF RouterReclaim, OnceInv, Counted
  <2> QED
    BY <2>1, <2>2
<1> QED
  BY <1>1, <1>2, <1>3, <1>4 DEF Router

LEMMA CountedSending ==
  ASSUME IInv, OnceInv, NEW t \in taken, SendTaken(t)
  PROVE  Counted'
<1>1. taken' = taken \ {t} /\ gauge' = gauge - 1 /\ UNCHANGED <<pending, sweepers, hand>>
  BY DEF SendTaken
<1>2. IsFiniteSet(taken') /\ Cardinality(taken') = Cardinality(taken) - 1
  BY <1>1, FS_RemoveElement DEF OnceInv, Counted
<1>3. Cardinality(pending) \in Nat /\ Cardinality(taken) \in Nat
  BY FS_CardinalityType DEF OnceInv, Counted
<1> QED
  BY <1>1, <1>2, <1>3 DEF OnceInv, Counted

LEMMA CountedStep ==
  ASSUME IInv, OnceInv, [Next]_vars
  PROVE  Counted'
<1>1. CASE WorkerRuns \/ WorkerFails \/ UNCHANGED vars
  <2>1. UNCHANGED elsewhere
    BY <1>1 DEF WorkerRuns, WorkerTop, TakeVerdict, DrainEmpty, CloseVerdictChannel, FlushWaiter,
       FlushDone, ResolvePacket, RecvNothing, WorkerFails, VerdictFails, RecvError, HandleSettled,
       RidePrompt, RideOverflow, BacklogFull, OpenPrompt, RouterUnavailable, Receive, vars
  <2> QED
    BY <2>1, CountedUnchanged
<1>2. CASE Router
  BY <1>2, CountedRouter
<1>3. CASE Sweeper
  <2>1. PICK id \in sweepers : SweeperFires(id)
    BY <1>3 DEF Sweeper
  <2>2. CASE id \in pending
    BY <2>1, <2>2, CountedTaken DEF SweeperFires
  <2>3. CASE id \notin pending
    BY <2>1, <2>3 DEF SweeperFires, OnceInv, Counted
  <2> QED
    BY <2>2, <2>3
<1>4. CASE Sending
  BY <1>4, CountedSending DEF Sending
<1>5. CASE Client
  BY <1>5, CountedTaken DEF Client, Submit
<1>6. CASE Environment
  <2>1. CASE RuntimeShutdown
    <3>1. pending' = {} /\ taken = {} /\ taken' = {} /\ gauge' = 0
      BY <2>1 DEF RuntimeShutdown
    <3> QED
      BY <3>1, FS_EmptySet DEF Counted
  <2>2. CASE UNCHANGED routerVars
    BY <2>2, CountedUnchanged
  <2> QED
    BY <1>6, <2>1, <2>2 DEF Environment, StreamOpens, StreamSubscribes, StreamCloses, RulesChange,
       RequestStop
<1> QED
  BY <1>1, <1>2, <1>3, <1>4, <1>5, <1>6 DEF Next

-----------------------------------------------------------------------------
(* The router's end, and the worker's flush after it *)

LEMMA HangupWorker ==
  ASSUME IInv, OnceInv, WorkerRuns \/ WorkerFails
  PROVE  Hangup'
<1>1. UNCHANGED elsewhere
  BY DEF WorkerRuns, WorkerTop, TakeVerdict, DrainEmpty, CloseVerdictChannel, FlushWaiter,
     FlushDone, ResolvePacket, RecvNothing, WorkerFails, VerdictFails, RecvError, HandleSettled,
     RidePrompt, RideOverflow, BacklogFull, OpenPrompt, RouterUnavailable, Receive
<1>2. promptQ' = promptQ \/ routerUp
  BY DEF WorkerRuns, WorkerTop, TakeVerdict, DrainEmpty, CloseVerdictChannel, FlushWaiter,
     FlushDone, ResolvePacket, RecvNothing, WorkerFails, VerdictFails, RecvError, HandleSettled,
     RidePrompt, RideOverflow, BacklogFull, OpenPrompt, RouterUnavailable, Receive, RouterTakes
<1>3. ~routerUp' => /\ hand' = Idle /\ promptQ' = <<>>
                    /\ pending' = {} /\ sweepers' = {} /\ taken' = {}
  BY <1>1, <1>2 DEF OnceInv, Hangup
<1>4. CASE CloseVerdictChannel
  BY <1>3, <1>4 DEF CloseVerdictChannel, Hangup
<1>5. CASE TakeVerdict
  <2>1. channelOpen' = channelOpen /\ channelOpen
    BY <1>5 DEF TakeVerdict
  <2>2. wpc \in {"drain", "recv"}
    BY <1>5 DEF TakeVerdict
  <2>3. wpc' \in {"resolve", "drain", "top"} /\ (wpc' = "resolve" => ret' \in {"drain", "top"})
    BY <1>5, <2>2 DEF TakeVerdict, ResolveBegin
  <2> QED
    BY <1>3, <2>1, <2>3 DEF Hangup
<1>6. CASE FlushWaiter
  BY <1>1, <1>3, <1>6 DEF FlushWaiter, ResolveBegin, OnceInv, Hangup
<1>7. CASE ResolvePacket
  <2>1. channelOpen' = channelOpen /\ verdictQ' = verdictQ /\ ret' = ret /\ wpc' \in {"resolve", ret} /\ wpc = "resolve"
    BY <1>7 DEF ResolvePacket
  <2> QED
    BY <1>1, <1>3, <2>1 DEF OnceInv, Hangup
<1>8. CASE WorkerTop \/ DrainEmpty \/ FlushDone \/ RecvNothing \/ WorkerFails
           \/ \E p \in Packets :
                \/ HandleSettled(p) \/ RidePrompt(p) \/ RideOverflow(p)
                \/ BacklogFull(p) \/ OpenPrompt(p) \/ RouterUnavailable(p)
  <2>1. /\ channelOpen' = channelOpen /\ verdictQ' = verdictQ
        /\ wpc' \in {"top", "exited", "drain", "recv"}
    BY <1>8 DEF WorkerTop, DrainEmpty, FlushDone, RecvNothing, WorkerFails, VerdictFails, RecvError,
       HandleSettled, RidePrompt, RideOverflow, BacklogFull, OpenPrompt, RouterUnavailable, Receive
  <2> QED
    BY <1>1, <1>3, <2>1 DEF OnceInv, Hangup
<1> QED
  BY <1>4, <1>5, <1>6, <1>7, <1>8 DEF WorkerRuns

LEMMA HangupStep ==
  ASSUME IInv, OnceInv, [Next]_vars
  PROVE  Hangup'
<1>1. CASE WorkerRuns \/ WorkerFails
  BY <1>1, HangupWorker
<1>2. CASE UNCHANGED vars
  BY <1>2 DEF vars, OnceInv, Hangup
<1>3. CASE Router \/ Sweeper \/ Sending \/ Client
  <2>1. UNCHANGED <<workerVars, routerUp>>
    BY <1>3 DEF Router, RouterRecv, RouterNoAudience, RouterInsert, RouterBroadcast, RouterReclaim,
       Sweeper, SweeperFires, Sending, SendTaken, Client, Submit
  <2>2. routerUp
    <3>1. CASE Router
      BY <3>1 DEF Router, RouterRecv, RouterNoAudience, RouterInsert, RouterBroadcast, RouterReclaim,
         OnceInv, Hangup, Idle
    <3>2. CASE Sweeper \/ Sending \/ Client
      BY <3>2 DEF Sweeper, Sending, Client, Submit, OnceInv, Hangup
    <3> QED
      BY <1>3, <3>1, <3>2
  <2> QED
    BY <2>1, <2>2 DEF OnceInv, Hangup
<1>4. CASE Environment
  <2>1. CASE RuntimeShutdown
    BY <2>1 DEF RuntimeShutdown, OnceInv, Hangup
  <2>2. CASE UNCHANGED <<workerVars, promptQ, verdictQ, routerVars, routerUp>>
    BY <2>2 DEF OnceInv, Hangup
  <2> QED
    BY <1>4, <2>1, <2>2 DEF Environment, StreamOpens, StreamSubscribes, StreamCloses, RulesChange,
       RequestStop
<1> QED
  BY <1>1, <1>2, <1>3, <1>4 DEF Next

LEMMA OnceInit == Init => OnceInv
<1> SUFFICES ASSUME Init PROVE OnceInv
  OBVIOUS
<1>1. /\ promptQ = <<>> /\ verdictQ = <<>> /\ hand = Idle /\ pending = {} /\ taken = {}
      /\ gauge = 0 /\ DOMAIN waiters = {} /\ routerUp /\ channelOpen /\ wpc = "top"
  BY DEF Init
<1>2. IdsIn(promptQ) = {} /\ IdsIn(verdictQ) = {} /\ InHand = {} /\ TakenIds = {}
  BY <1>1 DEF IdsIn, InHand, TakenIds, Idle
<1>3. OnePlace /\ UnderWayIsOutstanding
  BY <1>1, <1>2 DEF OnePlace, UnderWayIsOutstanding, UnderWay, NoRepeat
<1>4. Counted
  BY <1>1, FS_EmptySet DEF Counted
<1> QED
  BY <1>1, <1>3, <1>4 DEF OnceInv, Hangup

LEMMA OnceStep == IInv /\ OnceInv /\ [Next]_vars => OnceInv'
BY PlacesStep, CountedStep, HangupStep DEF OnceInv, Places

\* Each prompt is in one place on its way to a resolution, in every behaviour:
\* the inductive form of OneResolution, with what the hang-up leaves behind.
THEOREM OnceHolds == Spec => []OnceInv
BY OnceInit, OnceStep, InvHolds, PTL DEF Spec

\* How often an id is on a channel that repeats none.
LEMMA CountIds ==
  ASSUME NEW q, NoRepeat(q), NEW id
  PROVE  Cardinality({i \in DOMAIN q : q[i].id = id}) = IF id \in IdsIn(q) THEN 1 ELSE 0
<1>1. CASE id \in IdsIn(q)
  <2>1. PICK k \in DOMAIN q : q[k].id = id
    BY <1>1 DEF IdsIn
  <2>2. {i \in DOMAIN q : q[i].id = id} = {k}
    BY <2>1 DEF NoRepeat
  <2> QED
    BY <1>1, <2>2, FS_Singleton
<1>2. CASE id \notin IdsIn(q)
  <2>1. {i \in DOMAIN q : q[i].id = id} = {}
    BY <1>2 DEF IdsIn
  <2> QED
    BY <1>2, <2>1, FS_EmptySet
<1> QED
  BY <1>1, <1>2

LEMMA CountTaken ==
  ASSUME OnceInv, NEW id
  PROVE  Cardinality({t \in taken : t.id = id}) = IF id \in TakenIds THEN 1 ELSE 0
<1>1. CASE id \in TakenIds
  <2>1. PICK u \in taken : u.id = id
    BY <1>1 DEF TakenIds
  <2>2. {t \in taken : t.id = id} = {u}
    BY <2>1 DEF OnceInv, OnePlace
  <2> QED
    BY <1>1, <2>2, FS_Singleton
<1>2. CASE id \notin TakenIds
  <2>1. {t \in taken : t.id = id} = {}
    BY <1>2 DEF TakenIds
  <2> QED
    BY <1>2, <2>1, FS_EmptySet
<1> QED
  BY <1>1, <1>2

LEMMA OnceImplies == OnceInv => OneResolution
<1> SUFFICES ASSUME OnceInv PROVE OneResolution
  OBVIOUS
<1>1. gauge = Cardinality(pending) + Cardinality(taken)
  BY DEF OnceInv, Counted
<1>2. ASSUME routerUp, NEW id \in DOMAIN waiters
      PROVE  Resolutions(id) = 1
  <2>1. id \in UnderWay
    BY <1>2 DEF OnceInv, UnderWayIsOutstanding
  <2>2. /\ Cardinality({i \in DOMAIN promptQ : promptQ[i].id = id}) = IF id \in IdsIn(promptQ) THEN 1 ELSE 0
        /\ Cardinality({i \in DOMAIN verdictQ : verdictQ[i].id = id}) = IF id \in IdsIn(verdictQ) THEN 1 ELSE 0
    BY CountIds DEF OnceInv, OnePlace
  <2>3. Cardinality({t \in taken : t.id = id}) = IF id \in TakenIds THEN 1 ELSE 0
    BY CountTaken
  <2>4. (IF hand.step = "census" /\ hand.id = id THEN 1 ELSE 0) = IF id \in InHand THEN 1 ELSE 0
    BY DEF InHand
  <2>5. Resolutions(id) = (IF id \in IdsIn(promptQ) THEN 1 ELSE 0)
                          + (IF id \in InHand THEN 1 ELSE 0)
                          + (IF id \in pending THEN 1 ELSE 0)
                          + (IF id \in TakenIds THEN 1 ELSE 0)
                          + (IF id \in IdsIn(verdictQ) THEN 1 ELSE 0)
    BY <2>2, <2>3, <2>4 DEF Resolutions
  <2> QED
    BY <2>1, <2>5 DEF UnderWay, OnceInv, OnePlace
<1>3. /\ \A id \in pending : id \in sweepers \/ (hand.step = "cast" /\ hand.id = id)
      /\ IdsIn(promptQ) \cup IdsIn(verdictQ) \cup pending \cup {t.id : t \in taken} \subseteq DOMAIN waiters
  BY DEF OnceInv, Counted, UnderWayIsOutstanding, UnderWay, TakenIds
<1> QED
  BY <1>1, <1>2, <1>3 DEF OneResolution

\* While the router runs every outstanding prompt has exactly one resolution under
\* way, with a sweeper to end it, and the gauge of pending prompts is exact, however
\* answers, timeouts, a vanished audience and shutdown interleave.
THEOREM OneResolutionHolds == Spec => []OneResolution
BY OnceHolds, OnceImplies, PTL

-----------------------------------------------------------------------------
(* No packet is lost or held twice *)

LEMMA ListAppend ==
  ASSUME NEW S, NEW s \in Seq(S), NEW x, NEW p
  PROVE  InList(p, Append(s, x)) <=> InList(p, s) \/ p = x
<1> DEFINE r == Append(s, x)
<1>1. /\ DOMAIN s = 1 .. Len(s) /\ Len(s) \in Nat /\ DOMAIN r = 1 .. Len(s) + 1
      /\ r[Len(s) + 1] = x
      /\ \A i \in DOMAIN s : r[i] = s[i]
  OBVIOUS
<1> HIDE DEF r
<1>2. \A i \in DOMAIN r : i \in DOMAIN s \/ i = Len(s) + 1
  BY <1>1
<1>3. DOMAIN s \subseteq DOMAIN r /\ Len(s) + 1 \in DOMAIN r
  BY <1>1
<1>4. InList(p, r) => InList(p, s) \/ p = x
  BY <1>1, <1>2 DEF InList
<1>5. InList(p, s) => InList(p, r)
  BY <1>1, <1>3 DEF InList
<1>6. p = x => InList(p, r)
  BY <1>1, <1>3 DEF InList
<1> QED
  BY <1>4, <1>5, <1>6 DEF r

\* Letting the first packet of a list without repetitions go.
LEMMA ListTail ==
  ASSUME NEW S, NEW s \in Seq(S), s # <<>>,
         \A i, j \in DOMAIN s : s[i] = s[j] => i = j
  PROVE  /\ InList(Head(s), s)
         /\ \A p : InList(p, Tail(s)) <=> InList(p, s) /\ p # Head(s)
         /\ \A i, j \in DOMAIN Tail(s) : Tail(s)[i] = Tail(s)[j] => i = j
<1> DEFINE r == Tail(s)
<1>1. /\ DOMAIN s = 1 .. Len(s) /\ Len(s) \in Nat /\ Len(s) >= 1 /\ Head(s) = s[1]
      /\ DOMAIN r = 1 .. Len(s) - 1
      /\ \A i \in DOMAIN r : r[i] = s[i + 1]
  OBVIOUS
<1> HIDE DEF r
<1>2. \A i \in DOMAIN r : i + 1 \in DOMAIN s /\ i + 1 # 1
  BY <1>1
<1>3. \A j \in DOMAIN s : j # 1 => j - 1 \in DOMAIN r /\ r[j - 1] = s[j]
  BY <1>1
<1>4. 1 \in DOMAIN s
  BY <1>1
<1>5. InList(Head(s), s)
  BY <1>1, <1>4 DEF InList
<1>6. ASSUME NEW p PROVE InList(p, r) <=> InList(p, s) /\ p # Head(s)
  <2>1. ASSUME InList(p, r) PROVE InList(p, s) /\ p # Head(s)
    BY <2>1, <1>1, <1>2, <1>4 DEF InList
  <2>2. ASSUME InList(p, s), p # Head(s) PROVE InList(p, r)
    BY <2>2, <1>1, <1>3 DEF InList
  <2> QED
    BY <2>1, <2>2
<1>7. \A i, j \in DOMAIN r : r[i] = r[j] => i = j
  BY <1>1, <1>2
<1> QED
  BY <1>5, <1>6, <1>7 DEF r

LEMMA HoldUnchanged ==
  ASSUME HoldInv, UNCHANGED <<waiters, cur, arrived, verdict>>,
         wpc' \in {"resolve", "exited"} \/ wpc \notin {"resolve", "exited"}
  PROVE  HoldInv'
BY DEF HoldInv, HeldOnce, HeldAreOpen, OnlyResolveHolds, InWaiters, InList

LEMMA HoldBegin ==
  ASSUME IInv, HoldInv, wpc \notin {"resolve", "exited"}, NEW id, NEW v,
         NEW back \in {"top", "drain", "flushRecv", "flushTop"},
         ResolveBegin(id, v, back), UNCHANGED kernel
  PROVE  HoldInv'
<1>1. CASE id \notin DOMAIN waiters
  BY <1>1, HoldUnchanged DEF ResolveBegin
<1>2. CASE id \in DOMAIN waiters
  <2>1. /\ DOMAIN waiters' = DOMAIN waiters \ {id}
        /\ \A a \in DOMAIN waiters' : waiters'[a] = waiters[a]
    BY <1>2 DEF ResolveBegin, Restrict
  <2>2. cur'.packets = waiters[id].packets /\ cur'.id = id /\ wpc' = "resolve" /\ cur.packets = <<>>
    BY <1>2 DEF ResolveBegin, HoldInv, OnlyResolveHolds
  <2>3. \A p : (InWaiters(p) \/ InList(p, cur.packets)) <=> (InWaiters(p) \/ InList(p, cur.packets))'
    <3>1. \A p : ~InList(p, cur.packets)
      BY <2>2 DEF InList
    <3>2. \A p : InWaiters(p)' <=> \E a \in DOMAIN waiters \ {id} : InList(p, waiters[a].packets)
      BY <2>1 DEF InWaiters, InList
    <3>3. \A p : InList(p, cur.packets)' <=> InList(p, waiters[id].packets)
      BY <2>2 DEF InList
    <3> QED
      BY <1>2, <3>1, <3>2, <3>3 DEF InWaiters
  <2>4. HeldAreOpen'
    BY <2>3 DEF HoldInv, HeldAreOpen
  <2>5. OnlyResolveHolds'
    BY <1>2, <2>2 DEF OnlyResolveHolds, IInv, TypeOK, TableTypes
  <2>6. \A a, b \in DOMAIN waiters' :
          \A i \in DOMAIN waiters'[a].packets, j \in DOMAIN waiters'[b].packets :
            waiters'[a].packets[i] = waiters'[b].packets[j] => a = b /\ i = j
    BY <2>1 DEF HoldInv, HeldOnce
  <2>7. \A i, j \in DOMAIN cur'.packets : cur'.packets[i] = cur'.packets[j] => i = j
    BY <1>2, <2>2 DEF HoldInv, HeldOnce
  <2>8. \A p \in Packets : ~(InWaiters(p) /\ InList(p, cur.packets))'
    <3> SUFFICES ASSUME NEW p \in Packets, InWaiters(p)', InList(p, cur.packets)'
                 PROVE  FALSE
      OBVIOUS
    <3>1. PICK a \in DOMAIN waiters \ {id} : \E i \in DOMAIN waiters[a].packets : waiters[a].packets[i] = p
      BY <2>1 DEF InWaiters, InList
    <3>2. PICK j \in DOMAIN waiters[id].packets : waiters[id].packets[j] = p
      BY <2>2 DEF InList
    <3> QED
      BY <1>2, <3>1, <3>2 DEF HoldInv, HeldOnce
  <2> QED
    BY <2>4, <2>5, <2>6, <2>7, <2>8 DEF HoldInv, HeldOnce
<1> QED
  BY <1>1, <1>2

LEMMA HoldResolvePacket ==
  ASSUME IInv, HoldInv, ResolvePacket
  PROVE  HoldInv'
<1> DEFINE p == Head(cur.packets)
           v == ResolutionVerdict(peek[FlowOf[p]], cur.verdict)
<1>1. cur.packets \in Seq(Packets) /\ cur.packets # <<>> /\ p \in Packets
  BY DEF ResolvePacket, IInv, TypeOK, LocalTypes, WorkerSteps
<1>2. v \in Verdicts
  <2>1. cur.verdict \in Verdicts
    BY DEF ResolvePacket, IInv, WorkerSteps
  <2>2. peek[FlowOf[p]] \in AllDecisions
    BY <1>1, PromptFlowAssumption DEF IInv, TypeOK, EnvTypes
  <2> QED
    BY <2>1, <2>2, ResolutionIsVerdict
<1>3. verdict' = [verdict EXCEPT ![p] = v] /\ arrived' = arrived /\ waiters' = waiters
  BY DEF ResolvePacket, Deliver
<1>4. v # NoVerdict
  BY <1>2 DEF NoVerdict, Verdicts, Sources
<1>5. /\ InList(p, cur.packets)
      /\ \A q : InList(q, cur'.packets) <=> InList(q, cur.packets) /\ q # p
      /\ \A i, j \in DOMAIN cur'.packets : cur'.packets[i] = cur'.packets[j] => i = j
  <2>1. cur'.packets = Tail(cur.packets)
    <3>1. CASE Len(cur.packets) = 1
      <4>1. Tail(cur.packets) \in Seq(Packets) /\ Len(Tail(cur.packets)) = 0
        BY <1>1, <3>1, HeadTailProperties
      <4>2. Tail(cur.packets) = <<>>
        BY <4>1, EmptySeq
      <4>3. cur' = NoResolution
        BY <3>1 DEF ResolvePacket
      <4>4. cur'.packets = <<>>
        BY <4>3 DEF NoResolution
      <4> QED
        BY <4>2, <4>4
    <3>2. CASE Len(cur.packets) # 1
      BY <3>2 DEF ResolvePacket, IInv, TypeOK, LocalTypes
    <3> QED
      BY <3>1, <3>2
  <2>2. \A i, j \in DOMAIN cur.packets : cur.packets[i] = cur.packets[j] => i = j
    BY DEF HoldInv, HeldOnce
  <2> QED
    BY <1>1, <2>1, <2>2, ListTail
<1> HIDE DEF v, p
<1>6. \A q : InWaiters(q)' <=> InWaiters(q)
  BY <1>3 DEF InWaiters, InList
<1>7. verdict \in [Packets -> Verdicts \cup {NoVerdict}]
  BY DEF IInv, TypeOK, KernelTypes
<1>8. HeldOnce'
  <2>1. \A q \in Packets : ~(InWaiters(q) /\ InList(q, cur.packets))'
    BY <1>5, <1>6 DEF HoldInv, HeldOnce, InList
  <2> QED
    BY <1>3, <1>5, <2>1 DEF HoldInv, HeldOnce
<1>9. HeldAreOpen'
  <2>1. ASSUME NEW q \in Packets
        PROVE  (InWaiters(q) \/ InList(q, cur.packets))' <=> q \in arrived' /\ verdict'[q] = NoVerdict
    <3>1. InList(q, cur.packets)' <=> InList(q, cur.packets) /\ q # p
      BY <1>5 DEF InList
    <3>2. CASE q = p
      BY <3>1, <3>2, <1>1, <1>3, <1>4, <1>5, <1>6, <1>7 DEF HoldInv, HeldOnce
    <3>3. CASE q # p
      <4>1. verdict'[q] = verdict[q]
        BY <3>3, <1>3, <1>7
      <4> QED
        BY <4>1, <3>1, <3>3, <1>3, <1>6 DEF HoldInv, HeldAreOpen
    <3> QED
      BY <3>2, <3>3
  <2>2. p \in arrived
    BY <1>1, <1>5 DEF HoldInv, HeldAreOpen
  <2>3. \A q \in Packets \ arrived' : verdict'[q] = NoVerdict
    BY <2>2, <1>3, <1>7 DEF HoldInv, HeldAreOpen
  <2> QED
    BY <2>1, <2>3 DEF HeldAreOpen
<1>10. OnlyResolveHolds'
  <2>1. CASE Len(cur.packets) = 1
    BY <2>1 DEF ResolvePacket, OnlyResolveHolds, NoResolution
  <2>2. CASE Len(cur.packets) # 1
    <3>1. wpc' = "resolve" /\ cur'.id = cur.id
      BY <2>2 DEF ResolvePacket, IInv, TypeOK, LocalTypes
    <3> QED
      BY <3>1, <1>1 DEF OnlyResolveHolds, HoldInv
  <2> QED
    BY <2>1, <2>2
<1> QED
  BY <1>8, <1>9, <1>10 DEF HoldInv

\* A packet that is settled as it is received.
LEMMA HoldSettled ==
  ASSUME IInv, HoldInv, NEW p \in Packets, Receive(p), NEW v \in Verdicts,
         verdict' = [verdict EXCEPT ![p] = v], waiters' = waiters
  PROVE  HoldInv'
<1>1. p \notin arrived /\ arrived' = arrived \cup {p} /\ cur' = cur /\ wpc = "recv" /\ wpc' = "top"
  BY DEF Receive
<1>2. verdict \in [Packets -> Verdicts \cup {NoVerdict}] /\ v # NoVerdict
  BY DEF IInv, TypeOK, KernelTypes, NoVerdict, Verdicts, Sources
<1>3. \A q : (InWaiters(q)' <=> InWaiters(q)) /\ (InList(q, cur.packets)' <=> InList(q, cur.packets))
  BY <1>1 DEF InWaiters, InList
<1>4. HeldOnce' /\ OnlyResolveHolds'
  BY <1>1, <1>3 DEF HoldInv, HeldOnce, OnlyResolveHolds
<1>5. ASSUME NEW q \in Packets
      PROVE  (InWaiters(q) \/ InList(q, cur.packets))' <=> q \in arrived' /\ verdict'[q] = NoVerdict
  <2>1. CASE q = p
    BY <2>1, <1>1, <1>2, <1>3 DEF HoldInv, HeldAreOpen
  <2>2. CASE q # p
    <3>1. verdict'[q] = verdict[q] /\ (q \in arrived' <=> q \in arrived)
      BY <2>2, <1>1, <1>2
    <3> QED
      BY <3>1, <1>3 DEF HoldInv, HeldAreOpen
  <2> QED
    BY <2>1, <2>2
<1>6. \A q \in Packets \ arrived' : verdict'[q] = NoVerdict
  BY <1>1, <1>2 DEF HoldInv, HeldAreOpen
<1> QED
  BY <1>4, <1>5, <1>6 DEF HoldInv, HeldAreOpen

LEMMA HoldFallback ==
  ASSUME IInv, HoldInv, NEW p \in Packets, Receive(p), DeliverFallback(p), waiters' = waiters
  PROVE  HoldInv'
<1>1. PICK noUi \in PolicyActions : Deliver(p, FromPolicy(noUi), 0)
  BY DEF DeliverFallback
<1> QED
  BY <1>1, PolicyIsVerdict, HoldSettled DEF Deliver

LEMMA HoldHandleSettled ==
  ASSUME IInv, HoldInv, NEW p \in Packets, HandleSettled(p)
  PROVE  HoldInv'
<1>1. PICK class \in Classes, paused \in BOOLEAN, noUi \in PolicyActions :
        LET v == HandlePacket(class, peek[FlowOf[p]], paused, noUi)
        IN  v # NoVerdict /\ Deliver(p, v, 0)
  BY DEF HandleSettled
<1>2. HandlePacket(class, peek[FlowOf[p]], paused, noUi) \in Verdicts
  <2>1. peek[FlowOf[p]] \in AllDecisions
    BY PromptFlowAssumption DEF IInv, TypeOK, EnvTypes
  <2> QED
    BY <1>1, <2>1, HandledIsVerdict
<1> QED
  BY <1>1, <1>2, HoldSettled DEF HandleSettled, Deliver

\* A packet that is parked as it is received, in one list of the table.
LEMMA HoldParked ==
  ASSUME IInv, HoldInv, NEW p \in Packets, Receive(p), verdict' = verdict,
         \A q : InWaiters(q)' <=> InWaiters(q) \/ q = p,
         \A a, b \in DOMAIN waiters' :
           \A i \in DOMAIN waiters'[a].packets, j \in DOMAIN waiters'[b].packets :
             waiters'[a].packets[i] = waiters'[b].packets[j] => a = b /\ i = j
  PROVE  HoldInv'
<1>1. p \notin arrived /\ arrived' = arrived \cup {p} /\ cur' = cur /\ wpc = "recv" /\ wpc' = "top"
  BY DEF Receive
<1>2. cur.packets = <<>>
  BY <1>1 DEF HoldInv, OnlyResolveHolds
<1>3. \A q : ~InList(q, cur.packets) /\ ~InList(q, cur.packets)'
  BY <1>1, <1>2 DEF InList
<1>4. HeldOnce' /\ OnlyResolveHolds'
  BY <1>1, <1>2, <1>3 DEF HeldOnce, OnlyResolveHolds
<1>5. HeldAreOpen'
  BY <1>1, <1>3 DEF HoldInv, HeldAreOpen
<1> QED
  BY <1>4, <1>5 DEF HoldInv

LEMMA HoldRide ==
  ASSUME IInv, HoldInv, NEW p \in Packets, RidePrompt(p)
  PROVE  HoldInv'
<1> DEFINE id == pendingFlows[FlowOf[p]]
           s  == waiters[id].packets
<1>1. id \in DOMAIN waiters /\ s \in Seq(Packets)
  BY DEF RidePrompt, RidesOn, IInv, TypeOK, TableTypes
<1>2. waiters' = [waiters EXCEPT ![id].packets = Append(s, p)]
  BY DEF RidePrompt
<1>3. /\ DOMAIN waiters' = DOMAIN waiters
      /\ \A a \in DOMAIN waiters : a # id => waiters'[a] = waiters[a]
      /\ waiters'[id].packets = Append(s, p)
  <2>1. waiters[id] \in [flow : Flows, packets : Seq(Packets), fallback : Verdicts]
    BY <1>1 DEF IInv, TypeOK, TableTypes
  <2>2. /\ DOMAIN waiters' = DOMAIN waiters
        /\ \A a \in DOMAIN waiters : a # id => waiters'[a] = waiters[a]
        /\ waiters'[id] = [waiters[id] EXCEPT !.packets = Append(s, p)]
    BY <1>1, <1>2
  <2> QED
    BY <2>1, <2>2
<1>4. p \notin arrived /\ Receive(p) /\ verdict' = verdict
  BY DEF RidePrompt, Receive
<1>5. \A a \in DOMAIN waiters : \A i \in DOMAIN waiters[a].packets : waiters[a].packets[i] # p
  BY <1>4 DEF HoldInv, HeldAreOpen, InWaiters, InList
<1> HIDE DEF id
<1>6. \A q : InList(q, waiters'[id].packets) <=> InList(q, s) \/ q = p
  BY <1>1, <1>3, ListAppend
<1>7. \A q : InWaiters(q)' <=> InWaiters(q) \/ q = p
  <2>1. ASSUME NEW q PROVE InWaiters(q)' => InWaiters(q) \/ q = p
    BY <1>1, <1>3, <1>6 DEF InWaiters
  <2>2. ASSUME NEW q, InWaiters(q) PROVE InWaiters(q)'
    <3>1. PICK a \in DOMAIN waiters : InList(q, waiters[a].packets)
      BY <2>2 DEF InWaiters
    <3>2. InList(q, waiters'[a].packets)
      BY <3>1, <1>3, <1>6
    <3> QED
      BY <3>2, <1>3 DEF InWaiters
  <2>3. InWaiters(p)'
    BY <1>1, <1>3, <1>6 DEF InWaiters
  <2> QED
    BY <2>1, <2>2, <2>3
<1>8. \A a, b \in DOMAIN waiters' :
        \A i \in DOMAIN waiters'[a].packets, j \in DOMAIN waiters'[b].packets :
          waiters'[a].packets[i] = waiters'[b].packets[j] => a = b /\ i = j
  <2>1. /\ DOMAIN waiters'[id].packets = DOMAIN s \cup {Len(s) + 1}
        /\ Len(s) + 1 \notin DOMAIN s
        /\ waiters'[id].packets[Len(s) + 1] = p
        /\ \A i \in DOMAIN s : waiters'[id].packets[i] = s[i]
    BY <1>1, <1>3
  <2> HIDE DEF s
  <2>2. SUFFICES ASSUME NEW a \in DOMAIN waiters, NEW b \in DOMAIN waiters,
                        NEW i \in DOMAIN waiters'[a].packets, NEW j \in DOMAIN waiters'[b].packets,
                        waiters'[a].packets[i] = waiters'[b].packets[j]
                 PROVE  a = b /\ i = j
    BY <1>3
  <2>3. ASSUME NEW c \in DOMAIN waiters, NEW k \in DOMAIN waiters'[c].packets
        PROVE  \/ c = id /\ k = Len(s) + 1 /\ waiters'[c].packets[k] = p
               \/ k \in DOMAIN waiters[c].packets /\ waiters'[c].packets[k] = waiters[c].packets[k]
                  /\ waiters[c].packets[k] # p
    BY <2>3, <2>1, <1>3, <1>5 DEF s
  <2> QED
    BY <2>2, <2>3 DEF HoldInv, HeldOnce
<1> QED
  BY <1>4, <1>7, <1>8, HoldParked

LEMMA HoldOpen ==
  ASSUME IInv, HoldInv, NEW p \in Packets, OpenPrompt(p)
  PROVE  HoldInv'
<1> DEFINE id == nextPromptId
<1>1. id \notin DOMAIN waiters
  BY DEF IInv, WorkerSteps, TypeOK, TableTypes
<1>2. /\ DOMAIN waiters' = DOMAIN waiters \cup {id}
      /\ \A a \in DOMAIN waiters : waiters'[a] = waiters[a]
      /\ waiters'[id].packets = <<p>>
  BY <1>1 DEF OpenPrompt
<1>3. p \notin arrived /\ Receive(p) /\ verdict' = verdict
  BY DEF OpenPrompt, Receive
<1>4. \A a \in DOMAIN waiters : \A i \in DOMAIN waiters[a].packets : waiters[a].packets[i] # p
  BY <1>3 DEF HoldInv, HeldAreOpen, InWaiters, InList
<1> HIDE DEF id
<1>5. \A q : InList(q, waiters'[id].packets) <=> q = p
  BY <1>2 DEF InList
<1>6. \A q : InWaiters(q)' <=> InWaiters(q) \/ q = p
  <2>1. ASSUME NEW q PROVE InWaiters(q)' => InWaiters(q) \/ q = p
    BY <1>2, <1>5 DEF InWaiters
  <2>2. ASSUME NEW q, InWaiters(q) PROVE InWaiters(q)'
    BY <2>2, <1>2 DEF InWaiters
  <2>3. InWaiters(p)'
    BY <1>2, <1>5 DEF InWaiters
  <2> QED
    BY <2>1, <2>2, <2>3
<1>7. \A a, b \in DOMAIN waiters' :
        \A i \in DOMAIN waiters'[a].packets, j \in DOMAIN waiters'[b].packets :
          waiters'[a].packets[i] = waiters'[b].packets[j] => a = b /\ i = j
  <2>1. ASSUME NEW c \in DOMAIN waiters', NEW k \in DOMAIN waiters'[c].packets
        PROVE  \/ c = id /\ k = 1 /\ waiters'[c].packets[k] = p
               \/ c \in DOMAIN waiters /\ k \in DOMAIN waiters[c].packets
                  /\ waiters'[c].packets[k] = waiters[c].packets[k] /\ waiters[c].packets[k] # p
    BY <2>1, <1>2, <1>4
  <2> QED
    BY <2>1 DEF HoldInv, HeldOnce
<1> QED
  BY <1>3, <1>6, <1>7, HoldParked

LEMMA HoldStep == IInv /\ HoldInv /\ [Next]_vars => HoldInv'
<1> SUFFICES ASSUME IInv, HoldInv, [Next]_vars PROVE HoldInv'
  OBVIOUS
<1>1. CASE TakeVerdict
  BY <1>1, HoldBegin DEF TakeVerdict
<1>2. CASE FlushWaiter
  BY <1>2, HoldBegin DEF FlushWaiter
<1>3. CASE ResolvePacket
  BY <1>3, HoldResolvePacket
<1>4. ASSUME NEW p \in Packets,
             HandleSettled(p) \/ RidePrompt(p) \/ RideOverflow(p) \/ BacklogFull(p)
               \/ OpenPrompt(p) \/ RouterUnavailable(p)
      PROVE  HoldInv'
  BY <1>4, HoldHandleSettled, HoldRide, HoldOpen, HoldFallback DEF RideOverflow, BacklogFull, RouterUnavailable
<1>5. CASE WorkerTop \/ DrainEmpty \/ CloseVerdictChannel \/ FlushDone \/ RecvNothing \/ WorkerFails
  BY <1>5, HoldUnchanged DEF WorkerTop, DrainEmpty, CloseVerdictChannel, FlushDone, RecvNothing,
     WorkerFails, VerdictFails, RecvError
<1>6. CASE UNCHANGED workerVars
  BY <1>6, HoldUnchanged
<1>7. CASE Router \/ Sweeper \/ Sending \/ Client \/ Environment \/ UNCHANGED vars
  <2>1. UNCHANGED workerVars
    BY <1>7 DEF vars, Router, RouterRecv, RouterNoAudience, RouterInsert, RouterBroadcast, RouterReclaim,
       Sweeper, SweeperFires, Sending, SendTaken, Client, Submit, Environment, StreamOpens,
       StreamSubscribes, StreamCloses, RulesChange, RequestStop, RuntimeShutdown
  <2> QED
    BY <2>1, <1>6
<1> QED
  BY <1>1, <1>2, <1>3, <1>4, <1>5, <1>7 DEF Next, WorkerRuns

LEMMA HoldInit == Init => HoldInv
<1> SUFFICES ASSUME Init PROVE HoldInv
  OBVIOUS
<1>1. DOMAIN waiters = {} /\ cur.packets = <<>> /\ arrived = {} /\ \A p \in Packets : verdict[p] = NoVerdict
  BY DEF Init, NoResolution
<1> QED
  BY <1>1 DEF HoldInv, HeldOnce, HeldAreOpen, OnlyResolveHolds, InWaiters, InList

\* The packets held are exactly those read and not answered, each once, in
\* every behaviour: the inductive form of NoPacketLost.
THEOREM HoldHolds == Spec => []HoldInv
BY HoldInit, HoldStep, InvHolds, PTL DEF Spec

LEMMA HoldImplies == IInv /\ HoldInv => NoPacketLost
<1> SUFFICES ASSUME IInv, HoldInv, NEW p \in arrived
             PROVE  LET places == {at \in (DOMAIN waiters) \X (1 .. MaxPacketsPerPrompt) :
                                     /\ at[2] <= Len(waiters[at[1]].packets)
                                     /\ waiters[at[1]].packets[at[2]] = p}
                        left == {i \in 1 .. Len(cur.packets) : cur.packets[i] = p}
                    IN  Cardinality(places) + Cardinality(left)
                          = IF verdict[p] = NoVerdict THEN 1 ELSE 0
  BY DEF NoPacketLost
<1> DEFINE places == {at \in (DOMAIN waiters) \X (1 .. MaxPacketsPerPrompt) :
                        /\ at[2] <= Len(waiters[at[1]].packets)
                        /\ waiters[at[1]].packets[at[2]] = p}
           left   == {i \in 1 .. Len(cur.packets) : cur.packets[i] = p}
<1>1. p \in Packets
  BY DEF IInv, TypeOK, KernelTypes
<1>2. \A id \in DOMAIN waiters :
        /\ DOMAIN waiters[id].packets = 1 .. Len(waiters[id].packets)
        /\ Len(waiters[id].packets) \in Nat
        /\ Len(waiters[id].packets) <= MaxPacketsPerPrompt
  BY PromptFlowAssumption DEF IInv, TypeOK, TableTypes, WaitersMatchFlows
<1>3. DOMAIN cur.packets = 1 .. Len(cur.packets)
  BY DEF IInv, TypeOK, LocalTypes
<1>4. \A at : at \in places <=> \E id \in DOMAIN waiters : \E i \in DOMAIN waiters[id].packets :
                                   at = <<id, i>> /\ waiters[id].packets[i] = p
  <2>1. ASSUME NEW at \in places
        PROVE  \E id \in DOMAIN waiters : \E i \in DOMAIN waiters[id].packets :
                 at = <<id, i>> /\ waiters[id].packets[i] = p
    <3>1. PICK id \in DOMAIN waiters, i \in 1 .. MaxPacketsPerPrompt :
            at = <<id, i>> /\ i <= Len(waiters[id].packets) /\ waiters[id].packets[i] = p
      BY <2>1
    <3>2. i \in DOMAIN waiters[id].packets
      BY <3>1, <1>2, PromptFlowAssumption
    <3> QED
      BY <3>1, <3>2
  <2>2. ASSUME NEW id \in DOMAIN waiters, NEW i \in DOMAIN waiters[id].packets, waiters[id].packets[i] = p
        PROVE  <<id, i>> \in places
    <3>1. i \in 1 .. MaxPacketsPerPrompt /\ i <= Len(waiters[id].packets)
      BY <1>2, PromptFlowAssumption
    <3> QED
      BY <3>1, <2>2
  <2> QED
    BY <2>1, <2>2
<1>5. left = {i \in DOMAIN cur.packets : cur.packets[i] = p}
  BY <1>3
<1> HIDE DEF places, left
<1>6. Cardinality(places) = IF InWaiters(p) THEN 1 ELSE 0
  <2>1. CASE InWaiters(p)
    <3>1. PICK id \in DOMAIN waiters : \E i \in DOMAIN waiters[id].packets : waiters[id].packets[i] = p
      BY <2>1 DEF InWaiters, InList
    <3>2. PICK i \in DOMAIN waiters[id].packets : waiters[id].packets[i] = p
      BY <3>1
    <3>3. places = {<<id, i>>}
      <4>1. <<id, i>> \in places
        BY <3>2, <1>4
      <4>2. ASSUME NEW at \in places PROVE at = <<id, i>>
        <5>1. PICK jd \in DOMAIN waiters : \E j \in DOMAIN waiters[jd].packets :
                at = <<jd, j>> /\ waiters[jd].packets[j] = p
          BY <4>2, <1>4
        <5>2. PICK j \in DOMAIN waiters[jd].packets : at = <<jd, j>> /\ waiters[jd].packets[j] = p
          BY <5>1
        <5>3. jd = id /\ j = i
          BY <3>2, <5>2 DEF HoldInv, HeldOnce
        <5> QED
          BY <5>2, <5>3
      <4> QED
        BY <4>1, <4>2
    <3> QED
      BY <2>1, <3>3, FS_Singleton
  <2>2. CASE ~InWaiters(p)
    <3>1. places = {}
      BY <2>2, <1>4 DEF InWaiters, InList
    <3> QED
      BY <2>2, <3>1, FS_EmptySet
  <2> QED
    BY <2>1, <2>2
<1>7. Cardinality(left) = IF InList(p, cur.packets) THEN 1 ELSE 0
  <2>1. CASE InList(p, cur.packets)
    <3>1. PICK i \in DOMAIN cur.packets : cur.packets[i] = p
      BY <2>1 DEF InList
    <3>2. left = {i}
      BY <3>1, <1>5 DEF HoldInv, HeldOnce
    <3> QED
      BY <2>1, <3>2, FS_Singleton
  <2>2. CASE ~InList(p, cur.packets)
    <3>1. left = {}
      BY <2>2, <1>5 DEF InList
    <3> QED
      BY <2>2, <3>1, FS_EmptySet
  <2> QED
    BY <2>1, <2>2
<1>8. /\ InWaiters(p) \/ InList(p, cur.packets) <=> verdict[p] = NoVerdict
      /\ ~(InWaiters(p) /\ InList(p, cur.packets))
  BY <1>1 DEF HoldInv, HeldOnce, HeldAreOpen
<1>9. Cardinality(places) + Cardinality(left) = IF verdict[p] = NoVerdict THEN 1 ELSE 0
  <2>1. CASE verdict[p] = NoVerdict
    BY <2>1, <1>6, <1>7, <1>8
  <2>2. CASE verdict[p] # NoVerdict
    BY <2>2, <1>6, <1>7, <1>8
  <2> QED
    BY <2>1, <2>2
<1> QED
  BY <1>9 DEF places, left

\* Every packet read from the queue is answered or held by exactly one prompt,
\* in one place: no branch of parking, riding, falling back, resolving or
\* flushing loses or repeats one.
THEOREM NoPacketLostHolds == Spec => []NoPacketLost
BY HoldHolds, InvHolds, HoldImplies, PTL

-----------------------------------------------------------------------------
(* An accepted answer reaches the packets of its prompt *)

\* A step that accepts nothing, whatever it moves, keeps the answers in place if
\* it keeps their direction.
LEMMA AnswersKept ==
  ASSUME AnswerInv, accepted' = accepted,
         \A t \in taken' : t \in taken \/ (t.by # "User" /\ t.id \notin AcceptedIds),
         \A i \in DOMAIN verdictQ' : \/ \E j \in DOMAIN verdictQ : verdictQ'[i] = verdictQ[j]
                                     \/ Chosen(verdictQ'[i].id, verdictQ'[i].verdict),
         cur'.packets # <<>> => /\ Chosen(cur'.id, cur'.verdict)
                                /\ cur'.id \notin DOMAIN waiters',
         \A id \in DOMAIN waiters' :
           \/ id \in DOMAIN waiters /\ waiters'[id].fallback = waiters[id].fallback
           \/ id \notin AcceptedIds /\ waiters'[id].fallback.source = "Policy",
         AcceptedIds \cap (IdsIn(promptQ) \cup InHand \cup pending)' = {},
         AcceptedIds \cap (TakenIds \cup IdsIn(verdictQ))
           \subseteq (AcceptedIds \cap (TakenIds \cup IdsIn(verdictQ))') \cup (DOMAIN waiters \ DOMAIN waiters'),
         nextPromptId' \in Nat, nextPromptId \in Nat, nextPromptId' >= nextPromptId,
         \A id \in AcceptedIds : id \in Nat
  PROVE  AnswerInv'
<1>1. AcceptedIds' = AcceptedIds /\ \A id, v : Chosen(id, v)' <=> Chosen(id, v)
  BY DEF AcceptedIds, Chosen, IsAccepted
<1>2. \A t \in taken' : IF t.by = "User" THEN IsAccepted(t.id, t.action)' ELSE t.id \notin AcceptedIds'
  BY <1>1 DEF AnswerInv, AnswersTravel, IsAccepted
<1>3. \A i \in DOMAIN verdictQ' : Chosen(verdictQ[i].id, verdictQ[i].verdict)'
  <2>1. \A j \in DOMAIN verdictQ : Chosen(verdictQ[j].id, verdictQ[j].verdict)
    BY DEF AnswerInv, AnswersTravel
  <2>2. ASSUME NEW i \in DOMAIN verdictQ' PROVE Chosen(verdictQ'[i].id, verdictQ'[i].verdict)
    BY <2>1
  <2> QED
    BY <2>2, <1>1 DEF Chosen, IsAccepted, AcceptedIds
<1>4. cur'.packets # <<>> => Chosen(cur.id, cur.verdict)'
  BY <1>1 DEF Chosen, IsAccepted, AcceptedIds
<1>5. \A id \in DOMAIN waiters' : waiters'[id].fallback.source = "Policy"
  BY DEF AnswerInv, AnswersTravel
<1>6. AnswersTravel'
  BY <1>2, <1>3, <1>4, <1>5 DEF AnswersTravel, Chosen, IsAccepted, AcceptedIds
<1>7. AcceptedLeft'
  <2>1. AcceptedIds \cap DOMAIN waiters' \subseteq (TakenIds \cup IdsIn(verdictQ))'
    <3> SUFFICES ASSUME NEW id \in AcceptedIds, id \in DOMAIN waiters'
                 PROVE  id \in (TakenIds \cup IdsIn(verdictQ))'
      OBVIOUS
    <3>1. id \in DOMAIN waiters
      OBVIOUS
    <3>2. id \in TakenIds \cup IdsIn(verdictQ)
      BY <3>1 DEF AnswerInv, AcceptedLeft
    <3> QED
      BY <3>2
  <2>2. \A id \in AcceptedIds : id < nextPromptId'
    BY DEF AnswerInv, AcceptedLeft
  <2> QED
    BY <1>1, <2>1, <2>2 DEF AcceptedLeft
<1>8. Forgotten'
  BY DEF Forgotten
<1> QED
  BY <1>6, <1>7, <1>8 DEF AnswerInv

\* A verdict on the way was chosen, and so is the one resolve_prompt holds.
LEMMA AnswersQuiet ==
  ASSUME IInv, AnswerInv, UNCHANGED <<accepted, taken, verdictQ, cur, waiters>>,
         (IdsIn(promptQ) \cup InHand \cup pending)' \subseteq IdsIn(promptQ) \cup InHand \cup pending,
         nextPromptId' \in Nat, nextPromptId' >= nextPromptId
  PROVE  AnswerInv'
<1>1. nextPromptId \in Nat /\ \A id \in AcceptedIds : id \in Nat
  BY DEF IInv, TypeOK, TableTypes, RouterTypes, AcceptedIds
<1>2. TakenIds' = TakenIds /\ IdsIn(verdictQ)' = IdsIn(verdictQ)
  BY DEF TakenIds, IdsIn
<1>3. AcceptedIds \cap (IdsIn(promptQ) \cup InHand \cup pending)' = {}
  BY DEF AnswerInv, AcceptedLeft
<1>4. cur'.packets # <<>> => Chosen(cur'.id, cur'.verdict) /\ cur'.id \notin DOMAIN waiters'
  BY DEF AnswerInv, AnswersTravel, Forgotten
<1>5. \A id \in DOMAIN waiters' : id \in DOMAIN waiters /\ waiters'[id].fallback = waiters[id].fallback
  OBVIOUS
<1>6. \A i \in DOMAIN verdictQ' : \E j \in DOMAIN verdictQ : verdictQ'[i] = verdictQ[j]
  OBVIOUS
<1> QED
  BY <1>1, <1>2, <1>3, <1>4, <1>5, <1>6, AnswersKept

\* The same for a step of the worker that takes up a prompt or its packets.
LEMMA AnswersWorker ==
  ASSUME IInv, AnswerInv, UNCHANGED <<accepted, taken, verdictQ, promptQ, hand, pending, nextPromptId>>,
         cur'.packets # <<>> => Chosen(cur'.id, cur'.verdict) /\ cur'.id \notin DOMAIN waiters',
         \A id \in DOMAIN waiters' : id \in DOMAIN waiters /\ waiters'[id].fallback = waiters[id].fallback
  PROVE  AnswerInv'
<1>1. nextPromptId \in Nat /\ nextPromptId' >= nextPromptId /\ \A id \in AcceptedIds : id \in Nat
  BY DEF IInv, TypeOK, TableTypes, RouterTypes, AcceptedIds
<1>2. /\ TakenIds' = TakenIds /\ IdsIn(verdictQ)' = IdsIn(verdictQ)
      /\ (IdsIn(promptQ) \cup InHand \cup pending)' = IdsIn(promptQ) \cup InHand \cup pending
  BY DEF TakenIds, IdsIn, InHand
<1>3. AcceptedIds \cap (IdsIn(promptQ) \cup InHand \cup pending)' = {}
  BY <1>2 DEF AnswerInv, AcceptedLeft
<1>4. \A i \in DOMAIN verdictQ' : \E j \in DOMAIN verdictQ : verdictQ'[i] = verdictQ[j]
  OBVIOUS
<1> QED
  BY <1>1, <1>2, <1>3, <1>4, AnswersKept

\* What resolve_prompt has in hand when it takes prompt id up.
LEMMA BeginHolds ==
  ASSUME IInv, HoldInv, AnswerInv, wpc \notin {"resolve", "exited"},
         NEW id, NEW v, NEW back, ResolveBegin(id, v, back),
         id \in DOMAIN waiters => Chosen(id, v)
  PROVE  /\ cur'.packets # <<>> => Chosen(cur'.id, cur'.verdict) /\ cur'.id \notin DOMAIN waiters'
         /\ \A a \in DOMAIN waiters' : a \in DOMAIN waiters /\ waiters'[a].fallback = waiters[a].fallback
<1>1. CASE id \in DOMAIN waiters
  <2>1. /\ DOMAIN waiters' = DOMAIN waiters \ {id}
        /\ \A a \in DOMAIN waiters' : waiters'[a] = waiters[a]
        /\ cur'.id = id /\ cur'.verdict = v
    BY <1>1 DEF ResolveBegin, Restrict
  <2> QED
    BY <1>1, <2>1
<1>2. CASE id \notin DOMAIN waiters
  <2>1. cur' = cur /\ waiters' = waiters /\ cur.packets = <<>>
    BY <1>2 DEF ResolveBegin, HoldInv, OnlyResolveHolds
  <2> QED
    BY <2>1
<1> QED
  BY <1>1, <1>2

LEMMA AnswersTakeVerdict ==
  ASSUME IInv, OnceInv, HoldInv, AnswerInv, TakeVerdict
  PROVE  AnswerInv'
<1> DEFINE m == Head(verdictQ)
<1>1. verdictQ \in Seq(Answers) /\ verdictQ # <<>> /\ verdictQ' = Tail(verdictQ)
  BY DEF TakeVerdict, IInv, TypeOK, ChannelTypes
<1>2. /\ 1 \in DOMAIN verdictQ /\ m = verdictQ[1]
      /\ \A i \in DOMAIN verdictQ' : \E j \in DOMAIN verdictQ : verdictQ'[i] = verdictQ[j]
  <2>1. /\ DOMAIN verdictQ = 1 .. Len(verdictQ) /\ Len(verdictQ) \in Nat /\ Len(verdictQ) >= 1
        /\ DOMAIN verdictQ' = 1 .. Len(verdictQ) - 1
        /\ \A i \in DOMAIN verdictQ' : verdictQ'[i] = verdictQ[i + 1]
        /\ m = verdictQ[1]
    BY <1>1
  <2>2. \A i \in DOMAIN verdictQ' : i + 1 \in DOMAIN verdictQ
    BY <2>1
  <2> HIDE DEF m
  <2> QED
    BY <2>1, <2>2
<1>3. Chosen(m.id, m.verdict)
  BY <1>2 DEF AnswerInv, AnswersTravel
<1>4. DOMAIN waiters' = DOMAIN waiters \ {m.id}
  BY BeginRemoves DEF TakeVerdict
<1>5. IdsIn(verdictQ)' = IdsIn(verdictQ) \ {m.id} /\ m.id \in DOMAIN waiters
  <2>1. NoRepeat(verdictQ) /\ IdsIn(verdictQ) \subseteq DOMAIN waiters
    BY DEF OnceInv, OnePlace, UnderWayIsOutstanding, UnderWay
  <2>2. m.id \in IdsIn(verdictQ) /\ IdsIn(Tail(verdictQ)) = IdsIn(verdictQ) \ {m.id}
    BY <1>1, <2>1, IdsTail
  <2> QED
    BY <1>1, <2>1, <2>2 DEF IdsIn
<1>6. UNCHANGED <<accepted, taken, promptQ, hand, pending, nextPromptId>>
  BY DEF TakeVerdict
<1>7. /\ cur'.packets # <<>> => Chosen(cur'.id, cur'.verdict) /\ cur'.id \notin DOMAIN waiters'
      /\ \A a \in DOMAIN waiters' : a \in DOMAIN waiters /\ waiters'[a].fallback = waiters[a].fallback
  BY <1>3, BeginHolds DEF TakeVerdict
<1> HIDE DEF m
<1>8. nextPromptId \in Nat /\ nextPromptId' >= nextPromptId /\ \A id \in AcceptedIds : id \in Nat
  BY <1>6 DEF IInv, TypeOK, TableTypes, RouterTypes, AcceptedIds
<1>9. TakenIds' = TakenIds /\ (IdsIn(promptQ) \cup InHand \cup pending)' = IdsIn(promptQ) \cup InHand \cup pending
  BY <1>6 DEF TakenIds, IdsIn, InHand
<1>10. AcceptedIds \cap (IdsIn(promptQ) \cup InHand \cup pending)' = {}
  BY <1>9 DEF AnswerInv, AcceptedLeft
<1>11. AcceptedIds \cap (TakenIds \cup IdsIn(verdictQ))
         \subseteq (AcceptedIds \cap (TakenIds \cup IdsIn(verdictQ))') \cup (DOMAIN waiters \ DOMAIN waiters')
  BY <1>4, <1>5, <1>9
<1> QED
  BY <1>2, <1>6, <1>7, <1>8, <1>10, <1>11, AnswersKept

LEMMA AnswersFlush ==
  ASSUME IInv, OnceInv, HoldInv, AnswerInv, FlushWaiter
  PROVE  AnswerInv'
<1>1. PICK id \in DOMAIN waiters : ResolveBegin(id, waiters[id].fallback, wpc)
  BY DEF FlushWaiter
<1>2. taken = {} /\ verdictQ = <<>>
  BY DEF FlushWaiter, OnceInv, Hangup
<1>3. id \notin AcceptedIds
  BY <1>2 DEF AnswerInv, AcceptedLeft, TakenIds, IdsIn
<1>4. Chosen(id, waiters[id].fallback)
  BY <1>3 DEF Chosen, AnswerInv, AnswersTravel
<1>5. /\ cur'.packets # <<>> => Chosen(cur'.id, cur'.verdict) /\ cur'.id \notin DOMAIN waiters'
      /\ \A a \in DOMAIN waiters' : a \in DOMAIN waiters /\ waiters'[a].fallback = waiters[a].fallback
  BY <1>1, <1>4, BeginHolds DEF FlushWaiter
<1> QED
  BY <1>5, AnswersWorker DEF FlushWaiter

LEMMA AnswersResolvePacket ==
  ASSUME IInv, AnswerInv, ResolvePacket
  PROVE  AnswerInv'
<1>1. cur.packets # <<>> /\ waiters' = waiters
  BY DEF ResolvePacket, IInv, WorkerSteps
<1>2. cur'.packets # <<>> => cur'.id = cur.id /\ cur'.verdict = cur.verdict
  BY DEF ResolvePacket, NoResolution, IInv, TypeOK, LocalTypes
<1>3. Chosen(cur.id, cur.verdict) /\ cur.id \notin DOMAIN waiters
  BY <1>1 DEF AnswerInv, AnswersTravel, Forgotten
<1>4. cur'.packets # <<>> => Chosen(cur'.id, cur'.verdict) /\ cur'.id \notin DOMAIN waiters'
  BY <1>1, <1>2, <1>3
<1>5. \A id \in DOMAIN waiters' : id \in DOMAIN waiters /\ waiters'[id].fallback = waiters[id].fallback
  BY <1>1
<1> QED
  BY <1>4, <1>5, AnswersWorker DEF ResolvePacket

LEMMA AnswersRide ==
  ASSUME IInv, HoldInv, AnswerInv, NEW p \in Packets, RidePrompt(p)
  PROVE  AnswerInv'
<1>1. \A id \in DOMAIN waiters' : id \in DOMAIN waiters /\ waiters'[id].fallback = waiters[id].fallback
  <2>1. \A id \in DOMAIN waiters : waiters[id] \in [flow : Flows, packets : Seq(Packets), fallback : Verdicts]
    BY DEF IInv, TypeOK, TableTypes
  <2>2. \E s : waiters' = [waiters EXCEPT ![pendingFlows[FlowOf[p]]].packets = s]
    BY DEF RidePrompt
  <2> QED
    BY <2>1, <2>2
<1>2. cur'.packets = <<>>
  BY DEF RidePrompt, Receive, HoldInv, OnlyResolveHolds
<1> QED
  BY <1>1, <1>2, AnswersWorker DEF RidePrompt, Receive

LEMMA AnswersOpen ==
  ASSUME IInv, HoldInv, AnswerInv, NEW p \in Packets, OpenPrompt(p)
  PROVE  AnswerInv'
<1> DEFINE id == nextPromptId
           m  == [id |-> id, owner |-> OwnerOf[FlowOf[p]]]
<1>1. /\ id \in Nat /\ id \notin DOMAIN waiters /\ nextPromptId' = id + 1
      /\ \A a \in AcceptedIds : a \in Nat
  BY DEF OpenPrompt, IInv, WorkerSteps, TypeOK, TableTypes, RouterTypes, AcceptedIds
<1>2. id \notin AcceptedIds
  BY <1>1 DEF AnswerInv, AcceptedLeft
<1>3. \A a \in DOMAIN waiters' :
        \/ a \in DOMAIN waiters /\ waiters'[a].fallback = waiters[a].fallback
        \/ a \notin AcceptedIds /\ waiters'[a].fallback.source = "Policy"
  <2>1. /\ DOMAIN waiters' = DOMAIN waiters \cup {id}
        /\ \A a \in DOMAIN waiters : waiters'[a] = waiters[a]
        /\ waiters'[id].fallback.source = "Policy"
    BY <1>1 DEF OpenPrompt, FromPolicy
  <2> QED
    BY <1>2, <2>1
<1>4. IdsIn(promptQ)' = IdsIn(promptQ) \cup {id}
  <2>1. promptQ \in Seq(Requests) /\ promptQ' = Append(promptQ, m) /\ m.id = id
    BY DEF OpenPrompt, IInv, TypeOK, ChannelTypes
  <2>2. IdsIn(Append(promptQ, m)) = IdsIn(promptQ) \cup {id}
    BY <2>1, IdsAppend
  <2> QED
    BY <2>1, <2>2 DEF IdsIn
<1>5. UNCHANGED <<accepted, taken, verdictQ, hand, pending, cur>> /\ cur.packets = <<>>
  BY DEF OpenPrompt, Receive, HoldInv, OnlyResolveHolds
<1>6. TakenIds' = TakenIds /\ IdsIn(verdictQ)' = IdsIn(verdictQ) /\ InHand' = InHand
  BY <1>5 DEF TakenIds, IdsIn, InHand
<1>7. AcceptedIds \cap (IdsIn(promptQ) \cup InHand \cup pending)' = {}
  BY <1>2, <1>4, <1>5, <1>6 DEF AnswerInv, AcceptedLeft
<1>8. \A i \in DOMAIN verdictQ' : \E j \in DOMAIN verdictQ : verdictQ'[i] = verdictQ[j]
  BY <1>5
<1> HIDE DEF id
<1>9. nextPromptId' \in Nat /\ nextPromptId \in Nat /\ nextPromptId' >= nextPromptId
  BY <1>1 DEF id
<1> QED
  BY <1>1, <1>3, <1>5, <1>6, <1>7, <1>8, <1>9, AnswersKept

\* Sending a verdict that was chosen.
LEMMA AnswersSent ==
  ASSUME IInv, AnswerInv, NEW id, NEW v, Chosen(id, v),
         SendVerdict(id, v), UNCHANGED <<accepted, cur, waiters, nextPromptId>>,
         taken' \subseteq taken, \A t \in taken \ taken' : t.id = id,
         (IdsIn(promptQ) \cup InHand \cup pending)' \subseteq IdsIn(promptQ) \cup InHand \cup pending
  PROVE  AnswerInv'
<1> DEFINE m == [id |-> id, verdict |-> v]
<1>1. verdictQ \in Seq(Answers) /\ verdictQ' = Append(verdictQ, m) /\ m.id = id /\ m.verdict = v
  BY DEF SendVerdict, IInv, TypeOK, ChannelTypes
<1>2. /\ DOMAIN verdictQ' = DOMAIN verdictQ \cup {Len(verdictQ) + 1}
      /\ verdictQ'[Len(verdictQ) + 1] = m
      /\ \A i \in DOMAIN verdictQ : verdictQ'[i] = verdictQ[i]
  BY <1>1
<1>3. Chosen(m.id, m.verdict)
  BY <1>1
<1> HIDE DEF m
<1>4. \A i \in DOMAIN verdictQ' : \/ \E j \in DOMAIN verdictQ : verdictQ'[i] = verdictQ[j]
                                  \/ Chosen(verdictQ'[i].id, verdictQ'[i].verdict)
  BY <1>2, <1>3
<1>5. IdsIn(verdictQ) \subseteq IdsIn(verdictQ)' /\ id \in IdsIn(verdictQ)'
  <2>1. \A i \in DOMAIN verdictQ : i \in DOMAIN verdictQ' /\ verdictQ'[i].id = verdictQ[i].id
    BY <1>2
  <2>2. verdictQ'[Len(verdictQ) + 1].id = id
    BY <1>1, <1>2
  <2> QED
    BY <1>2, <2>1, <2>2 DEF IdsIn
<1>6. TakenIds \subseteq TakenIds' \cup {id}
  BY DEF TakenIds
<1>7. nextPromptId' \in Nat /\ nextPromptId \in Nat /\ nextPromptId' >= nextPromptId
      /\ \A a \in AcceptedIds : a \in Nat
  BY DEF IInv, TypeOK, TableTypes, RouterTypes, AcceptedIds
<1>8. AcceptedIds \cap (IdsIn(promptQ) \cup InHand \cup pending)' = {}
  BY DEF AnswerInv, AcceptedLeft
<1>9. cur'.packets # <<>> => Chosen(cur'.id, cur'.verdict) /\ cur'.id \notin DOMAIN waiters'
  BY DEF AnswerInv, AnswersTravel, Forgotten
<1> QED
  BY <1>4, <1>5, <1>6, <1>7, <1>8, <1>9, AnswersKept

LEMMA AnswersNoAudience ==
  ASSUME IInv, AnswerInv, RouterNoAudience
  PROVE  AnswerInv'
<1>1. PICK noUi \in PolicyActions : SendVerdict(hand.id, FromPolicy(noUi))
  BY DEF RouterNoAudience
<1>2. InHand = {hand.id} /\ InHand' = {}
  BY DEF RouterNoAudience, InHand, Idle
<1>3. Chosen(hand.id, FromPolicy(noUi))
  BY <1>2 DEF AnswerInv, AcceptedLeft, Chosen, FromPolicy
<1>4. UNCHANGED <<accepted, cur, waiters, nextPromptId, promptQ, pending, taken>>
  BY DEF RouterNoAudience
<1>5. (IdsIn(promptQ) \cup InHand \cup pending)' \subseteq IdsIn(promptQ) \cup InHand \cup pending
  BY <1>2, <1>4 DEF IdsIn
<1> QED
  BY <1>1, <1>2, <1>3, <1>4, <1>5, AnswersSent

LEMMA AnswersReclaim ==
  ASSUME IInv, AnswerInv, RouterReclaim
  PROVE  AnswerInv'
<1>1. /\ UNCHANGED <<accepted, cur, waiters, nextPromptId, promptQ, taken>>
      /\ InHand' = {} /\ pending' \subseteq pending
  BY DEF RouterReclaim, InHand, Idle
<1>2. (IdsIn(promptQ) \cup InHand \cup pending)' \subseteq IdsIn(promptQ) \cup InHand \cup pending
  BY <1>1 DEF IdsIn
<1>3. CASE hand.id \in pending
  <2>1. PICK noUi \in PolicyActions : SendVerdict(hand.id, FromPolicy(noUi))
    BY <1>3 DEF RouterReclaim
  <2>2. Chosen(hand.id, FromPolicy(noUi))
    BY <1>3 DEF FromPolicy, AnswerInv, AcceptedLeft, Chosen
  <2> QED
    BY <1>1, <1>2, <2>1, <2>2, AnswersSent
<1>4. CASE hand.id \notin pending
  BY <1>1, <1>2, <1>4, AnswersQuiet DEF RouterReclaim, IInv, TypeOK, TableTypes
<1> QED
  BY <1>3, <1>4

LEMMA AnswersSweeper ==
  ASSUME IInv, AnswerInv, NEW id \in sweepers, SweeperFires(id)
  PROVE  AnswerInv'
<1>1. /\ UNCHANGED <<accepted, cur, waiters, nextPromptId, promptQ, hand, verdictQ>>
      /\ pending' \subseteq pending
  BY DEF SweeperFires
<1>2. (IdsIn(promptQ) \cup InHand \cup pending)' \subseteq IdsIn(promptQ) \cup InHand \cup pending
  BY <1>1 DEF IdsIn, InHand
<1>3. nextPromptId' \in Nat /\ nextPromptId \in Nat /\ nextPromptId' >= nextPromptId
      /\ \A a \in AcceptedIds : a \in Nat
  BY <1>1 DEF IInv, TypeOK, TableTypes, RouterTypes, AcceptedIds
<1>4. CASE id \notin pending
  BY <1>1, <1>2, <1>3, <1>4, AnswersQuiet DEF SweeperFires
<1>5. CASE id \in pending
  <2>1. id \notin AcceptedIds
    BY <1>5 DEF AnswerInv, AcceptedLeft
  <2>2. taken' = taken \cup {[id |-> id, by |-> "Timeout", action |-> "none"]}
    BY <1>5 DEF SweeperFires
  <2>3. \A t \in taken' : t \in taken \/ (t.by # "User" /\ t.id \notin AcceptedIds)
    BY <2>1, <2>2
  <2>4. AcceptedIds \cap (TakenIds \cup IdsIn(verdictQ)) \subseteq AcceptedIds \cap (TakenIds \cup IdsIn(verdictQ))'
    BY <1>1, <2>2 DEF TakenIds, IdsIn
  <2>5. \A i \in DOMAIN verdictQ' : \E j \in DOMAIN verdictQ : verdictQ'[i] = verdictQ[j]
    BY <1>1
  <2>6. AcceptedIds \cap (IdsIn(promptQ) \cup InHand \cup pending)' = {}
    BY <1>2 DEF AnswerInv, AcceptedLeft
  <2>7. cur'.packets # <<>> => Chosen(cur'.id, cur'.verdict) /\ cur'.id \notin DOMAIN waiters'
    BY <1>1 DEF AnswerInv, AnswersTravel, Forgotten
  <2>8. \A a \in DOMAIN waiters' : a \in DOMAIN waiters /\ waiters'[a].fallback = waiters[a].fallback
    BY <1>1
  <2> QED
    BY <1>1, <1>3, <2>3, <2>4, <2>5, <2>6, <2>7, <2>8, AnswersKept
<1> QED
  BY <1>4, <1>5

LEMMA AnswersSending ==
  ASSUME IInv, AnswerInv, NEW t \in taken, SendTaken(t)
  PROVE  AnswerInv'
<1>1. PICK v : SendVerdict(t.id, v) /\ Chosen(t.id, v)
  <2>1. CASE t.by = "User"
    <3>1. IsAccepted(t.id, t.action)
      BY <2>1 DEF AnswerInv, AnswersTravel
    <3>2. Chosen(t.id, [action |-> t.action, source |-> "User"])
      BY <3>1 DEF Chosen
    <3> QED
      BY <2>1, <3>2 DEF SendTaken
  <2>2. CASE t.by # "User"
    <3>1. t.id \notin AcceptedIds
      BY <2>2 DEF AnswerInv, AnswersTravel
    <3>2. \A a : Chosen(t.id, FromPolicy(a))
      BY <3>1 DEF Chosen, FromPolicy
    <3> QED
      BY <2>2, <3>2 DEF SendTaken
  <2> QED
    BY <2>1, <2>2
<1>2. UNCHANGED <<accepted, cur, waiters, nextPromptId, promptQ, hand, pending>> /\ taken' = taken \ {t}
  BY DEF SendTaken
<1>3. (IdsIn(promptQ) \cup InHand \cup pending)' \subseteq IdsIn(promptQ) \cup InHand \cup pending
  BY <1>2 DEF IdsIn, InHand
<1>4. taken' \subseteq taken /\ \A u \in taken \ taken' : u.id = t.id
  BY <1>2
<1> QED
  BY <1>1, <1>2, <1>3, <1>4, AnswersSent

\* The answer that lands: no verdict of the policy's is on its way for the same
\* prompt, because what is pending is nowhere else.
LEMMA AnswersSubmit ==
  ASSUME IInv, OnceInv, AnswerInv, NEW id, NEW uid, NEW action, Submit(id, uid, action)
  PROVE  AnswerInv'
<1> DEFINE t == [id |-> id, by |-> "User", action |-> action]
           a == <<id, uid, action>>
<1>1. /\ id \in pending /\ pending' = pending \ {id}
      /\ taken' = taken \cup {t} /\ accepted' = accepted \cup {a}
      /\ UNCHANGED <<cur, waiters, nextPromptId, promptQ, hand, verdictQ>>
  BY DEF Submit
<1>2. /\ id \notin IdsIn(promptQ) /\ id \notin InHand /\ id \notin TakenIds /\ id \notin IdsIn(verdictQ)
      /\ id \in DOMAIN waiters
  BY <1>1 DEF OnceInv, OnePlace, UnderWayIsOutstanding, UnderWay
<1>3. /\ t.id = id /\ t.by = "User" /\ t.action = action
      /\ a[1] = id /\ a[3] = action
  OBVIOUS
<1> HIDE DEF t, a
<1>4. AcceptedIds' = AcceptedIds \cup {id}
  BY <1>1, <1>3 DEF AcceptedIds
<1>5. \A i, v : IsAccepted(i, v) => IsAccepted(i, v)'
  BY <1>1 DEF IsAccepted
<1>6. IsAccepted(id, action)'
  BY <1>1, <1>3 DEF IsAccepted
<1>7. \A u \in taken' : IF u.by = "User" THEN IsAccepted(u.id, u.action)' ELSE u.id \notin AcceptedIds'
  <2> SUFFICES ASSUME NEW u \in taken \cup {t}
               PROVE  IF u.by = "User" THEN IsAccepted(u.id, u.action)' ELSE u.id \notin AcceptedIds'
    BY <1>1
  <2>1. CASE u = t
    BY <2>1, <1>3, <1>6
  <2>2. CASE u \in taken
    <3>1. u.id # id
      BY <2>2, <1>2 DEF TakenIds
    <3>2. IF u.by = "User" THEN IsAccepted(u.id, u.action) ELSE u.id \notin AcceptedIds
      BY <2>2 DEF AnswerInv, AnswersTravel
    <3> QED
      BY <3>1, <3>2, <1>4, <1>5
  <2> QED
    BY <2>1, <2>2
<1>8. ASSUME NEW i, i # id, NEW v, Chosen(i, v)
      PROVE  Chosen(i, v)'
  BY <1>4, <1>5, <1>8 DEF Chosen
<1>9. \A i \in DOMAIN verdictQ' : Chosen(verdictQ[i].id, verdictQ[i].verdict)'
  <2> SUFFICES ASSUME NEW i \in DOMAIN verdictQ
               PROVE  Chosen(verdictQ[i].id, verdictQ[i].verdict)'
    BY <1>1
  <2>1. verdictQ[i].id # id /\ Chosen(verdictQ[i].id, verdictQ[i].verdict)
    BY <1>2 DEF IdsIn, AnswerInv, AnswersTravel
  <2>2. verdictQ'[i].id = verdictQ[i].id /\ verdictQ'[i].verdict = verdictQ[i].verdict
    BY <1>1
  <2> QED
    BY <2>1, <2>2, <1>8 DEF Chosen, IsAccepted, AcceptedIds
<1>10. cur'.packets # <<>> => Chosen(cur.id, cur.verdict)'
  <2> SUFFICES ASSUME cur.packets # <<>>
               PROVE  Chosen(cur.id, cur.verdict)'
    BY <1>1
  <2>1. cur.id # id /\ Chosen(cur.id, cur.verdict)
    BY <1>2 DEF AnswerInv, AnswersTravel, Forgotten
  <2>2. cur' = cur
    BY <1>1
  <2>3. CASE cur.verdict.source = "User" /\ IsAccepted(cur.id, cur.verdict.action)
    BY <2>2, <2>3, <1>1 DEF Chosen, IsAccepted
  <2>4. CASE cur.verdict.source = "Policy" /\ cur.id \notin AcceptedIds
    BY <2>1, <2>2, <2>4, <1>4 DEF Chosen
  <2> QED
    BY <2>1, <2>3, <2>4 DEF Chosen
<1>11. AnswersTravel'
  <2>1. \A i \in DOMAIN waiters' : waiters'[i].fallback.source = "Policy"
    BY <1>1 DEF AnswerInv, AnswersTravel
  <2> QED
    BY <1>7, <1>9, <1>10, <2>1 DEF AnswersTravel, Chosen, IsAccepted, AcceptedIds
<1>12. AcceptedLeft'
  <2>1. TakenIds' = TakenIds \cup {id} /\ IdsIn(verdictQ)' = IdsIn(verdictQ)
        /\ IdsIn(promptQ)' = IdsIn(promptQ) /\ InHand' = InHand
    BY <1>1, <1>3 DEF TakenIds, IdsIn, InHand
  <2>2. id < nextPromptId
    BY <1>2 DEF IInv, WorkerSteps
  <2> QED
    BY <1>1, <1>2, <1>4, <2>1, <2>2 DEF AcceptedLeft, AnswerInv
<1>13. Forgotten'
  BY <1>1 DEF Forgotten, AnswerInv
<1> QED
  BY <1>11, <1>12, <1>13 DEF AnswerInv

\* The actions that move no answer.
MovesNoAnswer ==
  \/ WorkerTop \/ DrainEmpty \/ CloseVerdictChannel \/ FlushDone \/ RecvNothing \/ WorkerFails
  \/ \E p \in Packets : HandleSettled(p) \/ RideOverflow(p) \/ BacklogFull(p) \/ RouterUnavailable(p)
  \/ RouterRecv \/ RouterInsert \/ RouterBroadcast
  \/ Environment \/ UNCHANGED vars

LEMMA AnswersElsewhere ==
  ASSUME IInv, OnceInv, AnswerInv, MovesNoAnswer
  PROVE  AnswerInv'
<1>1. UNCHANGED <<accepted, verdictQ, cur, waiters, taken>>
  BY DEF MovesNoAnswer, vars, WorkerTop, DrainEmpty, CloseVerdictChannel, FlushDone, RecvNothing,
     WorkerFails, VerdictFails, RecvError, HandleSettled, RideOverflow, BacklogFull, RouterUnavailable,
     Receive, RouterRecv, RouterInsert, RouterBroadcast, Environment, StreamOpens, StreamSubscribes,
     StreamCloses, RulesChange, RequestStop, RuntimeShutdown
<1>2. nextPromptId' \in Nat /\ nextPromptId' >= nextPromptId
  <2>1. nextPromptId' = nextPromptId \/ nextPromptId' = nextPromptId + 1
    BY DEF MovesNoAnswer, vars, WorkerTop, DrainEmpty, CloseVerdictChannel, FlushDone, RecvNothing,
       WorkerFails, VerdictFails, RecvError, HandleSettled, RideOverflow, BacklogFull, RouterUnavailable,
       RouterRecv, RouterInsert, RouterBroadcast, Environment, StreamOpens, StreamSubscribes,
       StreamCloses, RulesChange, RequestStop, RuntimeShutdown
  <2> QED
    BY <2>1 DEF IInv, TypeOK, TableTypes
<1>3. (IdsIn(promptQ) \cup InHand \cup pending)' \subseteq IdsIn(promptQ) \cup InHand \cup pending
  <2>1. CASE RouterRecv
    <3> DEFINE id == Head(promptQ).id
    <3>1. promptQ \in Seq(Requests) /\ promptQ # <<>> /\ promptQ' = Tail(promptQ) /\ NoRepeat(promptQ)
      BY <2>1 DEF RouterRecv, IInv, TypeOK, ChannelTypes, OnceInv, OnePlace
    <3>2. id \in IdsIn(promptQ) /\ IdsIn(Tail(promptQ)) = IdsIn(promptQ) \ {id}
      BY <3>1, IdsTail
    <3>3. InHand' = {id} /\ pending' = pending
      BY <2>1 DEF RouterRecv, InHand
    <3>4. IdsIn(promptQ)' = IdsIn(promptQ) \ {id}
      BY <3>1, <3>2 DEF IdsIn
    <3> HIDE DEF id
    <3> QED
      BY <3>2, <3>3, <3>4
  <2>2. CASE RouterInsert
    <3>1. InHand = {hand.id} /\ pending' = pending \cup {hand.id} /\ promptQ' = promptQ
      BY <2>2 DEF RouterInsert, InHand
    <3>2. InHand' = {}
      BY <2>2 DEF RouterInsert, InHand, IInv, TypeOK, RouterTypes, Idle
    <3> QED
      BY <3>1, <3>2 DEF IdsIn
  <2>3. CASE RouterBroadcast \/ RuntimeShutdown
    <3>1. InHand' = {} /\ pending' \subseteq pending /\ (promptQ' = promptQ \/ promptQ' = <<>>)
      BY <2>3 DEF RouterBroadcast, RuntimeShutdown, InHand, Idle
    <3> QED
      BY <3>1 DEF IdsIn
  <2>4. CASE UNCHANGED <<promptQ, hand, pending>>
    BY <2>4 DEF IdsIn, InHand
  <2> QED
    BY <2>1, <2>2, <2>3, <2>4
       DEF MovesNoAnswer, vars, WorkerTop, DrainEmpty, CloseVerdictChannel, FlushDone, RecvNothing,
       WorkerFails, VerdictFails, RecvError, HandleSettled, RideOverflow, BacklogFull, RouterUnavailable,
       Receive, Environment, StreamOpens, StreamSubscribes, StreamCloses, RulesChange, RequestStop
<1> QED
  BY <1>1, <1>2, <1>3, AnswersQuiet

LEMMA AnswerStep == IInv /\ OnceInv /\ HoldInv /\ AnswerInv /\ [Next]_vars => AnswerInv'
<1> SUFFICES ASSUME IInv, OnceInv, HoldInv, AnswerInv, [Next]_vars PROVE AnswerInv'
  OBVIOUS
<1>1. CASE TakeVerdict \/ FlushWaiter \/ ResolvePacket
  BY <1>1, AnswersTakeVerdict, AnswersFlush, AnswersResolvePacket
<1>2. ASSUME NEW p \in Packets, RidePrompt(p) \/ OpenPrompt(p)
      PROVE  AnswerInv'
  BY <1>2, AnswersRide, AnswersOpen
<1>3. CASE RouterNoAudience \/ RouterReclaim
  BY <1>3, AnswersNoAudience, AnswersReclaim
<1>4. CASE Sweeper \/ Sending \/ Client
  BY <1>4, AnswersSweeper, AnswersSending, AnswersSubmit DEF Sweeper, Sending, Client
<1>5. CASE MovesNoAnswer
  BY <1>5, AnswersElsewhere
<1> QED
  BY <1>1, <1>2, <1>3, <1>4, <1>5 DEF Next, WorkerRuns, Router, MovesNoAnswer

LEMMA AnswerInit == Init => AnswerInv
<1> SUFFICES ASSUME Init PROVE AnswerInv
  OBVIOUS
<1>1. /\ taken = {} /\ DOMAIN verdictQ = {} /\ cur.packets = <<>> /\ DOMAIN waiters = {} /\ accepted = {}
  BY DEF Init, NoResolution
<1>2. AcceptedIds = {}
  BY <1>1 DEF AcceptedIds
<1> QED
  BY <1>1, <1>2 DEF AnswerInv, AnswersTravel, AcceptedLeft, Forgotten

LEMMA RInvInit == Init => RInv
BY InvInit, OnceInit, HoldInit, AnswerInit DEF RInv

LEMMA RInvStep == RInv /\ [Next]_vars => RInv'
BY InvStep, OnceStep, HoldStep, AnswerStep DEF RInv

\* The invariant the refinement needs: besides the three above, an accepted
\* answer has left the router's hands and is on its way to its prompt's packets,
\* and no verdict of the policy's is on its way for a prompt someone answered.
THEOREM RInvHolds == Spec => []RInv
BY RInvInit, RInvStep, PTL DEF Spec

-----------------------------------------------------------------------------
(* PromptFlow implements AskUser *)

\* What a packet is held under: the one prompt that holds it, then the prompt
\* whose resolution answered it, and 0 before it was read.
UnderRight ==
  \A p \in Packets :
    /\ \A id \in Holding(p) : id # 0 /\ verdict[p] = NoVerdict /\ HeldUnder(p) = id
    /\ p \in arrived /\ verdict[p] = NoVerdict => Holding(p) # {}
    /\ verdict[p] # NoVerdict => HeldUnder(p) = resolvedBy[p]
    /\ p \notin arrived => verdict[p] = NoVerdict /\ HeldUnder(p) = 0

LEMMA HoldingOne ==
  ASSUME IInv, HoldInv, NEW p \in Packets, NEW id \in Holding(p)
  PROVE  Holding(p) = {id} /\ id # 0
<1>1. CASE InList(p, cur.packets)
  <2>1. ~InWaiters(p)
    BY <1>1 DEF HoldInv, HeldOnce
  <2>2. Holding(p) = {cur.id}
    BY <1>1, <2>1 DEF Holding, InWaiters
  <2>3. cur.packets # <<>>
    BY <1>1 DEF InList
  <2> QED
    BY <2>2, <2>3 DEF HoldInv, OnlyResolveHolds
<1>2. CASE ~InList(p, cur.packets)
  <2>1. Holding(p) = {a \in DOMAIN waiters : InList(p, waiters[a].packets)}
    BY <1>2 DEF Holding
  <2>2. \A a, b \in Holding(p) : a = b
    BY <2>1 DEF InList, HoldInv, HeldOnce
  <2>3. id # 0
    BY <2>1 DEF IInv, TypeOK, TableTypes
  <2> QED
    BY <2>2, <2>3
<1> QED
  BY <1>1, <1>2

LEMMA UnderIsRight == IInv /\ HoldInv => UnderRight
<1> SUFFICES ASSUME IInv, HoldInv, NEW p \in Packets
             PROVE  /\ \A id \in Holding(p) : id # 0 /\ verdict[p] = NoVerdict /\ HeldUnder(p) = id
                    /\ p \in arrived /\ verdict[p] = NoVerdict => Holding(p) # {}
                    /\ verdict[p] # NoVerdict => HeldUnder(p) = resolvedBy[p]
                    /\ p \notin arrived => verdict[p] = NoVerdict /\ HeldUnder(p) = 0
  BY DEF UnderRight
<1>1. Holding(p) # {} <=> p \in arrived /\ verdict[p] = NoVerdict
  BY DEF Holding, HoldInv, HeldAreOpen, InWaiters
<1>2. ASSUME NEW id \in Holding(p)
      PROVE  id # 0 /\ verdict[p] = NoVerdict /\ HeldUnder(p) = id
  <2>1. Holding(p) = {id} /\ id # 0 /\ verdict[p] = NoVerdict
    BY <1>1, HoldingOne
  <2>2. (CHOOSE x \in {id} : TRUE) = id
    OBVIOUS
  <2> QED
    BY <2>1, <2>2 DEF HeldUnder, Holding
<1>3. p \notin arrived => verdict[p] = NoVerdict /\ HeldUnder(p) = 0
  BY <1>1 DEF HoldInv, HeldAreOpen, HeldUnder, Holding
<1>4. verdict[p] # NoVerdict => HeldUnder(p) = resolvedBy[p]
  BY DEF HeldUnder, Holding
<1> QED
  BY <1>1, <1>2, <1>3, <1>4

LEMMA UnderKept ==
  ASSUME UnderRight, UnderRight', NEW q \in Packets,
         verdict'[q] = verdict[q], resolvedBy'[q] = resolvedBy[q], q \in arrived' <=> q \in arrived,
         \A id : id \in Holding(q) => id \in Holding(q)'
  PROVE  HeldUnder(q)' = HeldUnder(q)
<1>1. CASE verdict[q] # NoVerdict
  BY <1>1 DEF UnderRight
<1>2. CASE q \notin arrived
  BY <1>2 DEF UnderRight
<1>3. CASE q \in arrived /\ verdict[q] = NoVerdict
  <2>1. PICK id : id \in Holding(q)
    BY <1>3 DEF UnderRight
  <2>2. HeldUnder(q) = id
    BY <2>1 DEF UnderRight
  <2>3. id \in Holding(q)'
    BY <2>1
  <2>4. HeldUnder(q)' = id
    BY <2>3 DEF UnderRight
  <2> QED
    BY <2>2, <2>4
<1> QED
  BY <1>1, <1>2, <1>3

\* AskUser's words for PromptFlow's state.
LEMMA AskWords ==
  ASSUME UnderRight, NEW p \in Packets
  PROVE  /\ Ask!Held(p) <=> p \in arrived /\ verdict[p] = NoVerdict
         /\ Ask!Fresh(p) <=> p \notin arrived
<1>1. Ask!Held(p) <=> verdict[p] = NoVerdict /\ HeldUnder(p) # 0
  BY DEF Ask!Held, Ask!NoVerdict, NoVerdict
<1>2. Ask!Fresh(p) <=> verdict[p] = NoVerdict /\ HeldUnder(p) = 0
  BY DEF Ask!Fresh, Ask!NoVerdict, NoVerdict
<1>3. CASE p \in arrived /\ verdict[p] = NoVerdict
  <2>1. HeldUnder(p) # 0
    BY <1>3 DEF UnderRight
  <2> QED
    BY <1>1, <1>2, <1>3, <2>1
<1>4. CASE p \notin arrived
  BY <1>1, <1>2, <1>4 DEF UnderRight
<1>5. CASE verdict[p] # NoVerdict
  <2>1. p \in arrived
    BY <1>5 DEF UnderRight
  <2> QED
    BY <1>1, <1>2, <1>5, <2>1
<1> QED
  BY <1>3, <1>4, <1>5

LEMMA AskRules ==
  /\ \A d : Ask!ByRule(d) = FromDecision(d)
  /\ Ask!Refusing = Refusals
  /\ Ask!Undecided = {"Ask", "AskUndecided"}
BY DEF Ask!ByRule, FromDecision, Ask!Refusing, Refusals, Ask!Undecided

\* The answers to a question are those accepted for the prompt.
LEMMA AskAnswers ==
  ASSUME NEW id
  PROVE  /\ id \notin AcceptedIds => Ask!TakenFor(id) = {}
         /\ \A action : IsAccepted(id, action) => action \in Ask!TakenFor(id)
<1>1. Ask!TakenFor(id) = {b[2] : b \in {c \in {<<a[1], a[3]>> : a \in accepted} : c[1] = id}}
  BY DEF Ask!TakenFor
<1>2. id \notin AcceptedIds => Ask!TakenFor(id) = {}
  BY <1>1 DEF AcceptedIds
<1>3. ASSUME NEW action, IsAccepted(id, action)
      PROVE  action \in Ask!TakenFor(id)
  <2>1. PICK a \in accepted : a[1] = id /\ a[3] = action
    BY <1>3 DEF IsAccepted
  <2>2. <<a[1], a[3]>> \in {c \in {<<b[1], b[3]>> : b \in accepted} : c[1] = id}
    BY <2>1
  <2>3. <<a[1], a[3]>>[2] = action
    BY <2>1
  <2> QED
    BY <1>1, <2>2, <2>3
<1> QED
  BY <1>2, <1>3

\* The question each packet is held under, as AskUser has it.
Unders == [p \in Packets |-> HeldUnder(p)]
Taken  == {<<a[1], a[3]>> : a \in accepted}

LEMMA SameUnders ==
  ASSUME \A q \in Packets : HeldUnder(q)' = HeldUnder(q)
  PROVE  Unders' = Unders
BY DEF Unders

LEMMA AskStutters ==
  ASSUME UNCHANGED <<verdict, accepted, peek>>, \A q \in Packets : HeldUnder(q)' = HeldUnder(q)
  PROVE  UNCHANGED Ask!askVars
<1>1. Unders' = Unders
  BY SameUnders
<1> QED
  BY <1>1 DEF Ask!askVars, Unders

\* A packet that is settled as it is received: Settle.
LEMMA AskSettles ==
  ASSUME IInv, UnderRight, UnderRight', NEW p \in Packets, Receive(p), NEW v \in Verdicts,
         Deliver(p, v, 0), waiters' = waiters, UNCHANGED <<accepted, peek>>,
         \/ v.source = "Silent"
         \/ v = FromDecision(peek[FlowOf[p]]) /\ peek[FlowOf[p]] \notin {"Ask", "AskUndecided"}
         \/ v.source = "Policy" /\ peek[FlowOf[p]] \in {"Ask", "AskUndecided"}
  PROVE  Ask!AskNext
<1>1. /\ p \notin arrived /\ arrived' = arrived \cup {p} /\ cur' = cur
      /\ verdict' = [verdict EXCEPT ![p] = v] /\ resolvedBy' = [resolvedBy EXCEPT ![p] = 0]
  BY DEF Receive, Deliver
<1>2. /\ verdict \in [Packets -> Verdicts \cup {NoVerdict}] /\ resolvedBy \in [Packets -> Nat]
      /\ v # NoVerdict
  BY DEF IInv, TypeOK, KernelTypes, NoVerdict, Verdicts, Sources
<1>3. verdict'[p] = v /\ verdict[p] = NoVerdict
  BY <1>1, <1>2 DEF UnderRight
<1>4. ASSUME NEW q \in Packets PROVE HeldUnder(q)' = HeldUnder(q)
  <2>1. CASE q = p
    <3>1. HeldUnder(p) = 0
      BY <1>1 DEF UnderRight
    <3>2. verdict'[p] # NoVerdict /\ resolvedBy'[p] = 0
      BY <1>1, <1>2, <1>3
    <3>3. HeldUnder(p)' = 0
      BY <3>2 DEF UnderRight
    <3> QED
      BY <2>1, <3>1, <3>3
  <2>2. CASE q # p
    <3>1. verdict'[q] = verdict[q] /\ resolvedBy'[q] = resolvedBy[q] /\ (q \in arrived' <=> q \in arrived)
      BY <2>2, <1>1, <1>2
    <3>2. \A id : id \in Holding(q) => id \in Holding(q)'
      BY <1>1 DEF Holding, InList
    <3> QED
      BY <3>1, <3>2, UnderKept
  <2> QED
    BY <2>1, <2>2
<1>5. Unders' = Unders
  BY <1>4, SameUnders
<1>6. Ask!Fresh(p)
  BY <1>1, AskWords
<1>7. Ask!Settle(p, verdict'[p])
  BY <1>1, <1>3, <1>5, <1>6, AskRules DEF Ask!Settle, Unders
<1> QED
  BY <1>2, <1>3, <1>7 DEF Ask!AskNext

\* The rules leave open a packet handle_packet prompts for.
LEMMA PromptsAreOpen ==
  ASSUME NEW p \in Packets, Prompts(p)
  PROVE  peek[FlowOf[p]] \in {"Ask", "AskUndecided"}
BY DEF Prompts, HandlePacket, Silent, FromDecision, InboundDefault, FromPolicy, NoVerdict, Classes

LEMMA AskHandleSettled ==
  ASSUME IInv, UnderRight, UnderRight', NEW p \in Packets, HandleSettled(p)
  PROVE  Ask!AskNext
<1>1. PICK class \in Classes, paused \in BOOLEAN, noUi \in PolicyActions :
        LET v == HandlePacket(class, peek[FlowOf[p]], paused, noUi)
        IN  v # NoVerdict /\ Deliver(p, v, 0)
  BY DEF HandleSettled
<1> DEFINE d == peek[FlowOf[p]]
           v == HandlePacket(class, d, paused, noUi)
<1>2. v \in Verdicts
  <2>1. d \in AllDecisions
    BY PromptFlowAssumption DEF IInv, TypeOK, EnvTypes
  <2> QED
    BY <1>1, <2>1, HandledIsVerdict
<1>3. \/ v.source = "Silent"
      \/ v = FromDecision(d) /\ d \notin {"Ask", "AskUndecided"}
      \/ v.source = "Policy" /\ d \in {"Ask", "AskUndecided"}
  BY <1>1 DEF HandlePacket, Silent, InboundDefault, FromPolicy
<1>4. Receive(p) /\ waiters' = waiters /\ UNCHANGED <<accepted, peek>>
  BY DEF HandleSettled, Receive
<1>5. Deliver(p, v, 0)
  BY <1>1
<1> HIDE DEF v
<1> QED
  BY <1>2, <1>3, <1>4, <1>5, AskSettles

LEMMA AskFallback ==
  ASSUME IInv, UnderRight, UnderRight', NEW p \in Packets, Receive(p), Prompts(p),
         DeliverFallback(p), waiters' = waiters
  PROVE  Ask!AskNext
<1>1. PICK noUi \in PolicyActions : Deliver(p, FromPolicy(noUi), 0)
  BY DEF DeliverFallback
<1>2. FromPolicy(noUi) \in Verdicts /\ FromPolicy(noUi).source = "Policy"
  BY PolicyIsVerdict DEF FromPolicy
<1>3. UNCHANGED <<accepted, peek>> /\ peek[FlowOf[p]] \in {"Ask", "AskUndecided"}
  BY PromptsAreOpen DEF Receive
<1> QED
  BY <1>1, <1>2, <1>3, AskSettles

\* A packet that is parked as it is received, under its flow's only prompt: Hold.
LEMMA AskParks ==
  ASSUME IInv, HoldInv, UnderRight, UnderRight', NEW p \in Packets, Receive(p), Prompts(p),
         UNCHANGED <<verdict, resolvedBy>>, NEW id \in Holding(p)',
         \A q \in Packets : \A a : a \in Holding(q) => a \in Holding(q)',
         \A q \in Packets, a \in DOMAIN waiters :
           InList(q, waiters[a].packets) => (FlowOf[q] = FlowOf[p] <=> a = id)
  PROVE  Ask!AskNext
<1>1. /\ p \notin arrived /\ arrived' = arrived \cup {p} /\ wpc = "recv"
      /\ UNCHANGED <<accepted, peek>> /\ cur.packets = <<>>
  BY DEF Receive, HoldInv, OnlyResolveHolds
<1>2. HeldUnder(p) = 0 /\ HeldUnder(p)' = id /\ id # 0
  BY <1>1 DEF UnderRight
<1>3. ASSUME NEW q \in Packets, q # p PROVE HeldUnder(q)' = HeldUnder(q)
  <2>1. q \in arrived' <=> q \in arrived
    BY <1>1, <1>3
  <2> QED
    BY <2>1, UnderKept
<1>4. Unders' = [Unders EXCEPT ![p] = id]
  BY <1>2, <1>3 DEF Unders
<1>5. \A q \in Packets : Ask!Held(q) => (FlowOf[q] = FlowOf[p] <=> Unders[q] = id)
  <2> SUFFICES ASSUME NEW q \in Packets, Ask!Held(q)
               PROVE  FlowOf[q] = FlowOf[p] <=> HeldUnder(q) = id
    BY DEF Unders
  <2>1. q \in arrived /\ verdict[q] = NoVerdict
    BY AskWords
  <2>2. PICK a : a \in Holding(q)
    BY <2>1 DEF UnderRight
  <2>3. HeldUnder(q) = a
    BY <2>2 DEF UnderRight
  <2>4. a \in DOMAIN waiters /\ InList(q, waiters[a].packets)
    BY <1>1, <2>2 DEF Holding, InList
  <2> QED
    BY <2>3, <2>4
<1>6. Ask!Fresh(p) /\ peek[FlowOf[p]] \in Ask!Undecided
  BY <1>1, AskWords, AskRules, PromptsAreOpen
<1>7. Ask!Hold(p, id)
  BY <1>1, <1>2, <1>4, <1>5, <1>6 DEF Ask!Hold, Unders
<1>8. Unders'[p] = id /\ Unders[p] = 0
  BY <1>2, <1>4 DEF Unders
<1> QED
  BY <1>2, <1>7, <1>8 DEF Ask!AskNext, Unders

LEMMA AskRide ==
  ASSUME IInv, HoldInv, UnderRight, UnderRight', NEW p \in Packets, RidePrompt(p)
  PROVE  Ask!AskNext
<1> DEFINE id == pendingFlows[FlowOf[p]]
           s  == waiters[id].packets
<1>1. id \in DOMAIN waiters /\ FlowOf[p] \in DOMAIN pendingFlows /\ s \in Seq(Packets)
  BY DEF RidePrompt, RidesOn, IInv, TypeOK, TableTypes
<1>2. /\ DOMAIN waiters' = DOMAIN waiters
      /\ \A a \in DOMAIN waiters : a # id => waiters'[a] = waiters[a]
      /\ waiters'[id].packets = Append(s, p)
  <2>1. waiters' = [waiters EXCEPT ![id].packets = Append(s, p)]
    BY DEF RidePrompt
  <2>2. waiters[id] \in [flow : Flows, packets : Seq(Packets), fallback : Verdicts]
    BY <1>1 DEF IInv, TypeOK, TableTypes
  <2>3. /\ DOMAIN waiters' = DOMAIN waiters
        /\ \A a \in DOMAIN waiters : a # id => waiters'[a] = waiters[a]
        /\ waiters'[id] = [waiters[id] EXCEPT !.packets = Append(s, p)]
    BY <1>1, <2>1
  <2> QED
    BY <2>2, <2>3
<1>3. \A q, a : InList(q, waiters[a].packets) /\ a \in DOMAIN waiters => InList(q, waiters'[a].packets)
  <2>1. \A q : InList(q, Append(s, p)) <=> InList(q, s) \/ q = p
    BY <1>1, ListAppend
  <2> HIDE DEF id
  <2> QED
    BY <1>2, <2>1
<1>4. InList(p, waiters'[id].packets)
  BY <1>1, <1>2, ListAppend
<1>5. \A q \in Packets, a \in DOMAIN waiters :
        InList(q, waiters[a].packets) => (FlowOf[q] = FlowOf[p] <=> a = id)
  <2> SUFFICES ASSUME NEW q \in Packets, NEW a \in DOMAIN waiters, InList(q, waiters[a].packets)
               PROVE  FlowOf[q] = FlowOf[p] <=> a = id
    OBVIOUS
  <2>1. FlowOf[q] = waiters[a].flow
    <3>1. DOMAIN waiters[a].packets = 1 .. Len(waiters[a].packets)
      BY DEF IInv, TypeOK, TableTypes
    <3> QED
      BY <3>1 DEF InList, IInv, WaitersMatchFlows
  <2>2. pendingFlows[waiters[a].flow] = a /\ waiters[id].flow = FlowOf[p]
    BY <1>1 DEF IInv, WaitersMatchFlows
  <2> QED
    BY <2>1, <2>2
<1>6. Receive(p) /\ Prompts(p) /\ cur' = cur /\ UNCHANGED <<verdict, resolvedBy>>
  BY DEF RidePrompt, Receive
<1> HIDE DEF id
<1>7. id \in Holding(p)'
  BY <1>1, <1>2, <1>4 DEF Holding, InList
<1>8. \A q \in Packets : \A a : a \in Holding(q) => a \in Holding(q)'
  BY <1>2, <1>3, <1>6 DEF Holding, InList
<1> QED
  BY <1>5, <1>6, <1>7, <1>8, AskParks

LEMMA AskOpen ==
  ASSUME IInv, HoldInv, UnderRight, UnderRight', NEW p \in Packets, OpenPrompt(p)
  PROVE  Ask!AskNext
<1> DEFINE id == nextPromptId
<1>1. id \notin DOMAIN waiters
  BY DEF IInv, WorkerSteps, TypeOK, TableTypes
<1>2. /\ DOMAIN waiters' = DOMAIN waiters \cup {id}
      /\ \A a \in DOMAIN waiters : waiters'[a] = waiters[a]
      /\ waiters'[id].packets = <<p>>
  BY <1>1 DEF OpenPrompt
<1>3. Receive(p) /\ Prompts(p) /\ cur' = cur /\ UNCHANGED <<verdict, resolvedBy>> /\ ~RidesOn(p)
  BY DEF OpenPrompt, Receive
<1>4. \A q \in Packets, a \in DOMAIN waiters :
        InList(q, waiters[a].packets) => (FlowOf[q] = FlowOf[p] <=> a = id)
  <2> SUFFICES ASSUME NEW q \in Packets, NEW a \in DOMAIN waiters, InList(q, waiters[a].packets),
                      FlowOf[q] = FlowOf[p]
               PROVE  FALSE
    BY <1>1
  <2>1. DOMAIN waiters[a].packets = 1 .. Len(waiters[a].packets)
    BY DEF IInv, TypeOK, TableTypes
  <2>2. FlowOf[q] = waiters[a].flow
    BY <2>1 DEF InList, IInv, WaitersMatchFlows
  <2>3. FlowOf[p] \in DOMAIN pendingFlows /\ pendingFlows[FlowOf[p]] \in DOMAIN waiters
    BY <2>2 DEF IInv, WaitersMatchFlows
  <2> QED
    BY <1>3, <2>3 DEF RidesOn
<1> HIDE DEF id
<1>5. InList(p, waiters'[id].packets)
  BY <1>2 DEF InList
<1>6. id \in Holding(p)'
  BY <1>2, <1>5 DEF Holding, InList
<1>7. \A q \in Packets : \A a : a \in Holding(q) => a \in Holding(q)'
  BY <1>2, <1>3 DEF Holding, InList
<1> QED
  BY <1>3, <1>4, <1>6, <1>7, AskParks

\* Taking a prompt up moves its packets: nothing AskUser sees.
LEMMA AskBegins ==
  ASSUME HoldInv, UnderRight, UnderRight', wpc \notin {"resolve", "exited"},
         NEW id, NEW v, NEW back, ResolveBegin(id, v, back),
         UNCHANGED <<kernel, accepted, peek>>
  PROVE  UNCHANGED Ask!askVars
<1>1. cur.packets = <<>>
  BY DEF HoldInv, OnlyResolveHolds
<1>2. ASSUME NEW q \in Packets PROVE \A a : a \in Holding(q) => a \in Holding(q)'
  <2>1. CASE id \in DOMAIN waiters
    <3>1. /\ DOMAIN waiters' = DOMAIN waiters \ {id}
          /\ \A a \in DOMAIN waiters' : waiters'[a] = waiters[a]
          /\ cur'.packets = waiters[id].packets /\ cur'.id = id
      BY <2>1 DEF ResolveBegin, Restrict
    <3>2. \A a : a \in Holding(q) => a \in DOMAIN waiters /\ InList(q, waiters[a].packets)
      BY <1>1 DEF Holding, InList
    <3> QED
      BY <3>1, <3>2 DEF Holding, InList
  <2>2. CASE id \notin DOMAIN waiters
    BY <2>2 DEF ResolveBegin, Holding, InList
  <2> QED
    BY <2>1, <2>2
<1>3. \A q \in Packets : HeldUnder(q)' = HeldUnder(q)
  BY <1>2, UnderKept
<1> QED
  BY <1>3, AskStutters

\* A parked packet gets its verdict: LetGo, with a current refusal, the answer
\* that was accepted, or a rule's or the policy's verdict when nobody answered.
LEMMA AskResolves ==
  ASSUME IInv, HoldInv, AnswerInv, UnderRight, UnderRight', ResolvePacket
  PROVE  Ask!AskNext
<1>0a. cur.packets \in Seq(Packets) /\ cur.packets # <<>>
      /\ Head(cur.packets) \in Packets /\ InList(Head(cur.packets), cur.packets)
  BY ListTail DEF ResolvePacket, IInv, TypeOK, LocalTypes, WorkerSteps, HoldInv, HeldOnce
<1>0b. PICK p \in Packets : p = Head(cur.packets)
  BY <1>0a
<1> DEFINE d == peek[FlowOf[p]]
           v == ResolutionVerdict(d, cur.verdict)
<1>1. cur.packets \in Seq(Packets) /\ cur.packets # <<>> /\ InList(p, cur.packets)
  BY <1>0a, <1>0b
<1>2. /\ verdict' = [verdict EXCEPT ![p] = v] /\ resolvedBy' = [resolvedBy EXCEPT ![p] = cur.id]
      /\ UNCHANGED <<waiters, arrived, accepted, peek>>
  BY <1>0b DEF ResolvePacket, Deliver
<1>3. v \in Verdicts /\ v # NoVerdict
  <2>1. cur.verdict \in Verdicts
    BY DEF ResolvePacket, IInv, WorkerSteps
  <2>2. d \in AllDecisions
    BY <1>1, PromptFlowAssumption DEF IInv, TypeOK, EnvTypes
  <2>3. v \in Verdicts
    BY <2>1, <2>2, ResolutionIsVerdict
  <2> QED
    BY <2>3 DEF NoVerdict, Verdicts, Sources
<1>4. cur.id \in Holding(p)
  BY <1>1 DEF Holding
<1>5. HeldUnder(p) = cur.id /\ verdict[p] = NoVerdict /\ p \in arrived
  <2>1. HeldUnder(p) = cur.id /\ verdict[p] = NoVerdict /\ cur.id # 0
    BY <1>1, <1>4 DEF UnderRight
  <2> QED
    BY <1>1, <2>1 DEF UnderRight
<1>6. Chosen(cur.id, cur.verdict)
  BY <1>1 DEF AnswerInv, AnswersTravel
<1>7. IF d \in Refusals
      THEN v = FromDecision(d)
      ELSE \/ v.source = "User" /\ v.action \in Ask!TakenFor(cur.id)
           \/ /\ Ask!TakenFor(cur.id) = {}
              /\ IF d = "RuleAllow" THEN v = FromDecision("RuleAllow") ELSE v.source = "Policy"
  <2>1. CASE d \in Refusals
    BY <2>1 DEF ResolutionVerdict
  <2>2. CASE d \notin Refusals /\ cur.verdict.source = "User"
    <3>1. v = cur.verdict
      BY <2>2 DEF ResolutionVerdict
    <3>2. cur.verdict.action \in Ask!TakenFor(cur.id)
      BY <1>6, <2>2, AskAnswers DEF Chosen
    <3> QED
      BY <2>2, <3>1, <3>2
  <2>3. CASE d \notin Refusals /\ cur.verdict.source # "User"
    <3>1. cur.verdict.source = "Policy" /\ Ask!TakenFor(cur.id) = {}
      BY <1>6, <2>3, AskAnswers DEF Chosen
    <3>2. IF d = "RuleAllow" THEN v = FromDecision("RuleAllow") ELSE v = cur.verdict
      BY <2>3, <3>1 DEF ResolutionVerdict
    <3> QED
      BY <2>3, <3>1, <3>2
  <2> QED
    BY <2>1, <2>2, <2>3
<1> HIDE DEF v
<1>8. verdict \in [Packets -> Verdicts \cup {NoVerdict}] /\ resolvedBy \in [Packets -> Nat]
  BY DEF IInv, TypeOK, KernelTypes
<1>9. verdict'[p] = v /\ resolvedBy'[p] = cur.id
  BY <1>1, <1>2, <1>8
<1>10. ASSUME NEW q \in Packets PROVE HeldUnder(q)' = HeldUnder(q)
  <2>1. CASE q = p
    <3>1. HeldUnder(p)' = cur.id
      BY <1>1, <1>3, <1>9 DEF UnderRight
    <3> QED
      BY <2>1, <3>1, <1>5
  <2>2. CASE q # p
    <3>1. verdict'[q] = verdict[q] /\ resolvedBy'[q] = resolvedBy[q] /\ arrived' = arrived
      BY <2>2, <1>2, <1>8
    <3>2. InList(q, cur.packets) => InList(q, cur'.packets) /\ cur'.id = cur.id
      <4>1. \A i, j \in DOMAIN cur.packets : cur.packets[i] = cur.packets[j] => i = j
        BY DEF HoldInv, HeldOnce
      <4>2. InList(q, cur.packets) => InList(q, Tail(cur.packets))
        BY <1>1, <1>0b, <2>2, <4>1, ListTail
      <4>3. CASE Len(cur.packets) = 1
        <5>1. DOMAIN cur.packets = {1} /\ p = cur.packets[1]
          BY <1>1, <1>0b, <4>3
        <5> QED
          BY <5>1, <2>2 DEF InList
      <4>4. CASE Len(cur.packets) # 1
        <5>1. cur'.packets = Tail(cur.packets) /\ cur'.id = cur.id
          BY <4>4 DEF ResolvePacket, IInv, TypeOK, LocalTypes
        <5> QED
          BY <4>2, <5>1
      <4> QED
        BY <4>3, <4>4
    <3>3. \A a : a \in Holding(q) => a \in Holding(q)'
      BY <1>2, <3>2 DEF Holding, InList
    <3> QED
      BY <3>1, <3>3, UnderKept
  <2> QED
    BY <2>1, <2>2
<1>11. Unders' = Unders
  BY <1>10, SameUnders
<1>12. Ask!Held(p) /\ Unders[p] = cur.id
  BY <1>1, <1>5, AskWords DEF Unders
<1>13. Ask!LetGo(p, verdict'[p])
  BY <1>1, <1>2, <1>7, <1>9, <1>11, <1>12, AskRules DEF Ask!LetGo, Unders
<1> QED
  BY <1>1, <1>3, <1>5, <1>9, <1>13 DEF Ask!AskNext

\* An answer lands on a prompt that holds packets and has none yet: Answer.
LEMMA AskSubmits ==
  ASSUME IInv, OnceInv, HoldInv, AnswerInv, UnderRight, UnderRight',
         NEW id, NEW uid, NEW action, Submit(id, uid, action)
  PROVE  Ask!AskNext
<1>1. /\ id \in pending /\ accepted' = accepted \cup {<<id, uid, action>>}
      /\ UNCHANGED <<waiters, cur, arrived, verdict, resolvedBy, peek>>
  BY DEF Submit
<1>2. id \in DOMAIN waiters /\ id \notin AcceptedIds
  BY <1>1 DEF OnceInv, UnderWayIsOutstanding, UnderWay, AnswerInv, AcceptedLeft
<1>3. PICK p \in Packets : InList(p, waiters[id].packets)
  <2>1. waiters[id].packets \in Seq(Packets) /\ Len(waiters[id].packets) >= 1
    BY <1>2 DEF IInv, TypeOK, TableTypes, WaitersMatchFlows
  <2>2. 1 \in DOMAIN waiters[id].packets /\ waiters[id].packets[1] \in Packets
    BY <2>1
  <2> QED
    BY <2>2 DEF InList
<1>4. Ask!Held(p) /\ Unders[p] = id
  <2>1. id \in Holding(p)
    BY <1>2, <1>3 DEF Holding
  <2>2. HeldUnder(p) = id /\ id # 0 /\ verdict[p] = NoVerdict
    BY <2>1 DEF UnderRight
  <2>3. p \in arrived
    BY <2>2 DEF UnderRight
  <2> QED
    BY <2>2, <2>3, AskWords DEF Unders
<1>5. \A q \in Packets : HeldUnder(q)' = HeldUnder(q)
  BY <1>1, UnderKept DEF Holding, InList
<1>6. Unders' = Unders
  BY <1>5, SameUnders
<1>7. Taken' = Taken \cup {<<id, action>>} /\ <<id, action>> \notin Taken
  <2> DEFINE a == <<id, uid, action>>
  <2>1. accepted' = accepted \cup {a} /\ a[1] = id /\ a[3] = action
    BY <1>1
  <2> HIDE DEF a
  <2>2. Taken' = Taken \cup {<<id, action>>}
    BY <2>1 DEF Taken
  <2>3. ASSUME <<id, action>> \in Taken PROVE FALSE
    <3>1. PICK b \in accepted : <<id, action>> = <<b[1], b[3]>>
      BY <2>3 DEF Taken
    <3> QED
      BY <1>2, <3>1 DEF AcceptedIds
  <2> QED
    BY <2>2, <2>3
<1>8. Ask!TakenFor(id) = {}
  BY <1>2, AskAnswers
<1>9. Ask!Answer(id, action)
  BY <1>1, <1>4, <1>6, <1>7, <1>8 DEF Ask!Answer, Unders, Taken
<1>10. \E a \in Taken' \ Taken : Ask!Answer(a[1], a[2])
  <2>1. <<id, action>> \in Taken' \ Taken /\ <<id, action>>[1] = id /\ <<id, action>>[2] = action
    BY <1>7
  <2> QED
    BY <1>9, <2>1
<1> QED
  BY <1>10 DEF Ask!AskNext, Taken

\* The actions that change nothing AskUser sees.
AskIsElsewhere ==
  \/ WorkerTop \/ DrainEmpty \/ CloseVerdictChannel \/ FlushDone \/ RecvNothing \/ WorkerFails
  \/ Router \/ Sweeper \/ Sending
  \/ \E s \in Streams : StreamOpens(s) \/ StreamSubscribes(s) \/ StreamCloses(s)
  \/ RequestStop \/ RuntimeShutdown
  \/ UNCHANGED vars

LEMMA AskElsewhere ==
  ASSUME UnderRight, UnderRight', AskIsElsewhere
  PROVE  UNCHANGED Ask!askVars
<1>1. UNCHANGED <<verdict, resolvedBy, arrived, waiters, cur, accepted, peek>>
  BY DEF AskIsElsewhere, vars, WorkerTop, DrainEmpty, CloseVerdictChannel, FlushDone, RecvNothing,
     WorkerFails, VerdictFails, RecvError, Router, RouterRecv, RouterNoAudience, RouterInsert,
     RouterBroadcast, RouterReclaim, Sweeper, SweeperFires, Sending, SendTaken, StreamOpens,
     StreamSubscribes, StreamCloses, RequestStop, RuntimeShutdown
<1>2. \A q \in Packets : HeldUnder(q)' = HeldUnder(q)
  BY <1>1, UnderKept DEF Holding, InList
<1> QED
  BY <1>1, <1>2, AskStutters

LEMMA AskRulesChange ==
  ASSUME IInv, UnderRight, UnderRight', NEW f \in Flows, NEW d \in Decisions, RulesChange(f, d)
  PROVE  Ask!AskNext \/ UNCHANGED Ask!askVars
<1>1. /\ peek' = [peek EXCEPT ![f] = d] /\ peek \in [Flows -> Decisions]
      /\ UNCHANGED <<verdict, resolvedBy, arrived, waiters, cur, accepted>>
  BY DEF RulesChange, IInv, TypeOK, EnvTypes
<1>2. \A q \in Packets : HeldUnder(q)' = HeldUnder(q)
  BY <1>1, UnderKept DEF Holding, InList
<1>3. Unders' = Unders
  BY <1>2, SameUnders
<1>4. CASE peek' = peek
  BY <1>1, <1>2, <1>4, AskStutters
<1>5. CASE peek' # peek
  <2>1. peek'[f] = d /\ peek'[f] # peek[f]
    BY <1>1, <1>5
  <2>2. Ask!ChangeRules(f, peek'[f])
    BY <1>1, <1>3, <2>1 DEF Ask!ChangeRules, Unders
  <2> QED
    BY <2>1, <2>2 DEF Ask!AskNext
<1> QED
  BY <1>4, <1>5

\* Every step is a step of AskUser, or none it sees.
LEMMA AskStep ==
  ASSUME RInv, UnderRight, UnderRight', [Next]_vars
  PROVE  [Ask!AskNext]_Ask!askVars
<1> USE DEF RInv
<1>1. CASE TakeVerdict
  <2>1. UNCHANGED <<kernel, accepted, peek>> /\ wpc \notin {"resolve", "exited"}
    BY <1>1 DEF TakeVerdict
  <2>2. \E id, v, back : ResolveBegin(id, v, back)
    BY <1>1 DEF TakeVerdict
  <2> QED
    BY <2>1, <2>2, AskBegins
<1>2. CASE FlushWaiter
  <2>1. UNCHANGED <<kernel, accepted, peek>> /\ wpc \notin {"resolve", "exited"}
    BY <1>2 DEF FlushWaiter
  <2>2. \E id, v, back : ResolveBegin(id, v, back)
    BY <1>2 DEF FlushWaiter
  <2> QED
    BY <2>1, <2>2, AskBegins
<1>3. CASE ResolvePacket
  BY <1>3, AskResolves
<1>4. ASSUME NEW p \in Packets, HandleSettled(p) \/ RidePrompt(p) \/ OpenPrompt(p)
      PROVE  Ask!AskNext
  BY <1>4, AskHandleSettled, AskRide, AskOpen
<1>5. ASSUME NEW p \in Packets, RideOverflow(p) \/ BacklogFull(p) \/ RouterUnavailable(p)
      PROVE  Ask!AskNext
  BY <1>5, AskFallback DEF RideOverflow, BacklogFull, RouterUnavailable
<1>6. CASE Client
  BY <1>6, AskSubmits DEF Client
<1>7. CASE \E f \in Flows, d \in Decisions : RulesChange(f, d)
  BY <1>7, AskRulesChange
<1>8. CASE AskIsElsewhere
  BY <1>8, AskElsewhere
<1> QED
  BY <1>1, <1>2, <1>3, <1>4, <1>5, <1>6, <1>7, <1>8 DEF Next, WorkerRuns, Environment, AskIsElsewhere

LEMMA AskStarts ==
  ASSUME Init, UnderRight
  PROVE  Ask!AskInit
<1>1. /\ verdict = [p \in Packets |-> NoVerdict] /\ accepted = {} /\ arrived = {}
      /\ peek \in [Flows -> Decisions]
  BY DEF Init
<1>2. Unders = [p \in Packets |-> 0]
  BY <1>1 DEF Unders, UnderRight
<1>3. Taken = {}
  BY <1>1 DEF Taken
<1> QED
  BY <1>1, <1>2, <1>3 DEF Ask!AskInit, Ask!NoVerdict, NoVerdict, Unders, Taken

\* The ask-the-user path implements AskUser: however the worker, the router, the
\* sweepers, clients, rule writers and shutdown interleave, a packet is settled
\* once, an accepted answer is the one its packets get, a current refusal beats
\* it, and the policy speaks only when nobody answered.
THEOREM AskImplemented == Spec => ImplementsAsk
<1>1. Init /\ RInv /\ UnderRight => Ask!AskInit
  BY AskStarts
<1>2. RInv /\ UnderRight /\ UnderRight' /\ [Next]_vars => [Ask!AskNext]_Ask!askVars
  BY AskStep
<1>3. RInv => UnderRight
  BY UnderIsRight DEF RInv
<1> QED
  BY <1>1, <1>2, <1>3, RInvHolds, PTL DEF Spec, ImplementsAsk, Ask!AskSpec

=============================================================================
