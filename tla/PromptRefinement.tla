-------------------------- MODULE PromptRefinement --------------------------
(***************************************************************************)
(* PromptFlow implements AskUser: a packet is held under the prompt whose  *)
(* entry in waiters it is in, or whose resolution is under way in the      *)
(* worker; a question's answers are those a client was told were accepted. *)
(***************************************************************************)
EXTENDS PromptFlow

InList(p, s) == \E i \in DOMAIN s : s[i] = p

\* The prompts that hold p, and the one being resolved with p still to go.
Holding(p) ==
  {id \in DOMAIN waiters : InList(p, waiters[id].packets)}
  \cup (IF InList(p, cur.packets) THEN {cur.id} ELSE {})

HeldUnder(p) ==
  IF verdict[p] # NoVerdict THEN resolvedBy[p]
  ELSE IF Holding(p) = {} THEN 0 ELSE CHOOSE id \in Holding(p) : TRUE

Ask == INSTANCE AskUser WITH
         told    <- verdict,
         under   <- [p \in Packets |-> HeldUnder(p)],
         answers <- {<<a[1], a[3]>> : a \in accepted},
         rules   <- peek

\* The ask-the-user path of the daemon (nfqueue/mod.rs, prompts.rs) keeps the
\* promise of asking: however the worker, the router, the sweepers, two
\* clients, rule writers and shutdown interleave, a prompt takes one answer,
\* an accepted answer is the one its packets get, a refusal written meanwhile
\* beats it, the policy speaks only when nobody answered, and no packet
\* changes its question or its verdict.
ImplementsAsk == Ask!AskSpec

-----------------------------------------------------------------------------
(* What one resolution per prompt needs to be inductive *)

\* The request run_router_task looks up its audience for.
InHand   == IF hand.step = "census" THEN {hand.id} ELSE {}
TakenIds == {t.id : t \in taken}
NoRepeat(q) == \A i, j \in DOMAIN q : q[i].id = q[j].id => i = j

\* The prompts on their way to a resolution, wherever that is.
UnderWay == IdsIn(promptQ) \cup InHand \cup pending \cup TakenIds \cup IdsIn(verdictQ)

\* A prompt is at most once in each place, and in one place only.
OnePlace ==
  /\ NoRepeat(promptQ) /\ NoRepeat(verdictQ)
  /\ \A t, u \in taken : t.id = u.id => t = u
  /\ IdsIn(promptQ) \cap (InHand \cup pending \cup TakenIds \cup IdsIn(verdictQ)) = {}
  /\ InHand \cap (pending \cup TakenIds \cup IdsIn(verdictQ)) = {}
  /\ pending \cap (TakenIds \cup IdsIn(verdictQ)) = {}
  /\ TakenIds \cap IdsIn(verdictQ) = {}

\* The prompts under way are the outstanding ones, until the router is gone.
UnderWayIsOutstanding ==
  /\ UnderWay \subseteq DOMAIN waiters
  /\ routerUp => DOMAIN waiters \subseteq UnderWay

\* Stats::prompts_pending, and a sweeper for everything that is pending.
Counted ==
  /\ IsFiniteSet(pending) /\ IsFiniteSet(taken)
  /\ gauge = Cardinality(pending) + Cardinality(taken)
  /\ \A id \in pending : id \in sweepers \/ (hand.step = "cast" /\ hand.id = id)

\* After the runtime's end nothing is left of the router, and the worker flushes
\* only then, with no verdict left to read.
Hangup ==
  /\ ~routerUp => /\ hand = Idle /\ promptQ = <<>>
                  /\ pending = {} /\ sweepers = {} /\ taken = {}
  /\ ~channelOpen => ~routerUp /\ verdictQ = <<>>
  /\ wpc \in {"flushRecv", "flushTop"} => ~channelOpen
  /\ wpc = "resolve" /\ ret \in {"flushRecv", "flushTop"} => ~channelOpen

OnceInv == OnePlace /\ UnderWayIsOutstanding /\ Counted /\ Hangup

-----------------------------------------------------------------------------
(* What losing no packet needs to be inductive *)

InWaiters(p) == \E id \in DOMAIN waiters : InList(p, waiters[id].packets)

\* No packet is held twice.
HeldOnce ==
  /\ \A a, b \in DOMAIN waiters :
       \A i \in DOMAIN waiters[a].packets, j \in DOMAIN waiters[b].packets :
         waiters[a].packets[i] = waiters[b].packets[j] => a = b /\ i = j
  /\ \A i, j \in DOMAIN cur.packets : cur.packets[i] = cur.packets[j] => i = j
  /\ \A p \in Packets : ~(InWaiters(p) /\ InList(p, cur.packets))

\* The packets held are those that were read and have no verdict.
HeldAreOpen ==
  /\ \A p \in Packets : InWaiters(p) \/ InList(p, cur.packets)
                           <=> p \in arrived /\ verdict[p] = NoVerdict
  /\ \A p \in Packets \ arrived : verdict[p] = NoVerdict

\* resolve_prompt is the only one to hold packets outside the table.
OnlyResolveHolds ==
  /\ wpc \notin {"resolve", "exited"} => cur.packets = <<>>
  /\ cur.packets # <<>> => cur.id # 0

HoldInv == HeldOnce /\ HeldAreOpen /\ OnlyResolveHolds

-----------------------------------------------------------------------------
(* What the refinement needs besides: where an accepted answer is *)

AcceptedIds == {a[1] : a \in accepted}
IsAccepted(id, action) == \E a \in accepted : a[1] = id /\ a[3] = action

\* A verdict on its way to the packets of prompt id is an answer that was
\* accepted, or the policy's because none was.
Chosen(id, v) ==
  \/ v.source = "User" /\ IsAccepted(id, v.action)
  \/ v.source = "Policy" /\ id \notin AcceptedIds

AnswersTravel ==
  /\ \A t \in taken : IF t.by = "User" THEN IsAccepted(t.id, t.action) ELSE t.id \notin AcceptedIds
  /\ \A i \in DOMAIN verdictQ : Chosen(verdictQ[i].id, verdictQ[i].verdict)
  /\ cur.packets # <<>> => Chosen(cur.id, cur.verdict)
  /\ \A id \in DOMAIN waiters : waiters[id].fallback.source = "Policy"

\* An accepted answer has left the router's hands, and until the prompt's
\* packets are let go it is on its way to the worker.
AcceptedLeft ==
  /\ AcceptedIds \cap (IdsIn(promptQ) \cup InHand \cup pending) = {}
  /\ AcceptedIds \cap DOMAIN waiters \subseteq TakenIds \cup IdsIn(verdictQ)
  /\ \A id \in AcceptedIds : id < nextPromptId

\* resolve_prompt has forgotten the prompt whose packets it lets go.
Forgotten == cur.packets # <<>> => cur.id \notin DOMAIN waiters

AnswerInv == AnswersTravel /\ AcceptedLeft /\ Forgotten

\* The inductive invariant the refinement is proved from.
RInv == IInv /\ OnceInv /\ HoldInv /\ AnswerInv
=============================================================================
