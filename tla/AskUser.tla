------------------------------ MODULE AskUser ------------------------------
(***************************************************************************)
(* What asking the user promises, without the worker, the router, their    *)
(* tables and their channels: a packet is settled at once or held under a  *)
(* question, a question takes at most one answer, and a held packet is let *)
(* go with what the rules now refuse, with the answer that was taken, or,  *)
(* only when nobody answered, with a rule's or the policy's verdict.       *)
(* PromptFlow implements it (PromptRefinement).                            *)
(***************************************************************************)
EXTENDS Naturals

CONSTANTS Packets, Flows, FlowOf, Decisions

VARIABLES
  told,     \* what the kernel was told about each packet, NoVerdict before
  under,    \* the question a packet is or was held under, 0 when none
  answers,  \* <<question, action>>: the answers taken
  rules     \* what the rules say about each flow

askVars == <<told, under, answers, rules>>

Actions   == {"Allow", "Refuse"}
NoVerdict == [action |-> "none", source |-> "none"]
Refusing  == {"RuleRefuse", "PolicyRefuse"}
Undecided == {"Ask", "AskUndecided"}

Held(p)   == told[p] = NoVerdict /\ under[p] # 0
Fresh(p)  == told[p] = NoVerdict /\ under[p] = 0
TakenFor(q) == {a[2] : a \in {b \in answers : b[1] = q}}

\* What a rule says, as a verdict.
ByRule(d) ==
  [action |-> IF d = "RuleAllow" THEN "Allow" ELSE "Refuse",
   source |-> IF d = "PolicyRefuse" THEN "Policy" ELSE "Rule"]

-----------------------------------------------------------------------------

AskInit ==
  /\ told = [p \in Packets |-> NoVerdict]
  /\ under = [p \in Packets |-> 0]
  /\ answers = {}
  /\ rules \in [Flows -> Decisions]

\* A packet is settled without a question: by the rules, or, where they do
\* not refuse it, by the policy; traffic the rules never see is "Silent".
Settle(p, v) ==
  /\ Fresh(p)
  /\ \/ v.source = "Silent"
     \/ v = ByRule(rules[FlowOf[p]]) /\ rules[FlowOf[p]] \notin Undecided
     \/ v.source = "Policy" /\ rules[FlowOf[p]] \in Undecided
  /\ told' = [told EXCEPT ![p] = v]
  /\ UNCHANGED <<under, answers, rules>>

\* A packet the rules leave open is held under a question about its own flow,
\* and no other question about that flow has packets waiting.
Hold(p, q) ==
  /\ Fresh(p)
  /\ q # 0
  /\ rules[FlowOf[p]] \in Undecided
  /\ \A r \in Packets : Held(r) => (FlowOf[r] = FlowOf[p] <=> under[r] = q)
  /\ under' = [under EXCEPT ![p] = q]
  /\ UNCHANGED <<told, answers, rules>>

\* The first answer to a question that still has packets waiting is taken.
Answer(q, action) ==
  /\ \E p \in Packets : Held(p) /\ under[p] = q
  /\ TakenFor(q) = {}
  /\ answers' = answers \cup {<<q, action>>}
  /\ UNCHANGED <<told, under, rules>>

\* A held packet is let go.
LetGo(p, v) ==
  /\ Held(p)
  /\ IF rules[FlowOf[p]] \in Refusing
     THEN v = ByRule(rules[FlowOf[p]])
     ELSE \/ v.source = "User" /\ v.action \in TakenFor(under[p])
          \/ /\ TakenFor(under[p]) = {}
             /\ IF rules[FlowOf[p]] = "RuleAllow" THEN v = ByRule("RuleAllow")
                                                  ELSE v.source = "Policy"
  /\ told' = [told EXCEPT ![p] = v]
  /\ UNCHANGED <<under, answers, rules>>

ChangeRules(f, d) ==
  /\ rules' = [rules EXCEPT ![f] = d]
  /\ UNCHANGED <<told, under, answers>>

\* The new values of the variables say which packet, answer or rule a step is
\* about.
AskNext ==
  \/ \E p \in Packets : /\ told'[p] # told[p]
                        /\ Settle(p, told'[p]) \/ LetGo(p, told'[p])
  \/ \E a \in answers' \ answers : Answer(a[1], a[2])
  \/ \E f \in Flows : rules'[f] # rules[f] /\ ChangeRules(f, rules'[f])
  \/ \E p \in Packets : under'[p] # under[p] /\ Hold(p, under'[p])

AskSpec == AskInit /\ [][AskNext]_askVars
=============================================================================
