---------------------------- MODULE MCPromptFlow ----------------------------
(* Instances of PromptFlow for TLC. *)
EXTENDS PromptRefinement, TLC

CONSTANTS p1, p2, p3, f1, f2, root, alice, none, tray, watch

\* Every packet belongs to one flow, or to one of two: p1's and the others'.
OneFlow  == [p \in Packets |-> f1]
TwoFlows == [p \in Packets |-> IF p = p1 THEN f1 ELSE f2]
\* f2 is alice's program; f1's process could not be attributed.
Owners == [f \in Flows |-> IF f = f1 THEN none ELSE alice]
\* Every client runs as alice.
ClientUids == [s \in Streams |-> alice]
\* Packets of one flow are interchangeable.
Sym == Permutations({p2, p3})

\* Two ways to run: three packets of two flows under rules and a policy that
\* stay as they are, or two packets of one flow while both change.
VARIABLE scenario

PolicyRefuses ==
  /\ \A id \in DOMAIN waiters : waiters[id].fallback.action = "Refuse"
  /\ \A i \in DOMAIN verdictQ : verdictQ[i].verdict # FromPolicy("Allow")
  /\ \A p \in Packets : verdict[p] # FromPolicy("Allow")

MCInit ==
  /\ Init
  /\ \/ scenario = "park" /\ peek = [f \in Flows |-> "Ask"]
     \/ scenario = "race" /\ peek[f1] = "Ask"

MCNext ==
  /\ Next
  /\ UNCHANGED scenario
  /\ \/ scenario = "park" /\ UNCHANGED peek /\ PolicyRefuses'
     \/ scenario = "race" /\ p1 \notin arrived' /\ peek'[f1] = peek[f1]

MCSpec == MCInit /\ [][MCNext]_<<scenario, vars>>

LiveInit == Init /\ scenario = "live"

LiveSpec ==
  /\ LiveInit
  /\ [][Next /\ UNCHANGED scenario]_<<scenario, vars>>
  /\ Fairness
=============================================================================
