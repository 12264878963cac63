---------------------------- MODULE MCRuleStore ----------------------------
(***************************************************************************)
(* An instance of RuleStore, run two ways: writes of every kind and        *)
(* lifetime with any ending, while no packet comes; or hits being counted  *)
(* while timed rules are rewritten and the daemon crashes.                 *)
(***************************************************************************)
EXTENDS RuleStore

VARIABLE scenario

\* Every kind of lifetime a rule may be sent with.
EveryLifetime == {UntilRestart, Always, 1}

OneTimedSent ==
  \A c \in Calls : \A id \in DOMAIN call[c].rules :
    /\ id = CHOOSE x \in Ids : TRUE
    /\ call[c].kind # "delete" => call[c].rules[id].secs = 1
\* One of the rules is always permanent.
OneIsPermanent ==
  \A c \in Calls : \A id \in DOMAIN call[c].rules :
    id = (CHOOSE x \in Ids : TRUE) => call[c].rules[id].secs = Always
KindsSent == {call[c].kind : c \in Calls}
First == CHOOSE c \in Calls : TRUE

MCInit == Init /\ scenario \in {"writes", "hits"}

MCNext ==
  /\ Next
  /\ UNCHANGED scenario
  /\ call'[First].step = "idle" => \A c \in Calls : call'[c].step = "idle"
  /\ \/ /\ scenario = "writes"
        /\ packet' = NoId /\ "apply" \notin KindsSent'
        /\ OneIsPermanent' /\ failures' + stops' <= 1
        /\ stopping'.step \in {"run", "down"}
     \/ /\ scenario = "hits"
        /\ OneTimedSent' /\ "replace" \notin KindsSent'

MCSpec ==
  /\ MCInit
  /\ [][MCNext]_<<scenario, vars>>
  /\ Fairness
=============================================================================
