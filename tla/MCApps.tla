------------------------------- MODULE MCApps -------------------------------
(***************************************************************************)
(* The clients of the daemon, which share nothing but the daemon: the      *)
(* tray, the desktop app and the tools that write rules.                   *)
(***************************************************************************)
EXTENDS Tray, Gui, RuleTools

VARIABLE part

MCExes == {<<"scopable", "none">>, <<"scopable", "unknown">>}

Scope(f) == f @@ Blank
MCFlags == {[action |-> "allow", dur |-> "always", scope |-> Scope([exe |-> "/a", dstPort |-> "443", uid |-> "u"])],
            [action |-> "deny", dur |-> "restart", scope |-> Scope([dir |-> "in", srcNet |-> "n", dstPort |-> "22"])],
            [action |-> "allow", dur |-> "always", scope |-> Scope([dir |-> "in", exe |-> "/a"])],
            [action |-> "allow", dur |-> "always", scope |-> Scope([dstNet |-> "bad", exe |-> "/a"])]}
Op(operand, data, regexp) == [operand |-> operand, data |-> data, regexp |-> regexp]
MCOsnFiles == {[action |-> "allow", dur |-> "always", ops |-> ops] : ops \in
    {<<Op("process.path", "/a", FALSE), Op("dest.port", "443", FALSE)>>,
     <<Op("process.path", "/a", FALSE), Op("dest.host", "h", FALSE)>>,
     <<Op("dest.ip", "n", FALSE), Op("dest.ip", "m", FALSE)>>,
     <<Op("process.path", "/a", TRUE)>>}}
MCBundled == {[id |-> "b1", name |-> "ssh", exes |-> <<>>, scope |-> Scope([dir |-> "in", srcNet |-> "n", dstPort |-> "22"])],
              [id |-> "b2", name |-> "https", exes |-> <<"/a", "/b">>, scope |-> Scope([dstPort |-> "443"])]}
MCFlows == {[exe |-> "/a", dir |-> "out", peer |-> "n", port |-> "443", sha256 |-> "h"],
            [exe |-> Unknown, dir |-> "out", peer |-> "n", port |-> "443", sha256 |-> "none"],
            [exe |-> Unknown, dir |-> "in", peer |-> "n", port |-> "22", sha256 |-> "none"]}
MCFormInputs == {[field |-> "dstPort", value |-> "80"], [field |-> "exe", value |-> "/b"], [field |-> "dstPort", value |-> "none"]}

\* A part that does not run starts in one fixed state.
Init ==
    /\ part \in {"tray", "gui", "tools"}
    /\ TrayInit /\ GuiInit /\ ToolsInit
    /\ part # "tray" => mode = "generic" /\ exeKind = <<"scopable", "none">>
    /\ part # "tools" => scripts = {}
Next ==
    /\ UNCHANGED part
    /\ \/ part = "tray" /\ TrayNext /\ UNCHANGED <<guiVars, toolVars>>
       \/ part = "gui" /\ GuiNext /\ UNCHANGED <<trayVars, toolVars>>
       \/ part = "tools" /\ ToolsNext /\ UNCHANGED <<trayVars, guiVars>>
Spec == Init /\ [][Next]_<<part, trayVars, guiVars, toolVars>>
=============================================================================
