CONSTANTS
    TrayPrompts = {1, 2}
    ExeKinds <- MCExes
    MaxActionable = 1
    OldDaemon = FALSE
    TrayModes = {"actions", "generic"}
    MenuModes = {"generic"}
    MaxTrayFaults = 1
    Cards = {1, 2}
    Arm = 1
    CardLife = 3
    Scoped = {1}
    MaxClock = 4
    MaxEdits = 1
    MaxLosses = 1
    RuleIds = {"r1", "r2"}
    Flags <- MCFlags
    OsnFiles <- MCOsnFiles
    Bundled <- MCBundled
    Flows <- MCFlows
    FormInputs <- MCFormInputs
    TimedFor = 1
    MaxHour = 2
    MaxActs = 3
    Launchers = {"/a"}
SPECIFICATION Spec
 
PROPERTIES BubblesStandForPrompts CardKeptUntilSettled
CHECK_DEADLOCK FALSE
