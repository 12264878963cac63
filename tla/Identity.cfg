CONSTANTS
    SockSet <- MCSocks
    FlowSet <- MCFlows
    SeqMax = 2
    MaxLookups = 3
    MaxSockChanges = 2
    PidSet = {1, 2, 3}
    UidSet = {2}
    HostFiles = {"h1", "h2"}
    Foreign = "foreign"
    NoFile = "nofile"
    DigestSettle = 1
    ShaCap = 2
    MaxBirths = 4
    MaxTick = 1
    MaxWorld = 2
    MaxResolves = 1
    AddrSet = {"a1", "a2"}
    NameSet = {"n1", "n2"}
    Forward <- MCForward
    CacheMax = 1
    LookupMax = 2
    PositiveTtl = 2
    NegativeTtl = 1
    ObservedMin = 1
    ObservedMax = 2
    MaxHostTick = 2
    MaxHostSteps = 4
    Backends = {"pacman", "rpm", "dpkg"}
    MaxPkgSteps = 3
    Pids = {1, 2}
    MaxStarts = 3
    MaxVersions = 2
    MaxChecks = 1
    MaxExecs = 1
    Clients = {"app", "other"}
    UidOf <- MCUidOf
    OwnUid = 0
    InGroup = {"app", "other"}
    RequireGroup = TRUE
    PromptKinds <- MCPrompts
    RequestKinds <- MCRequests
    AudienceCap = 2
    FeedCap = 1
    MaxAsked = 3
    MaxCalls = 3
    MaxChanges = 1
SPECIFICATION MCSpec
INVARIANTS NotMisattributed IdentityOfHolder  OneProcessChecked AdminConfirmed
PROPERTIES ObservedNotOverwritten 
CHECK_DEADLOCK FALSE
