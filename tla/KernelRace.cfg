SPECIFICATION MCSpec
CONSTANTS
  Parts = {"deny"}
  p1 = p1
  s1 = s1
  Pids = {p1}
  Names = {"app", "tool", "link"}
  Target <- MCTarget
  RuleSets <- MCRuleSets
  GroupDeadKnown = {TRUE, FALSE}
  Windows = {"exec"}
  RingCap = 1
  PendingCap = 1
  TableCap = 3
  MaxBirths = 2
  MaxExecs = 2
  MaxEdits = 1
  MaxCrashes = 1
  Kernels <- MCKernels
  Leftovers = {"none", "oldAbi", "legacy"}
  Sockets = {s1}
  OffsetMax = 64
  MaxStarts = 3
  MaxFaults = 2
  TypeLists <- MCTypeLists
  Task = 5
  Wanted <- MCWanted
  VlenBase = 4
  BitfieldBase = 128
  MaxMoved = 2
  Space = 2
CHECK_DEADLOCK FALSE
INVARIANT DenyDeserved
