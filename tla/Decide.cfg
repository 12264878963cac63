SPECIFICATION MCSpec
CONSTANTS
  None = None
  Exes = {"x", "y"}
  Hashes = {"h", "g"}
  Uids = {"u", "v"}
  Addrs = {1}
  Ports = {1, 2}
  Births = {1, 2, 3}
  MaxRules = 3
  RuleLists <- MCRuleLists
  Conns <- MCConns
  Procs <- MCProcs
  Packets <- MCPackets
  W = 8
  B = 4
  MaxExtHeaders = 2
  TicksPerToken = 3
  Burst = 2
  MaxTime = 7
  Datagrams <- MCDatagrams
  Responses <- MCResponses
  RingSlots = 2
  MaxLabels = 5
  MaxLabelJumps = 1
  MaxNameLen = 7
  MaxQuestions = 2
  MaxAnswers = 2
CHECK_DEADLOCK FALSE
INVARIANTS
  AnswerSurvivesIdentity
  AskMeansNoRule
  KernelRefusalAgrees
  ExeTableAgrees
  RefusalIsForItsSender
  OffBoxBounded
  AnswersAsSent
