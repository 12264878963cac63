SPECIFICATION MCSpec
CONSTANTS
  Calls = {c1, c2, c3}
  Durations = {0, 1, 5}
  DefaultSecs = 0
  MaxPauseSecs = 2
  MaxTime = 2
  Overlap = FALSE
  MaxVerdicts = 4
  FeedCap = 2
  QueueDepth = 2
  BatchRows = 2
  MaxRows = 2
  MaxFailures = 1
  WorkerStall = 4
  WatchdogSec = 3
  ProbeInterval = 2
  Grace = 1
  DryRun = FALSE
  ConfigFiles <- MCFiles
  ClockSteps <- MCClockSteps
  MaxDisturbances = 2
  FailuresBeforeDead = 2
  BackoffSteps = 2
  Feeds = {"live", "prompts"}
  MaxOutages = 2
INVARIANTS PauseLasts LoggedOrCounted GoneIsReported
PROPERTIES PauseEnds WedgedIsReplaced FollowsTheDaemon
CHECK_DEADLOCK FALSE
