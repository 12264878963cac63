SPECIFICATION PauseSpec
CONSTANTS
  Calls = {c1, c2}
  Durations = {1}
  DefaultSecs = 1
  MaxPauseSecs = 2
  MaxTime = 1
  Overlap = TRUE
CHECK_DEADLOCK FALSE
PROPERTY PauseEnds
