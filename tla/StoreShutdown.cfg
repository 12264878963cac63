SPECIFICATION Spec
CONSTANTS
  Ids = {r1}
  Exes = {x}
  BadExe = bad
  Lifetimes = {1}
  Calls = {c1, c2}
  Kinds = {"upsert"}
  EchoedHits = {0}
  StopKinds = {"signal"}
  MaxTime = 1
  MaxHits = 1
  MaxFailures = 0
  MaxStops = 1
CHECK_DEADLOCK FALSE
INVARIANT StoredHitsTrue
