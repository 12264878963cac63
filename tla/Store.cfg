SPECIFICATION MCSpec
CONSTANTS
  Ids = {r1, r2}
  Exes = {x}
  BadExe = bad
  Lifetimes <- EveryLifetime
  Calls = {c1, c2}
  Kinds = {"upsert", "apply", "replace", "delete"}
  EchoedHits = {2}
  StopKinds = {"crash", "signal"}
  MaxTime = 1
  MaxHits = 1
  MaxFailures = 1
  MaxStops = 1
CHECK_DEADLOCK FALSE
INVARIANTS EngineStoreAgree HitsCountedOnce
PROPERTIES TimedStaysTimed ExpiredRulesLeave
