CONSTANTS
  Calls = {c1, c2, c3, bad}
  Refusable = {bad}
  PoolSize = 2
  MalformedLimit = 1
SPECIFICATION FairSpec
INVARIANTS
  LanesAccountedFor
  LaneLostOnlyWhenIdle
PROPERTIES
  CleanReuse
  EveryCallAnswered
CHECK_DEADLOCK FALSE
