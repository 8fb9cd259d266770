CONSTANTS
  c1 = c1
  c2 = c2
  c3 = c3
  Calls = {c1, c2, c3}
SPECIFICATION FairSpec
INVARIANTS
  NobodyStranded
PROPERTIES
  FirstTouchWaits
  FirstTouchAnswered
CHECK_DEADLOCK FALSE
