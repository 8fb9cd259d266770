CONSTANTS
  a = a
  b = b
  c = c
  Entries <- MCEntries
  Fragile = {a}
  Wedging = {a}
  Hungry = {b}
  MissLimit = 2
  OverLimit = 1
SPECIFICATION WatchSpec
INVARIANTS
  EvictedOnce
  MissesAreIntervals
PROPERTIES
  WedgedIsEvicted
CHECK_DEADLOCK FALSE
