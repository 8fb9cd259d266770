CONSTANTS
  a = a
  b = b
  Entries <- MCEntries
  Fragile = {a}
  Wedging = {}
  MaxQuarantines = 2
SPECIFICATION FairHealthSpec
PROPERTIES
  BackoffOnceStopped
  StandingCrashIsQuarantined
CHECK_DEADLOCK FALSE
