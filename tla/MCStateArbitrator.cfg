CONSTANTS
  pa = pa
  pb = pb
  a1 = a1
  a2 = a2
  b1 = b1
  Compartments = {pa, pb}
  Handlers = {a1, a2, b1}
  Home <- MCHome
  Modes <- MCModes
  MaxRequests = 2
SPECIFICATION Spec
INVARIANTS
  ZoneExclusion
  ZoneIsHeld
CHECK_DEADLOCK FALSE
