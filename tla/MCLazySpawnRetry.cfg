CONSTANTS
  c1 = c1
  c2 = c2
  c3 = c3
  Calls = {c1, c2, c3}
SPECIFICATION Spec
PROPERTY NextCallRetries
CHECK_DEADLOCK FALSE
