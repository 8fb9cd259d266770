CONSTANTS
  k1 = k1
  k2 = k2
  Keys = {k1, k2}
  Ns <- MCNs
  Contents = {x, y}
  Refs <- MCRefs
  MaxAppends = 3
  MaxQueue = 2
SPECIFICATION Spec
INVARIANTS
  AckedIsFound
  VerifyIsExact
PROPERTIES
  ProvenanceKept
  ImplementsStore
