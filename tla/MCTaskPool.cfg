CONSTANTS
  h = h
  n1 = n1
  n2 = n2
  l1 = l1
  Tasks = {h, n1, n2, l1}
  Level <- MCLevel
  Capacity = 1
  SaturationFactor = 3
SPECIFICATION FairPoolSpec
INVARIANTS
  SlotsAccountedFor
PROPERTIES
  PriorityOrder
  NoWastedCall
  EverySubmitAnswered
CHECK_DEADLOCK FALSE
