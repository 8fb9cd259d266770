CONSTANTS
  law = law
  app = app
  c1 = c1
  c2 = c2
  c3 = c3
  Compartments = {law, app}
  Law = law
  Calls = {c1, c2, c3}
  Target <- MCTarget
  Risky = {c1, c2}
  Timed = {c1, c2, c3}
  DeclaresGate <- MCDeclaresGate
  MaxConcurrentCalls <- MCCap
SPECIFICATION FairSpec
INVARIANTS
  WorkConserving
  GateFailClosed
  GateTierFirst
  NobodyForgotten
PROPERTIES
  ImplementsContract
  EveryCallAnswered
