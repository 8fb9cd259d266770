CONSTANTS
  law = law
  vault = vault
  app = app
  a = a
  b = b
  x = x
  ra = ra
  rb = rb
  rx = rx
  Compartments = {law, vault, app}
  Law = law
  Calls = {a, b, ra, rb}
  Risky = {a, b, ra, rb}
  Timed = {}
  Outer = {a, b}
  JournalOf <- MCJournalOf
  Target <- MCTarget
  DeclaresGate = {}
  MaxConcurrentCalls <- MCCap
  Prompts = {TRUE}
SPECIFICATION FoldSpec
INVARIANT DecisionNeverBlocked
CHECK_DEADLOCK FALSE
