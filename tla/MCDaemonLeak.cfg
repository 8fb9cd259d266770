CONSTANTS
  Uses = {"u1", "u2", "u3", "u4"}
  Target <- MCTarget
  Specs = {"a", "b"}
  Recipes = {"r"}
  Name <- MCName
  First = "a"
  Mixes <- MCMixes
  Writable <- MCWritable
  MaxWrites = 2
SPECIFICATION Spec
INVARIANT WorkersHaveAnOwner
CHECK_DEADLOCK FALSE
