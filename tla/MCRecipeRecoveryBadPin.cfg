CONSTANTS
  p = p
  q = q
  Attempts = {p}
  Specs = {"old", "new"}
  Names = {"home"}
  Sources = {"t1", "t2", "t3"}
  Entries = 2
  MCVersions = {"b"}
  SourceOf <- MCSourceOf
  VersionsOf <- MCVersionsOf
  Code <- MCCode
  NameOf <- MCNameOf
  Unroutable <- MCUnroutable
SPECIFICATION Spec
PROPERTY BootsOrPreserves
