CONSTANTS
  p = p
  q = q
  Attempts = {p, q}
  Specs = {"old", "new"}
  Names = {"home"}
  Sources = {"t1", "t2", "t3"}
  Entries = 2
  MCVersions = {"a", "b", "c"}
  SourceOf <- MCSourceOf
  VersionsOf <- MCVersionsOf
  Code <- MCCode
  NameOf <- MCNameOf
  Unroutable <- MCUnroutable
SYMMETRY MCSymmetry
SPECIFICATION Spec
INVARIANTS
  RunsOnlyVerified
PROPERTIES
  PinnedAfterVerification
  LostOnlyByGaps
