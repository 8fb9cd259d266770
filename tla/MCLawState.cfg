CONSTANTS
  Plugins = {"law", "app"}
  Caps = {"law", "vault"}
  Granted <- MCGranted
  MaxGeneration = 1
  Jobs = {"s1", "s2", "rl", "gr", "rt", "rg", "tr", "cr", "g2"}
  Kind <- MCKind
  Who <- MCWho
  List <- MCList
  Boot = "boot"
  Law = "law"
  App = "app"
  Mixes <- MCMixes
  MaxBoots = 2
  MaxAttempts = 2
SPECIFICATION LawSpec
INVARIANTS
  OverlayIsTheRow
  AnsweredSetStands
  ConsentHasItsRow
PROPERTIES
  RetiredIsForever
CHECK_DEADLOCK FALSE
