\* Two replicas edit at any time and meet; one crashes between any two steps.
CONSTANTS
  Replica = {1, 2}
  Link <- Pair
  Path = {a}
  MTime = {0, 1}
  Seed = 1
  MaxContent = 2
  Empty = {}
  MaxClock = 20
  WireCap = 1
  MaxDrops = 0
  MaxCrashes = 1
  MaxTimeouts = 0
  EditOnline = TRUE
  CanDelete = FALSE
  SameSecond = FALSE
SPECIFICATION Spec
INVARIANTS NoLostEdit QuietMeansAgreed
CHECK_DEADLOCK FALSE
