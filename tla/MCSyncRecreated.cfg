\* A file re-created after a delete that never met it.
CONSTANTS
  Replica = {1, 2}
  Link <- Pair
  Path = {a}
  MTime = {0}
  Seed = 1
  MaxContent = 3
  Empty = {}
  MaxClock = 20
  WireCap = 1
  MaxDrops = 0
  MaxCrashes = 0
  MaxTimeouts = 0
  EditOnline = FALSE
  CanDelete = TRUE
  SameSecond = FALSE
SPECIFICATION Spec
INVARIANTS QuietMeansAgreed
CHECK_DEADLOCK FALSE
