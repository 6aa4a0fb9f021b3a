\* Users edit while rounds run; everything settles.
CONSTANTS
  Replica = {1, 2}
  Link <- Pair
  Path = {a}
  MTime = {0, 1}
  Seed = 1
  MaxContent = 2
  Empty = {}
  MaxClock = 20
  WireCap = 1
  MaxDrops = 0
  MaxCrashes = 0
  MaxTimeouts = 0
  EditOnline = TRUE
  CanDelete = FALSE
  SameSecond = FALSE
SPECIFICATION FairSpec
PROPERTY Converges
CHECK_DEADLOCK FALSE
