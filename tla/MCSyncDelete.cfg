\* Files are edited and deleted while the replicas are apart; a link drops, a pull times out.
CONSTANTS
  Replica = {1, 2}
  Link <- Pair
  Path = {a}
  MTime = {0}
  Seed = 0
  MaxContent = 2
  Empty = {}
  MaxClock = 20
  WireCap = 1
  MaxDrops = 1
  MaxCrashes = 0
  MaxTimeouts = 1
  EditOnline = FALSE
  CanDelete = TRUE
  SameSecond = FALSE
SPECIFICATION Spec
INVARIANTS JournalDescribesDisk
PROPERTIES TombstonesRespectNewerWrites
CHECK_DEADLOCK FALSE
