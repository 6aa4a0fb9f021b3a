\* A user edits a file while the peer's bytes for it are applied.
CONSTANTS
  Replica = {1, 2}
  Link <- Pair
  Path = {a}
  MTime = {0}
  Seed = 1
  MaxContent = 3
  Empty = {}
  MaxClock = 20
  WireCap = 1
  MaxDrops = 0
  MaxCrashes = 0
  MaxTimeouts = 0
  EditOnline = TRUE
  CanDelete = FALSE
  SameSecond = FALSE
SPECIFICATION Spec
INVARIANTS NothingOverwritten JournalDescribesDisk
CHECK_DEADLOCK FALSE
