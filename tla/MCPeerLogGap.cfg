\* A connection comes up while rows of the turn are logged but not on disk.
CONSTANTS
  Session = {a}
  MaxTurns = 1
  MaxRows = 2
  MaxUpsets = 0
  KeepRuns = 1
  MaxPending = 2
  BatchRows = 2
  MaxLosses = 0
SPECIFICATION PeerSpec
INVARIANT CompleteAlways
CHECK_DEADLOCK FALSE
