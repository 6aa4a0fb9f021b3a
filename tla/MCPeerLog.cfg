\* One chat whose rows stream to a desktop over a connection that is lost.
CONSTANTS
  Session = {a}
  MaxTurns = 1
  MaxRows = 2
  MaxUpsets = 1
  KeepRuns = 1
  MaxPending = 2
  BatchRows = 2
  MaxLosses = 2
SPECIFICATION PeerSpec
INVARIANTS Complete
PROPERTY Lands
CHECK_DEADLOCK FALSE
