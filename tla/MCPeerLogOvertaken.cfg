\* Two chats: one logs a row while the marker of the other waits for its post.
CONSTANTS
  Session = {a, b}
  MaxTurns = 2
  MaxRows = 1
  MaxUpsets = 0
  KeepRuns = 1
  MaxPending = 2
  BatchRows = 2
  MaxLosses = 0
SPECIFICATION PeerSpec
INVARIANT MarkersLand
CHECK_DEADLOCK FALSE
