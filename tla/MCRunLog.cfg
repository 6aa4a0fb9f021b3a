\* Two chats log, end turns, pause, resume and are deleted; the worker is
\* reloaded, or the log ages, and retention trims it.
CONSTANTS
  Session = {a, b}
  MaxTurns = 3
  MaxRows = 3
  MaxUpsets = 1
  KeepRuns = 1
SYMMETRY Symmetry
SPECIFICATION LogSpec
INVARIANTS NumbersAreUnique TurnBounds PausedIsWhole
CHECK_DEADLOCK FALSE
