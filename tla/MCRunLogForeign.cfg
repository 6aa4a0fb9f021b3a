\* The marker of a turn after another process wrote to the log.
CONSTANTS
  Session = {a, b}
  MaxTurns = 3
  MaxRows = 3
  MaxUpsets = 1
  KeepRuns = 1
SYMMETRY Symmetry
SPECIFICATION LogSpec
INVARIANT MarkersFit
CHECK_DEADLOCK FALSE
