\* Known counterexample, not one of the runs: an older session that gets ready late disposes of
\* the newer one that replaced it.
CONSTANTS
  MaxGens = 1
  MaxFaults = 0
  MaxNotices = 1
  Doubling = {}
  MaxChannels = 3
  MaxEvents = 1
SPECIFICATION LinkSpec
PROPERTY WorkingLinksStay
CHECK_DEADLOCK FALSE
