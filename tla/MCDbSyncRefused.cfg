\* The state where a peer's dump is refused over a database at its baseline.
CONSTANTS
  Flusher = {worker}
  MaxWrites = 2
  MaxDeliveries = 2
  MaxUpsets = 1
SPECIFICATION Spec
PROPERTY CleanIsTaken
CHECK_DEADLOCK FALSE
