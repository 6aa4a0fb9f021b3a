\* The state where the hash that a deferred replay keeps is not that of the database: two
\* deliveries wait while the first replay reads the file of both, a turn begins, a third comes.
CONSTANTS
  Flusher = {worker}
  MaxWrites = 0
  MaxDeliveries = 3
  MaxUpsets = 0
SPECIFICATION Spec
INVARIANT EarliestMatches
CHECK_DEADLOCK FALSE
