\* Two writes, two deliveries, one reload or failed replay; every flush may
\* run into any of them.
CONSTANTS
  Flusher = {worker}
  MaxWrites = 2
  MaxDeliveries = 2
  MaxUpsets = 1
SPECIFICATION Spec
INVARIANTS RefusesOnlyChanges
PROPERTIES NeverClobbers Settles
CHECK_DEADLOCK FALSE
