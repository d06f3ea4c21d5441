CONSTANTS
  Jobs = {j1, j2}
  Consumers = {j1}
  MaxScopes = 2
  MaxProducers = 1
  Impatient = {1, 2}
  Waits = {}
  MaxActive = 1
  MaxActiveScope = 1
  MaxRetained = 1
  MaxRetainedScope = 1
SPECIFICATION Spec
CHECK_DEADLOCK FALSE
INVARIANTS
  EvictedWasReported
