CONSTANTS
  Jobs = {j1, j2}
  Consumers = {j1}
  MaxScopes = 1
  MaxProducers = 1
  Impatient = {}
  Waits = {"producer", "all"}
  MaxActive = 2
  MaxActiveScope = 2
  MaxRetained = 2
  MaxRetainedScope = 2
SPECIFICATION FairSpec
CHECK_DEADLOCK FALSE
PROPERTIES
  WaitsEnd
