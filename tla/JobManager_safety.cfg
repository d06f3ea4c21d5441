CONSTANTS
  Jobs = {j1, j2}
  Consumers = {j1}
  MaxScopes = 2
  MaxProducers = 2
  Impatient = {1}
  Waits = {}
  MaxActive = 2
  MaxActiveScope = 1
  MaxRetained = 2
  MaxRetainedScope = 1
SPECIFICATION Spec
CHECK_DEADLOCK FALSE
INVARIANTS
  TypeOK
  NothingOutlivesItsGeneration
  ReportedUnlessAbandoned
  UncertaintyIsReported
PROPERTIES
  FinalReportIsNew
