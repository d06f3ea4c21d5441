CONSTANTS
  NoSession = NoSession
  Sessions <- MCSessions
  Parent <- MCParent
  Existing = {"root", "child"}
  HumanTargets = {"root", "child", "grand"}
  MaxPending = 2
  MaxRunning = 1
  Budget = 3
  Stops = TRUE
  Crashes = TRUE
SPECIFICATION Spec
CHECK_DEADLOCK FALSE
INVARIANTS
  TypeOK
  NestedActivations
  NoStrandedInput
  CompletionsHaveRoom
PROPERTIES
  PausedNeverStarts
