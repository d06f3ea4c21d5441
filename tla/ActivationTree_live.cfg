CONSTANTS
  NoSession = NoSession
  Sessions <- MCSessions
  Parent <- MCParent
  Existing = {}
  HumanTargets = {"root"}
  MaxPending = 9
  MaxRunning = 1
  Budget = 3
  Stops = FALSE
  Crashes = TRUE
SPECIFICATION FairSpec
CHECK_DEADLOCK FALSE
PROPERTIES
  WaitingSettles
  HumanInputIsTaken
