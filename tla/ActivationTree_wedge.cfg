CONSTANTS
  NoSession = NoSession
  Sessions <- MCSessions
  Parent <- MCParent
  Existing = {"root", "child", "grand"}
  HumanTargets = {"root", "child", "grand"}
  MaxPending = 9
  MaxRunning = 2
  Budget = 2
  Stops = FALSE
  Crashes = FALSE
SPECIFICATION FairSpec
CHECK_DEADLOCK FALSE
PROPERTIES
  HumanInputIsTaken
