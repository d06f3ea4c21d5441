CONSTANTS
  NoTurn = NoTurn
  Turns = {t1, t2}
  ActivationTurns = {t2}
  MaxLog = 3
  MaxFlushFailures = 2
  MaxFaults = 2
  MaxCrashes = 1
SPECIFICATION FairSpec
CHECK_DEADLOCK FALSE
PROPERTIES
  SuffixDrains
  AdmissionIsReleased
  ImplementsLedger
