CONSTANTS
  NoTurn = NoTurn
  Turns = {t1, t2, t3}
  ActivationTurns = {t3}
  MaxLog = 4
  MaxFlushFailures = 2
  MaxFaults = 1
  MaxCrashes = 1
SPECIFICATION Spec
CHECK_DEADLOCK FALSE
SYMMETRY DirectTurnSymmetry
INVARIANTS
  TypeOK
  AckedIsStored
  StoredTurnsAreTurns
  CancelledIffRequested
  TurnsRunInOrder
  StartedHasDurableIntent
  TokenIsDurable
  ClaimableIsQueued
PROPERTIES
  AppendOnly
