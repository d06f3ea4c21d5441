CONSTANTS
  EffectIds = {e1, e2, e3}
  NoEffect = NoEffect
  CallIds = {c1, c2}
  ToolNames <- MCToolNames
  Role <- MCRole
  ParallelSafe = {"read"}
  ApplicationTools = {"app"}
  ReportTool = "report"
  MaxOutstanding = 2
  MaxSteps = 2
  MaxModels = 1
  MaxOrdinal = 2
SPECIFICATION Spec
SYMMETRY IdSymmetry
CHECK_DEADLOCK FALSE
INVARIANTS
  TypeOK
  OverlapIsDeclared
  CallsAreUsedOnce
  ConclusionIsLast
  EveryTurnCanClose
