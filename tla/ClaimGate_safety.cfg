CONSTANTS
  None = None
  Registrations = {r1, r2}
  Claims = {c1, c2}
  Gates = {g1, g2, g3}
  Domains = {d1}
  Settlements = {d1}
  Agents = {a1, a2}
  Finishers = {f1, f2}
  Publishers = {p1}
  Overlap = FALSE
SPECIFICATION Spec
CHECK_DEADLOCK FALSE
SYMMETRY MCSymmetry
INVARIANTS
  TypeOK
  LeaseKeepsClaim
  NoMutationAcrossTerminal
  StoredTerminalIsInstalled
  UnclaimedIsQueued
  AdmissionIsRestored
