CONSTANTS
  None = None
  Registrations = {r1}
  Claims = {c1}
  Gates = {g1, g2}
  Domains = {d1}
  Settlements = {d1}
  Agents = {a1}
  Finishers = {f1, f2}
  Publishers = {p1}
  Overlap = FALSE
SPECIFICATION FairSpec
CHECK_DEADLOCK FALSE
PROPERTIES
  RetiringClaimClears
  DrainEnds
