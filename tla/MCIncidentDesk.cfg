CONSTANTS
  c1 = c1
  c2 = c2
  d1 = d1
  d2 = d2
  Creator = {c1, c2}
  Desk = {d1, d2}
  Severities = {"high", "low"}
  MaxAnomalies = 1
SPECIFICATION Spec
SYMMETRY Alike
INVARIANTS
  TypeOK
  OneAlertPerAnomaly
  StatusHasItsTime
  StatsBounded
