CONSTANTS
  c1 = c1
  c2 = c2
  d1 = d1
  d2 = d2
  Creator = {c1}
  Desk = {d1}
  Severities = {"high"}
  MaxAnomalies = 1
SPECIFICATION Spec
INVARIANTS
  TriggeredAgain
