SPECIFICATION Spec
CONSTANTS
  Jobs = {j1, j2}
  Stating = {j1, j2}
  Workers = {w1, w2}
  NoJob = NoJob
  Analyses = {a1}
  MaxQueue = 2
  Plans = 1
INVARIANTS
  OneRunPerRevision
CHECK_DEADLOCK FALSE
