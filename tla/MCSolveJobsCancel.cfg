SPECIFICATION Spec
CONSTANTS
  Jobs = {j1}
  Stating = {}
  Workers = {w1, w2}
  NoJob = NoJob
  Analyses = {a1}
  MaxQueue = 1
  Plans = 2
INVARIANTS
  CancelKeepsPlans
CHECK_DEADLOCK FALSE
