SPECIFICATION SideSpec
CONSTANTS
  Jobs = {j1, j2}
  Stating = {}
  Workers = {w1}
  NoJob = NoJob
  Analyses = {a1}
  MaxQueue = 2
  Plans = 1
  Scenarios = {A, B}
  MaxBatches = 2
  MaxStopped = 1
PROPERTIES
  JobSettles
  SlotsComeBack
  BatchEnds
CHECK_DEADLOCK FALSE
