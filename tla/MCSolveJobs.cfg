SPECIFICATION Spec
CONSTANTS
  Jobs = {j1, j2}
  Stating = {}
  Workers = {w1, w2}
  NoJob = NoJob
  Analyses = {a1}
  MaxQueue = 1
  Plans = 2
SYMMETRY Symmetry
INVARIANTS
  SlotsAccounted
  JobsHeldOnce
  RecordedWhenReported
  NoIdleSlot
PROPERTIES
  ImplementsBoard
CHECK_DEADLOCK FALSE
