SPECIFICATION PlanningSpec
CONSTANTS
  Capable = 8
  Supplies = {0, 1, 2, 3, 4}
  Instances <- MCInstances
  Repaired <- MCRepaired
  Cells <- MCCells
  NewSupplies = {0, 1, 2}
INVARIANTS
  AdmittedPasses
  ExcessIsPriced
  FewestSlots
  OnlyLiftedBroken
  ProofsAreRight
  RepairIsBest
CHECK_DEADLOCK FALSE
