SPECIFICATION Spec
CONSTANTS
  Projects = {p1}
  Scenarios = {A, B}
  Hashes = {h1, h2}
  Users = {u1}
  Handlers = {w1}
  NoUser = NoUser
  Verdicts <- MCVerdicts
  MaxInstances = 2
  MaxVersions = 3
  MaxApprovals = 2
SYMMETRY Symmetry
INVARIANTS
  ApprovedWins
CHECK_DEADLOCK FALSE
