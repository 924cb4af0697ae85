SPECIFICATION Spec
CONSTANTS
  Projects = {p1, p2}
  Scenarios = {A, B}
  Hashes = {h1, h2}
  Users = {u1}
  Handlers = {w1, w2}
  NoUser = NoUser
  Verdicts <- MCVerdicts
  MaxInstances = 2
  MaxVersions = 3
  MaxApprovals = 3
SYMMETRY Symmetry
INVARIANT InvalidationIsWhole
CHECK_DEADLOCK FALSE
