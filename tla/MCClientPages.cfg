SPECIFICATION Spec
CONSTANTS
  Scenarios = {a, b}
  MaxBatches = 2
  MaxStopped = 1
  People = {1, 2}
  Self = 1
  MaxChanges = 2
  MaxSessions = 2
  Planners = {1, 2}
  Nobody = 0
  Slots = {1, 2}
  MaxPicked = 3
  MaxMade = 2
  MaxLate = 1
  PageLimit = 2
  MaxProjects = 7
  MaxPlans = 2
  MaxSaves = 2
  Plans <- MCPlans
  Horizon = 3
  PageSize = 2
  Windows = {1, 2}
  Projects = {p1, p2}
  None = None
  MaxHandlers = 2
  MaxTasks = 2
  MaxWizards = 2
  MaxJobs = 1
INVARIANTS
  EndedAsReported
  PhotosFresh
  ShownWasSaved
  IndexInOrder
  OnePlanShown
  EveryAccessShown
  BootstrapsOnce
  ProjectAgrees
  ReviewFollowsRun
CHECK_DEADLOCK FALSE
