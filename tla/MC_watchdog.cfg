SPECIFICATION Spec
CONSTANTS
  i1 = i1
  i2 = i2
  p1 = p1
  p2 = p2
  b1 = b1
  b2 = b2
  f1 = f1
  f2 = f2
  Issues = {i1}
  Projects = {p1, p2}
  ProjectOf <- OneProject
  RawFsm = {}
  Batches = {b1}
  Firings = {}
  FiringProject <- FiringsApart
  GlobalCap = 1
  ProjectCap <- Cap1
  RetryCap = 1
  ContinuationCap = 1
  ProviderOutcomes = {"success", "transient", "nochange"}
  Verdicts = {}
  MaxRuns = 4
  ShortPolls = TRUE
  Disturbances = {"operator", "watchdog", "timeout"}
  MaxDisturbances = 2
INVARIANTS
    CancelReachesProvider
    ContinuationsWithinCap
