SPECIFICATION Spec
CONSTANTS
  i1 = i1
  i2 = i2
  p1 = p1
  p2 = p2
  b1 = b1
  b2 = b2
  f1 = f1
  f2 = f2
  Issues = {i1}
  Projects = {p1, p2}
  ProjectOf <- OneProject
  RawFsm = {p1}
  Batches = {b1}
  Firings = {}
  FiringProject <- FiringsApart
  GlobalCap = 1
  ProjectCap <- Cap1
  RetryCap = 0
  ContinuationCap = 0
  ProviderOutcomes = {"success"}
  Verdicts = {"advance", "park", "terminal", "nomatch"}
  MaxRuns = 5
  ShortPolls = TRUE
  Disturbances = {"watchdog", "operator", "timeout"}
  MaxDisturbances = 2
INVARIANTS
    ParkedWalkIsAlone
    LabelsFollowTheAttempt
