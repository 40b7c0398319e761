SPECIFICATION Spec
CONSTANTS
  i1 = i1
  i2 = i2
  p1 = p1
  p2 = p2
  b1 = b1
  b2 = b2
  f1 = f1
  f2 = f2
  Issues = {i1}
  Projects = {p1, p2}
  ProjectOf <- OneProject
  RawFsm = {}
  Batches = {b1}
  Firings = {}
  FiringProject <- FiringsApart
  GlobalCap = 2
  ProjectCap <- Cap2
  RetryCap = 1
  ContinuationCap = 1
  ProviderOutcomes = {"success", "transient"}
  Verdicts = {}
  MaxRuns = 3
  ShortPolls = FALSE
  Disturbances = {"fault", "crash", "edit"}
  MaxDisturbances = 1
INVARIANTS
  NoOrphanRow
  OneRunPerIssue
