SPECIFICATION CapacitySpec
CONSTANTS
  i1 = i1
  i2 = i2
  p1 = p1
  p2 = p2
  b1 = b1
  b2 = b2
  f1 = f1
  f2 = f2
  Issues = {i1, i2}
  Projects = {p1, p2}
  ProjectOf <- OneProject
  RawFsm = {}
  Batches = {b1, b2}
  Firings = {f1, f2}
  FiringProject <- FiringsApart
  GlobalCap = 2
  ProjectCap <- Cap1
  RetryCap = 0
  ContinuationCap = 0
  ProviderOutcomes = {"success"}
  Verdicts = {}
  MaxRuns = 3
  ShortPolls = TRUE
  Disturbances = {}
  MaxDisturbances = 0
  Scoped = {"codex"}
  MaxAttempts = 2
  MaxOutputs = 1
  MaxQueued = 1
  MaxFaults = 1
INVARIANTS
    SlotsWithinCaps
    ProcessInvariant
PROPERTIES
    ImplementsSlotRegistry
    CancelEnds
