SPECIFICATION ProvidersSpec
CONSTANTS
    MaxRequests = 3
    MaxRoots = 1
    MaxMishaps = 1
    MaxChainRuns = 4
    MaxInterventions = 2
    MaxEdits = 1
    MaxTrouble = 2
INVARIANTS
    PlanInvariant
    InterventionInvariant
PROPERTIES
    PlansBindRoots
    PlansSettle
    PlanRewrittenByLaunchOnly
    InterventionSettles
CHECK_DEADLOCK FALSE
