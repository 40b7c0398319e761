SPECIFICATION EstateSpec
CONSTANTS
    Issues = {a}
    MaxRuns = 3
    MaxCommits = 2
    MaxTroubles = 1
    NumFiles = 2
    Hosts = {p}
    RoutineNames = {m, n}
    MaxEdits = 2
    MaxRestarts = 1
PROPERTY
    AdoptionKeepsCommits
CHECK_DEADLOCK FALSE
