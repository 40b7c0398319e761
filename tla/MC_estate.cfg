SPECIFICATION EstateSpec
CONSTANTS
    Issues = {a}
    MaxRuns = 2
    MaxCommits = 2
    MaxTroubles = 1
    NumFiles = 2
    Hosts = {p}
    RoutineNames = {m, n}
    MaxEdits = 2
    MaxRestarts = 1
INVARIANTS
    WorkspaceInvariant
    ReloadInvariant
PROPERTIES
    WorktreesAndCommitsStay
    EditsTakeEffectInOrder
CHECK_DEADLOCK FALSE
