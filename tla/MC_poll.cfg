SPECIFICATION SchedulingSpec
CONSTANTS
    Configs <- TwoConfigs
    Issues = {1}
    MaxChanges = 1
    Order <- ThreeProjects
    Weight <- UnequalWeights
    Batches = {b1, b2}
    MaxSelections = 5
INVARIANTS
    PollInvariant
    PickerInvariant
PROPERTIES
    PublicationKeepsWhatIsKnown
CHECK_DEADLOCK FALSE
