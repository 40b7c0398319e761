SPECIFICATION ServicesSpec
CONSTANTS
    MaxVersion = 2
    MaxWork = 1
    MaxCrashes = 1
    MaxIoFaults = 1
    MaxStops = 2
INVARIANTS
    UpdateInvariant
    FiringInvariant
PROPERTIES
    DrainClears
    FiringVerdictIsFinal
    FiringsEnd
CHECK_DEADLOCK FALSE
