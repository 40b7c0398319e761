SPECIFICATION PartsSpec
CONSTANTS
    Targets = {p1, p2}
    Policies <- SkipNoOverlap
    Schedules <- CronOrOneShot
    Period = 1
    Horizon = 1
    MaxNow = 2
    MaxFirings = 2
    Edited = {p1}
    MaxFaults = 1
INVARIANTS
    RoutineInvariant
PROPERTIES
    EventsAreAccountedFor
CHECK_DEADLOCK FALSE
