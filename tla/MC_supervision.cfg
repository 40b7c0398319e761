SPECIFICATION SupervisionSpec
CONSTANTS
    Grace = 2
    Budget = 2
    MaxRun = 2
    MaxPass = 1
    MaxAttempts = 2
    MaxUnread = 2
    MaxUsage = 2
    MaxChurn = 1
    p1 = p1
    p2 = p2
    Passes = {p1, p2}
    MaxRuns = 3
    MaxDiscovery = 2
    MaxReviews = 1
    MaxHead = 2
    MaxReview = 1
    MaxOutages = 1
INVARIANTS
    SamplingInvariant
    FollowupInvariant
PROPERTIES
    RunsThatFallSilentEnd
    FollowupRespectsOwners
    DeferredClaimsComeBack
CHECK_DEADLOCK FALSE
