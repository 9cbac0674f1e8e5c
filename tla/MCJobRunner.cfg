CONSTANTS
    Jobs = {j1}
    Specs <- MCSpecs
    LeaseAnswers <- MCLeaseAnswers
    PanicSites <- MCPanicSites
    BreakerTimesOut = TRUE
    LateReceiverNotices = TRUE
    TripAfter = 2
    SuccessThreshold = 2
    ConsecutiveRange = 3
    MaxAttempts = 4
SPECIFICATION Spec
INVARIANTS
    CountersMatchHistory
    BudgetMatchesHistory
    HookOncePerDegradation
    LatestErrorKept
    EveryCallCounted
    BreakerSeesTheFailures
PROPERTY
    DrainPassIsLast
