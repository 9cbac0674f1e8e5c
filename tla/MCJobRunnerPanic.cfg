CONSTANTS
    Jobs = {j1}
    Specs <- MCPlainSpecs
    LeaseAnswers <- MCLeaseAnswers
    PanicSites <- MCPanicSites
    BreakerTimesOut = FALSE
    LateReceiverNotices = TRUE
    TripAfter = 2
    SuccessThreshold = 2
    ConsecutiveRange = 3
    MaxAttempts = 2
SPECIFICATION Spec
INVARIANT LoopsOutlivePanics
