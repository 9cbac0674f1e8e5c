CONSTANTS
    Jobs <- MCTwoJobs
    Specs <- MCTwoSpecs
    LeaseAnswers <- MCAlways
    PanicSites <- MCBody
    BreakerTimesOut = FALSE
    LateReceiverNotices = TRUE
    TripAfter = 2
    SuccessThreshold = 1
    ConsecutiveRange = 4
    MaxAttempts = 0
SPECIFICATION SupSpec
INVARIANTS
    ReportComplete
    ReportExact
PROPERTIES
    ImplementsContract
