CONSTANTS
    Jobs <- MCOneJob
    Specs <- MCEverySpec
    LeaseAnswers <- MCSometimes
    PanicSites <- MCEverySite
    BreakerTimesOut = FALSE
    LateReceiverNotices = FALSE
    TripAfter = 2
    SuccessThreshold = 1
    ConsecutiveRange = 4
    MaxAttempts = 1
SPECIFICATION FairSupSpec

    
PROPERTIES
    RunReturns
    StragglersEnd
