CONSTANTS
    Missing = Missing
    Texts <- MCTexts
    Environments = {"unset", "blank", "/dev/null", "a path"}
    Threshold = 2
    MaxChanges = 3
SPECIFICATION FairSpec
INVARIANT
    AtMostOneCallBehind
PROPERTIES
    PersistentPressureReported
    StopsOnShutdown
