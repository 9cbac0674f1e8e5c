CONSTANTS
    v1 = v1
    v2 = v2
    Specs <- MCSpecs
    NameChars <- MCChars
    NAME_MAX_LEN = 2
    Values <- MCValues
    MaxCalls = 5
SYMMETRY MCSymmetry
SPECIFICATION Spec
INVARIANTS
    RunsTheSoundJobs
