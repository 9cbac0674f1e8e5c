CONSTANTS
    l1 = l1
    l2 = l2
    l3 = l3
    Loops <- MCLoops
    failure_budget = 2
    MaxAttempts = 6
SYMMETRY MCSymmetry
SPECIFICATION Spec
INVARIANTS
    NothingLost
    HookPerTransition
    FlagMatchesBudget
