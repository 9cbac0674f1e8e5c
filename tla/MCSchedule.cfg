CONSTANTS
    Triggers <- MCTriggers
    FractionNum = 1
    FractionDen = 2
    Park = 3
    LastInstant = 40
    ClockSteps <- MCSteps
    Horizon = 10
    MaxSkew = 4
SPECIFICATION Spec
INVARIANTS
    NeverStacked
    SleepBounded
    NoDrift
    NeverEarly
    OnlyHugeIntervalsUnwind
