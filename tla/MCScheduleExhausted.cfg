CONSTANTS
    Triggers <- MCExhausted
    FractionNum = 0
    FractionDen = 1
    Park = 3
    LastInstant = 40
    ClockSteps <- MCSteady
    Horizon = 9
    MaxSkew = 0
SPECIFICATION Spec
INVARIANT OnlyScheduledFires
