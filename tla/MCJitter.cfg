CONSTANTS
    Width = 4
    Gamma = 9
    Mul1 = 13
    Mul2 = 11
    Shift1 = 2
    Shift2 = 1
    Shift3 = 3
    BitXor <- MCXor
    Loops <- MCLoops
    Seeds <- MCSeeds
    Clocks <- MCClocks
    Hashes <- MCHashes
    Gaps <- MCGaps
    DurationMax = 70
    Fractions <- MCFractions
SPECIFICATION Spec
INVARIANTS
    DelayWithinWindow
    ClampedNeverPanics
    EveryDelayDrawn
    NeverInStep
CHECK_DEADLOCK FALSE
