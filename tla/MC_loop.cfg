CONSTANTS
    AXES <- MCAxes
    ENTER <- MCENTER
    EXIT <- MCEXIT
    ONE = 100
    B_MAX = 18
    B_MIN = 5
    FALLBACK_ERROR_THRESHOLD = 3
    FALLBACK_BUDGET <- MCFALLBACK
    Signals <- MCSignals
    Ratios <- MCRatios
    VmMayFail = TRUE
SPECIFICATION Spec
INVARIANTS AppliedInForce LatchedAfterThree
PROPERTIES CalmFreesEngine PressureAnswered
