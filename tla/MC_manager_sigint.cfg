CONSTANTS
    AXES <- MCAxes
    ENTER <- MCENTER
    EXIT <- MCEXIT
    ONE = 100
    B_MAX = 18
    B_MIN = 5
    FALLBACK_ERROR_THRESHOLD = 3
    FALLBACK_BUDGET <- MCFALLBACK
    Transports = {"tcp"}
    OsFaults = FALSE
    Directives <- MCDirectives
    MaxConns = 1
    MaxFrames = 1
    MaxPending = 1
    InboxCap = 1
    Monitors = {memory}
    SignalsOf <- MCPressing
    InitialSignals <- MCInitialSignals
    MaxQueue = 1
    Cooldown = 1
    VmMayFail = FALSE
    MayReload = FALSE
    EngineMayFail = FALSE
SPECIFICATION Spec
PROPERTY ShutdownEndsWait
CHECK_DEADLOCK FALSE
