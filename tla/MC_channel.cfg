CONSTANTS
    Transports = {"unix", "tcp"}
    OsFaults = TRUE
    Directives = {d}
    MaxConns = 3
    MaxFrames = 2
    MaxPending = 1
    InboxCap = 1
SPECIFICATION ChanSpec
INVARIANTS FramesInOrder
PROPERTIES DrainedBeforeLost ReadersExit EngineServed
CHECK_DEADLOCK FALSE
