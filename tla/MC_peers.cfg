CONSTANTS
    Scripts <- MCScripts
    Occupancies = {4, 40}
    MaxHeartbeats = 3
SPECIFICATION PeersSpec
INVARIANTS MismatchIsLate InStep CleanRunConclusive
PROPERTIES PeersEnd
CHECK_DEADLOCK FALSE
