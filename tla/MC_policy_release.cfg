CONSTANTS
    AXES <- MCAxes
    ENTER <- MCENTER
    EXIT <- MCEXIT
    ONE = 100
    B_MAX = 18
    B_MIN = 5
    Readings <- MCReadings
SPECIFICATION Spec
INVARIANT ReleasesOnlyWithHeadroom
