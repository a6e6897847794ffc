SPECIFICATION Spec
CONSTANTS
    MaxSessions = 2
    MaxChunks = 2
    Window = 3
    Threshold = 2
    Duplicates = FALSE
    NoContext = NoContext
INVARIANTS AckedIsAlwaysHeld
CHECK_DEADLOCK FALSE
