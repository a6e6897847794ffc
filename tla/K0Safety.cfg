SPECIFICATION FairSpec
CONSTANTS
    MaxSessions = 2
    MaxChunks = 2
    Window = 3
    Threshold = 2
    Duplicates = TRUE
    NoContext = NoContext
INVARIANTS TypeOK InOrder AckedIsHeld NeverRefuses
PROPERTIES EveryChunkArrives
