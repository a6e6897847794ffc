SPECIFICATION FairSpec
CONSTANTS
    v1 = v1
    v2 = v2
    Keys <- MCKeys
    Values <- MCOne
    Oversized <- MCNone
    NoValue = NoValue
    Absent = Absent
    FlushThreshold = 2
    MaxLog = 2
    MaxFaults = 2
    TornWrites = TRUE
    IOErrors = TRUE
    DeleteErrors = FALSE
INVARIANTS TypeOK Durable
PROPERTIES Reopens
