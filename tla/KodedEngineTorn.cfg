SPECIFICATION Spec
CONSTANTS
    v1 = v1
    v2 = v2
    Keys <- MCKeys
    Values <- MCValues
    Oversized <- MCNone
    NoValue = NoValue
    Absent = Absent
    FlushThreshold = 2
    MaxLog = 2
    MaxFaults = 3
    TornWrites = TRUE
    IOErrors = FALSE
    DeleteErrors = FALSE
INVARIANTS AcknowledgedWritesSurvive
