SPECIFICATION Spec
CONSTANTS
    v1 = v1
    v2 = v2
    Keys <- MCKeys
    Values <- MCValues
    Oversized <- MCBig
    NoValue = NoValue
    Absent = Absent
    FlushThreshold = 2
    MaxLog = 2
    MaxFaults = 2
    TornWrites = FALSE
    IOErrors = TRUE
    DeleteErrors = FALSE
PROPERTIES StoreSpec
