SPECIFICATION Spec
CONSTANTS
    Keys <- MCKeys
    Values <- MCValues
    Inputs <- MCInputs
    NoValue = NoValue
    Order = 2
    LeafRoom = 7
    InternalRoom = 100
    MaxPages = 8
    MaxFaults = 2
    IOErrors = TRUE
INVARIANTS TypeOK KeepsEveryKey ScanAgreesWithGet StaysBalanced
