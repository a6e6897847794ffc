SPECIFICATION Spec
CONSTANTS
    Keys <- MCKeys
    Values <- MCValues
    Inputs <- MCInputs
    NoValue = NoValue
    Order = 2
    LeafRoom = 100
    InternalRoom = 100
    MaxPages = 9
    MaxFaults = 1
    IOErrors = FALSE
INVARIANTS NeverLosesKeys
