SPECIFICATION Spec
CONSTANTS
    c1 = c1
    c2 = c2
    t1 = t1
    t2 = t2
    id = id
    val = val
    Clients <- MCClients
    Tables <- MCOneTable
    Columns <- MCColumns
    PrimaryKey = id
    Data <- MCData
    NoRow = NoRow
    Statements <- MCUpdates
    MaxRestarts = 1
PROPERTIES UpdateTouchesOnlyItsColumn
