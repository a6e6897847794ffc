SPECIFICATION FairSpec
CONSTANTS
    c1 = c1
    c2 = c2
    t1 = t1
    t2 = t2
    id = id
    val = val
    Clients <- MCClients
    Tables <- MCTables
    Columns <- MCColumns
    PrimaryKey = id
    Data <- MCData
    NoRow = NoRow
    Statements <- MCStatements
    MaxRestarts = 1
INVARIANTS TypeOK 
PROPERTIES AloneIsAtomic EveryStatementAnswers
