CONSTANTS
    Session = {s1, s2}
    Key = {1, 2}
    NoKey = NoKey
    Throws = Throws
    NoTxn = NoTxn
    Statement <- Statements2
    MaxRows = 2
    RowsPerPage = 1
    MaxStatements = 3
    MaxTxnId = 3
SPECIFICATION FairSpec
INVARIANTS
    ReadsCommitted
    ScanComplete
    LookupComplete
    CommittedIsLogged
PROPERTIES
    StatementEnds
CHECK_DEADLOCK FALSE
