CONSTANTS
    Queries <- SimpleQueries
    Externals <- AllExternals
    Committed <- Rows
    Own <- OwnRows
    Layout <- Layouts
    NoCond = NoCond
    NoTable = NoTable
    VectorSize = 2
    MaxStatements = 3
SPECIFICATION FairSpec
INVARIANTS
    RegistryNamesOpenTables
    BindsOwnTables
    ResultsAreExact
PROPERTY
    StatementEnds
CHECK_DEADLOCK FALSE
