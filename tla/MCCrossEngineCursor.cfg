CONSTANTS
    Queries <- LimitQueries
    Externals <- AllExternals
    Committed <- Rows
    Own <- OwnRows
    Layout <- Layouts
    NoCond = NoCond
    NoTable = NoTable
    VectorSize = 2
    MaxStatements = 1
SPECIFICATION Spec
INVARIANTS
    HandlerScansAreEnded

CHECK_DEADLOCK FALSE
