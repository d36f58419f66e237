CONSTANTS
    Queries <- UnionQueries
    Externals <- AllExternals
    Committed <- Rows
    Own <- OwnRows
    Layout <- Layouts
    NoCond = NoCond
    NoTable = NoTable
    VectorSize = 2
    MaxStatements = 2
SPECIFICATION Spec
INVARIANTS
    FilterIsOwn

