SPECIFICATION Spec
CONSTANTS
    col1 = col1
    col2 = col2
    col3 = col3
    int = int
    bigint = bigint
    lit1 = lit1
    lit2 = lit2
    lit3 = lit3
    expr = expr
    volatile = volatile
    seqexpr = seqexpr
    NoDefault = NoDefault
    Null = Null
    MaxParts = 2
    ColumnNames = {col1, col2, col3}
    Types = {int, bigint}
    Literals = {lit1, lit2, lit3}
    SortKey <- SortKeys
    MaxAlters = 2
    Exprs <- AllExprs
    ConstantExprs = {expr}
    SequenceExprs = {seqexpr}
    Definitions <- AllDefinitions
    Alters <- AllAlters
CHECK_DEADLOCK FALSE
INVARIANTS
    ColumnsAgree
    DefaultsAgree
