SPECIFICATION Spec
CONSTANTS
    Tables = {t1}
    Keys = {k1, k2}
    Vals = {v1, v2}
    NoVal = NoVal
    NoPk = {}
    UniqueKeys = TRUE
    AppendFaults = FALSE
    RowNoMax = 4
    MaxRows = 4
SYMMETRY Symmetry
INVARIANTS
    DirectWritesFollowPending
    OneRowPerKey
PROPERTIES
    ImplementsSessionTables
