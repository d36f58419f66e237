SPECIFICATION Spec
CONSTANTS
    Tables = {t1, t2}
    Keys = {k1}
    Vals = {v1, v2}
    NoVal = NoVal
    NoPk = {t2}
    UniqueKeys = TRUE
    AppendFaults = FALSE
    RowNoMax = 4
    MaxRows = 4
PROPERTY
    WrittenRowIsKept
