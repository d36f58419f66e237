SPECIFICATION Spec
CONSTANTS
    Tables = {t1, t2}
    Keys = {k1, k2}
    Vals = {v1}
    NoVal = NoVal
    NoPk = {t2}
    UniqueKeys = TRUE
    AppendFaults = TRUE
    RowNoMax = 2
    MaxRows = 3
SYMMETRY Symmetry
VIEW WithoutReply
INVARIANTS
    BatchStateMatchesAppenders
    IdleSessionIsClean
PROPERTIES
    FailedStepKeepsView
