SPECIFICATION CatalogSpec
CONSTANTS
    Names = {t1, t2, t3}
    Starts = {1, 2}
    MaxId = 3
    MaxDdl = 5
    None = None
SYMMETRY Symmetry
CHECK_DEADLOCK FALSE
INVARIANTS
    DictionaryAgrees
    OneCounterPerTable
    NoOrphanSequence
    IdsUniqueUnlessRenamed
    DroppedDatabaseIsGone
