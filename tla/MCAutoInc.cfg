SPECIFICATION FairSpec
CONSTANTS
    Sessions = {s1, s2}
    NoSession = NoSession
    Nb = {1, 8}
    Increments = {1, 2}
    CacheSizes = {1, 3}
    Word = 16
    SeqMax = 5
    Attempts = 2
    MaxCalls = 2
CHECK_DEADLOCK FALSE
INVARIANTS
    ServerStaysInBlock
PROPERTY
    NoIdTwice
    EveryCallReturns
