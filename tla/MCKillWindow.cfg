\* Two killers (KILL and the max_statement_time timer), three statements.
CONSTANTS
    Killers = {k1, k2}
    NoKiller = NoKiller
    MaxStmts = 3
    MaxKills = 3
SPECIFICATION FairSpec
INVARIANTS
    CommitNeverInterrupted
    OnlyKilledSelectIsInterrupted
    KillReachesQuery
    KillUsesLiveContext
PROPERTY
    KilledSelectEnds
CHECK_DEADLOCK FALSE
