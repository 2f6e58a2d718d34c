SPECIFICATION Spec
CONSTANTS
    t1 = t1
    t2 = t2
    Trades <- MCTrades
    Activation = Activation
    None = None
    Confirmations = 0
    MaxLength = 4
    MaxBlocks = 5
    CrashBound = 1
CHECK_DEADLOCK FALSE
INVARIANTS
    IndexMatchesChain
    ProjectionIsReplay
PROPERTIES
    SyncEnds
