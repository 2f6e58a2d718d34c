SPECIFICATION Spec
CONSTANTS
    t1 = t1
    t2 = t2
    Trades <- MCTrades
    Activation = Activation
    None = None
    Confirmations = 0
    MaxLength = 3
    MaxBlocks = 4
    CrashBound = 0
CHECK_DEADLOCK FALSE
INVARIANT ReorgSafe
