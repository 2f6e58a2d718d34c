SPECIFICATION Spec
CONSTANTS
    Handlers = {h1, h2}
    None = None
    Proposals = {p1, p2}
    Recoveries = {r1}
    InputAmount <- MCInputAmount
    Budget = 2
    MaxTrades = 2
    GenerationBound = 1
SYMMETRY MCSymmetry
CHECK_DEADLOCK FALSE
INVARIANTS
    BudgetMatchesTrades
    SentIsAccounted
    StopIsFinal
    OneUsesWallet
    QueueIsLive
    NoTradeDuringRecovery
    RecoveredOnce
PROPERTIES
    KeepsBudget
