SPECIFICATION Spec
CONSTANTS
    Handlers = {h1, h2}
    None = None
    Proposals = {p1}
    Recoveries = {r1, r2}
    InputAmount <- MCInputAmount
    Budget = 2
    MaxTrades = 1
    GenerationBound = 1
SYMMETRY MCSymmetry
CHECK_DEADLOCK FALSE
PROPERTIES
    AmbiguousRecoveryBlocks
