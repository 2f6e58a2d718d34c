SPECIFICATION SearchSpec
CONSTANTS
    Bps = 8
    Scale = 10
    MaxTotalFee = 4
    Problems <- MCProblems
INVARIANTS
    SearchInvariant
    MaximalForPairs
PROPERTIES
    SearchEnds
CHECK_DEADLOCK FALSE
