SPECIFICATION Spec
CONSTANTS
    Bps = 20
    Scale = 100
    MaxTotalFee = 10
    FeeConfigs <- MCFeeConfigs
    Baselines = {7, 12, 33}
INVARIANTS
    FeesReconcile
    FeeNeverBlocks
    SplittingSavesOnlyRounding
    SplittingCostsOnlyRounding
CHECK_DEADLOCK FALSE
