SPECIFICATION Spec
CONSTANTS
    Bps = 4
    Scale = 6
    MaxTotalFee = 2
    Tokens = {"usdc", "weth"}
    Unit = 2
    Price <- MCPrice
    Terms <- MCTerms
    HardPolicies <- MCHardPolicies
    CertifiedLimits <- MCCertifiedLimits
    Fundings <- MCFundings
    Claims <- MCClaims
    Amounts <- MCAmounts
    Intents <- MCIntents
    NonceBound = 2
    CertificateBound = 1
    RoundBound = 2
    TimeBound = 1
INVARIANTS
    RouterInvariant
    CapacityMatchesFlow
    SettledOnce
PROPERTIES
    SettlesUnderLimitsOfItsEpoch
    SettlesSafely
CHECK_DEADLOCK FALSE
