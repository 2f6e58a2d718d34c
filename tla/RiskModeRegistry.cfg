SPECIFICATION Spec
CONSTANTS
    a1 = a1
    Zero = Zero
    Accounts = {a1}
    Tokens = {"usdc", "weth", "wbtc"}
    Positions = {"p"}
    Bps = 4
    MaxAssets = 3
    MaxTotalFee = 3
    MaxPriceAge = 2
    NonceBound = 3
    TradeValues = {0, 2}
    WeightRanges <- MCWeightRanges
    DefaultProtection <- MCProtection
    PriceProtections <- MCProtections
    Fees <- MCFees
    Settlements <- MCSettlements
    Watchtowers = {"w"}
    CertificateLimits <- MCCertificateLimits
    Lifetimes = {1}
    ClockLeads <- MCClockLeads
    TimeBound = 2
    CertificateBound = 2
    EpochBound = 3
INVARIANTS
    PortfolioAlwaysFeasible
    RiskInvariant
    EffectivePortfolioFeasible
PROPERTIES
    NonceIdentifiesPolicy
    InertCertificateStaysInert
    NoReturnToOlderCertificate
    ImplementsPolicyAuthority
CHECK_DEADLOCK FALSE
