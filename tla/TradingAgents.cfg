CONSTANTS
    p1 = p1
    p2 = p2
    c1 = c1
    c2 = c2
    None = None
    OwnerKey = OwnerKey
    Gone = Gone
    Processes <- MCProcesses
    Configurations <- MCConfigurations
    FaucetConfigurations <- MCFaucet
    Batches <- MCBatches
    GlobalMax = 1
    MaxSends = 2
    MaxRestarts = 1
    MaxInFlight = 2

SPECIFICATION Spec
SYMMETRY MCSymmetry

INVARIANT OneWalletPerOwner
INVARIANT CreditsAreKept
INVARIANT OnePending
CHECK_DEADLOCK FALSE
