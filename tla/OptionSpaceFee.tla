--------------------------- MODULE OptionSpaceFee ---------------------------
(***************************************************************************)
(* contracts/src/libraries/OptionSpaceFee.sol: the fee of a fill, a base   *)
(* rate plus a premium that grows with the square of the utilization of a  *)
(* capacity epoch, averaged over the interval the fill moves through.      *)
(*                                                                         *)
(* The code splits its divisions into quotient and remainder parts only to *)
(* keep products within 256 bits; here they are single divisions.          *)
(***************************************************************************)
EXTENDS Integers

CONSTANTS
    Bps,           \* BASIS_POINTS, 10000 in the code
    Scale,         \* FIXED_POINT_SCALE, 10^18 in the code
    MaxTotalFee    \* MAXIMUM_TOTAL_FEE_BPS, 100 in the code

ASSUME FeeAssumption ==
    /\ Bps \in Nat \ {0}
    /\ Scale \in Nat \ {0}
    /\ MaxTotalFee \in 0 .. Bps

FeeConfig == [base : Nat, slope : Nat, maximum : Nat,
              treasuryBase : Nat, solver : Nat, protocol : Nat]

\* Fault: the slope is not counted.
FaultyValidFeeConfig(config) ==
    /\ config.base <= config.maximum
    /\ config.maximum <= MaxTotalFee
    /\ config.treasuryBase + config.solver + config.protocol = config.base

ValidFeeConfig(config) ==
    /\ config.base + config.slope <= config.maximum
    /\ config.maximum <= MaxTotalFee
    /\ config.treasuryBase + config.solver + config.protocol = config.base

FeeDenominator == Bps * Scale

CeilDiv(numerator, denominator) ==
    IF numerator = 0 THEN 0 ELSE (numerator - 1) \div denominator + 1

\* Fault: the premium where the interval ends instead of its average.
FaultyPremiumBps(slope, before, after) == CeilDiv(slope * (after * after), Scale)

\* The instantaneous premium is slope * u^2; this is its average over the interval,
\* rounded up.
PremiumBps(slope, before, after) ==
    CeilDiv(slope * (after * after + before * after + before * before), 3 * Scale)

FeeBps(config, before, after) ==
    config.base * Scale + PremiumBps(config.slope, before, after)

\* Where calculateFeeBps does not revert.
Chargeable(config, before, after) ==
    /\ ValidFeeConfig(config)
    /\ before <= after /\ after <= Scale
    /\ FeeBps(config, before, after) <= config.maximum * Scale

\* Fault: base fee and premium are rounded up apart.
FaultyTotalFee(value, config, before, after) ==
    CeilDiv(value * config.base * Scale, FeeDenominator)
        + CeilDiv(value * PremiumBps(config.slope, before, after), FeeDenominator)

\* The complete fee is rounded once.
TotalFee(value, config, before, after) ==
    CeilDiv(value * FeeBps(config, before, after), FeeDenominator)

BaseFee(value, config) == CeilDiv(value * (config.base * Scale), FeeDenominator)

\* A recipient's share of the base fee, rounded down.
Share(amount, bps, base) == IF base = 0 THEN 0 ELSE (amount * bps) \div base

\* What is not a solver's or the protocol's goes to the treasury.
Distribute(value, config, before, after) ==
    LET base     == BaseFee(value, config)
        total    == TotalFee(value, config, before, after)
        solver   == Share(base, config.solver, config.base)
        protocol == Share(base, config.protocol, config.base)
    IN  [base |-> base, premium |-> total - base, total |-> total,
         solver |-> solver, protocol |-> protocol, treasury |-> total - solver - protocol]
=============================================================================
