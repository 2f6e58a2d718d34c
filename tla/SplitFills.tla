----------------------------- MODULE SplitFills -----------------------------
(***************************************************************************)
(* One capacity epoch taken in any number of fills: what the trader pays   *)
(* in fees, against what one fill of the same total would have cost.  The  *)
(* fills are those of contracts/src/AurkaSepoliaSwapVMRouter.sol, the fees *)
(* those of OptionSpaceFee.sol; nothing else of a settlement matters here. *)
(***************************************************************************)
EXTENDS DirectSettlement

CONSTANTS
    FeeConfigs,    \* inputs: fee configurations, valid or not
    Baselines      \* inputs: capacity baselines

ASSUME SplitAssumption ==
    /\ FeeConfigs \subseteq FeeConfig
    /\ Baselines \subseteq Nat \ {0}

VARIABLES
    fee,         \* the policy's fee configuration
    baseline,    \* capacityBaselineValue
    consumed,    \* consumedValue
    paid,        \* history: the fees paid in the epoch
    fills,       \* history: how many fills paid them
    last         \* history: value and fees of the last fill

vars == <<fee, baseline, consumed, paid, fills, last>>

EpochFees(from, value) ==
    FillFees([fee |-> fee, baseline |-> baseline, consumed |-> from], value)

\* The registry stores valid fees only.
Init ==
    /\ fee \in {c \in FeeConfigs : ValidFeeConfig(c)}
    /\ baseline \in Baselines
    /\ consumed = 0 /\ paid = 0 /\ fills = 0
    /\ last = [value |-> 0, fees |-> EpochFees(0, 0)]

UtilizationAt(amount) == Utilization(amount, baseline)

Fill(value) ==
    /\ consumed + value <= baseline
    /\ Chargeable(fee, UtilizationAt(consumed), UtilizationAt(consumed + value))
    /\ consumed' = consumed + value
    /\ paid' = paid + EpochFees(consumed, value).total
    /\ fills' = fills + 1
    /\ last' = [value |-> value, fees |-> EpochFees(consumed, value)]
    /\ UNCHANGED <<fee, baseline>>

Next == \E value \in 1 .. baseline : Fill(value)

Spec == Init /\ [][Next]_vars

----------------------------------------------------------------------------
(* Properties.                                                             *)

\* The fee of a fill never exceeds the fill, its three shares add up to it, and none is
\* negative (an unsigned subtraction would revert the settlement).
FeesReconcile ==
    LET fees == last.fees
    IN  /\ fees.total <= last.value
        /\ {fees.base, fees.premium, fees.total, fees.solver, fees.protocol, fees.treasury}
              \subseteq Nat
        /\ fees.solver + fees.protocol + fees.treasury = fees.total
        /\ fees.total * Bps <= last.value * fee.maximum + Bps

\* A valid configuration can charge every fill the epoch has room for: rounding never
\* lifts a fee over the cap, which would block the rest of the epoch.
FeeNeverBlocks ==
    \A value \in 1 .. baseline - consumed :
        Chargeable(fee, UtilizationAt(consumed), UtilizationAt(consumed + value))

OneFill == EpochFees(0, consumed).total

\* What the rounding of utilizations and rates may amount to over an epoch: one unit
\* while three baselines fit in the scale, as they do in 10^18 for every real one.
Rounding == CeilDiv(3 * baseline, Scale)

\* However an order is split, the fills together cost what one fill of the total costs,
\* or less by rounding alone.  A unit can be saved: of 810,000 units with a slope of 100,
\* a third and then the rest cost 2700 and the whole 2701 (the test
\* testSplitPremiumIsNotMateriallyCheaper tries two halves of one configuration, where
\* nothing is saved).
SplittingSavesOnlyRounding == OneFill <= paid + Rounding

\* Nor do they cost more than one unit for each fill beyond it.
SplittingCostsOnlyRounding == paid + 1 <= OneFill + fills + Rounding \/ fills = 0
=============================================================================
