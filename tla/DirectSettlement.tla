-------------------------- MODULE DirectSettlement --------------------------
(***************************************************************************)
(* contracts/src/libraries/DirectSettlement.sol and the parts of           *)
(* PortfolioBounds.sol it rests on: the portfolio after a fill, whether    *)
(* it is within the bounds, and the fill a settlement executes.            *)
(*                                                                         *)
(* Values are whole value units (SETTLEMENT_VALUE_DECIMALS is 0).  A       *)
(* search, as in SearchParams, is a record of the portfolio's values and   *)
(* bounds, the two tokens, the capacity epoch's baseline and consumption   *)
(* and the fee configuration.                                              *)
(***************************************************************************)
EXTENDS OptionSpaceFee, Functions

----------------------------------------------------------------------------
(* PortfolioBounds.                                                        *)

BpsOfDown(total, bps) == (total * bps) \div Bps
BpsOfUp(total, bps)   == CeilDiv(total * bps, Bps)

Nav(values) == SumFunction(values)

\* Fault: the minimum weights are rounded down too.
FaultyWithinBounds(values, bounds) ==
    LET nav == Nav(values)
    IN  /\ nav > 0
        /\ \A t \in DOMAIN values :
              values[t] \in BpsOfDown(nav, bounds[t].min) .. BpsOfDown(nav, bounds[t].max)

\* The bounds themselves need no check here: values that meet them show that they
\* can be met.  An empty portfolio (NavIsZero) reverts.
WithinBounds(values, bounds) ==
    LET nav == Nav(values)
    IN  /\ nav > 0
        /\ \A t \in DOMAIN values :
              values[t] \in BpsOfUp(nav, bounds[t].min) .. BpsOfDown(nav, bounds[t].max)

----------------------------------------------------------------------------
(* DirectSettlement.                                                       *)

Utilization(consumed, capacity) ==
    IF capacity = 0
    THEN IF consumed = 0 THEN 0 ELSE Scale
    ELSE (consumed * Scale) \div capacity

FillFees(search, fill) ==
    Distribute(fill, search.fee,
               Utilization(search.consumed, search.baseline),
               Utilization(search.consumed + fill, search.baseline))

\* Gross output leaves the treasury, its fee revenue stays.
PreviewFeeInclusiveTrade(search, fill) ==
    [search.values EXCEPT
        ![search.input]  = @ + fill,
        ![search.output] = @ - fill + FillFees(search, fill).treasury]

IsSafe(search, fill) ==
    /\ FillFees(search, fill).total <= fill
    /\ WithinBounds(PreviewFeeInclusiveTrade(search, fill), search.bounds)

Least(S) == CHOOSE x \in S : \A y \in S : x <= y

\* Fault: the search ignores what the epoch has already given.
FaultySearchLimit(search, requested, maximum) ==
    Least({requested, maximum, search.baseline, search.values[search.output]})

\* Where the bisection starts from above.
SearchLimit(search, requested, maximum) ==
    Least({requested, maximum, search.baseline - search.consumed,
           search.values[search.output]})

\* What the bisection returns: a safe fill whose successor is unsafe or beyond the
\* limit (SafeFillSearch shows it).  With three assets or more a larger safe fill
\* may exist.
IsFill(search, requested, maximum, fill) ==
    LET limit == SearchLimit(search, requested, maximum)
    IN  /\ fill \in 0 .. limit
        /\ IsSafe(search, fill)
        /\ fill < limit => ~IsSafe(search, fill + 1)
=============================================================================
