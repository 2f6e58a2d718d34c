---------------------------- MODULE FillsProofs ----------------------------
(***************************************************************************)
(* Fills and their fees.  What an epoch's fees satisfy for every scale,    *)
(* every valid fee configuration, every baseline and every way to fill it; *)
(* and that the bisection of _solve returns what IsFill describes, for     *)
(* every portfolio, bounds, epoch and fee configuration.  Neither system   *)
(* has to do with the other but for the fees.                              *)
(***************************************************************************)
EXTENDS SplitFills, SafeFillSearch, DirectSettlementProofs

----------------------------------------------------------------------------
(* The fees of a fill.                                                     *)

\* Rounding a fee up adds less than one unit to the capped rate.
LEMMA FeeNearCap ==
    ASSUME NEW value \in Nat, NEW config \in FeeConfig,
           NEW before \in 0 .. Scale, NEW after \in 0 .. Scale,
           Chargeable(config, before, after)
    PROVE  TotalFee(value, config, before, after) * Bps <= value * config.maximum + Bps
<1> DEFINE rate  == FeeBps(config, before, after)
           n     == value * rate
           total == TotalFee(value, config, before, after)
           cap   == value * config.maximum
<1>1. /\ Scale \in Nat \ {0} /\ Bps \in Nat \ {0} /\ config.maximum \in Nat
      /\ FeeDenominator = Bps * Scale /\ FeeDenominator \in Nat \ {0}
  BY FeeAssumption, RateBounds DEF FeeConfig, FeeDenominator
<1>2. rate \in Nat /\ rate <= config.maximum * Scale
  <2>1. config.base * Scale \in Nat /\ rate \in config.base * Scale .. FeeDenominator
    BY RateBounds
  <2> QED BY <1>1, <2>1 DEF Chargeable
<1>3. n \in Nat /\ n <= Scale * cap /\ cap \in Nat
  <2>1. config.maximum * Scale \in Nat
    BY <1>1
  <2>2. value * rate <= value * (config.maximum * Scale)
    BY <1>2, <2>1, TimesMonotone
  <2>3. value * (config.maximum * Scale) = Scale * (value * config.maximum)
    BY <1>1
  <2> QED BY <1>1, <1>2, <2>2, <2>3
<1>4. total = CeilDiv(n, FeeDenominator)
  BY DEF TotalFee
<1> HIDE DEF rate, n, total, cap
<1>5. total \in Nat /\ \A k \in Nat : n <= FeeDenominator * k => total <= k
  BY <1>1, <1>3, <1>4, CeilDivBounds
<1>6. Bps * total <= cap + Bps
  <2>1. CASE total = 0
    BY <1>1, <1>3, <2>1
  <2>2. CASE total > 0
    <3> DEFINE k == total - 1
    <3>1. k \in Nat /\ ~(total <= k)
      BY <1>5, <2>2
    <3>2. FeeDenominator * k < n
      <4> HIDE DEF k
      <4>1. FeeDenominator * k \in Nat
        BY <1>1, <3>1
      <4> QED BY <1>3, <1>5, <3>1, <4>1
    <3>3. FeeDenominator * k = Scale * (Bps * k)
      BY <1>1, <3>1
    <3>4. Bps * k \in Nat
      BY <1>1, <3>1
    <3>5. Bps * k < cap
      <4> HIDE DEF k
      <4>1. Scale * (Bps * k) < Scale * cap
        BY <1>1, <1>3, <3>2, <3>3, <3>4
      <4> QED BY <1>1, <1>3, <3>4, <4>1, TimesCancels
    <3>6. Bps * total = Bps * k + Bps
      BY <1>1, <1>5
    <3> HIDE DEF k
    <3> QED BY <1>1, <1>3, <3>4, <3>5, <3>6
  <2> QED BY <1>5, <2>1, <2>2
<1>7. total * Bps = Bps * total
  BY <1>1, <1>5
<1> QED BY <1>6, <1>7 DEF total, cap

----------------------------------------------------------------------------
(* The epoch.                                                              *)

\* What every state of the epoch keeps: a valid configuration, consumption within the
\* baseline, and the last fill's fees.
EpochInv ==
    /\ fee \in FeeConfig /\ ValidFeeConfig(fee)
    /\ baseline \in Nat \ {0}
    /\ consumed \in 0 .. baseline
    /\ last.value \in Nat
    /\ FeesReconcile

\* The fees of a fill that fits in the epoch reconcile.
LEMMA FillReconciles ==
    ASSUME fee \in FeeConfig, ValidFeeConfig(fee), baseline \in Nat \ {0},
           NEW from \in Nat, NEW value \in Nat, from + value <= baseline
    PROVE  LET fees == EpochFees(from, value)
           IN  /\ fees.total <= value
               /\ {fees.base, fees.premium, fees.total, fees.solver, fees.protocol,
                   fees.treasury} \subseteq Nat
               /\ fees.solver + fees.protocol + fees.treasury = fees.total
               /\ fees.total * Bps <= value * fee.maximum + Bps
<1> DEFINE before == UtilizationAt(from)
           after  == UtilizationAt(from + value)
<1>1. before \in 0 .. Scale /\ after \in before .. Scale
  BY UtilizationBounds DEF UtilizationAt
<1>2. EpochFees(from, value) = Distribute(value, fee, before, after)
  BY DEF EpochFees, FillFees, UtilizationAt
<1> HIDE DEF before, after
<1>3. after \in 0 .. Scale
  BY <1>1, FeeAssumption
<1>4. Chargeable(fee, before, after)
  BY <1>1, ValidIsChargeable
<1>5. TotalFee(value, fee, before, after) * Bps <= value * fee.maximum + Bps
  BY <1>1, <1>3, <1>4, FeeNearCap
<1>6. Distribute(value, fee, before, after).total = TotalFee(value, fee, before, after)
  BY DEF Distribute
<1>7. /\ Distribute(value, fee, before, after).total <= value
      /\ LET fees == Distribute(value, fee, before, after)
         IN  /\ fees.base \in Nat /\ fees.premium \in Nat /\ fees.total \in Nat
             /\ fees.solver \in Nat /\ fees.protocol \in Nat /\ fees.treasury \in Nat
             /\ fees.solver + fees.protocol + fees.treasury = fees.total
  BY <1>1, <1>3, <1>4, DistributionReconciles
<1> QED BY <1>2, <1>5, <1>6, <1>7

\* An epoch starts in its invariant.
LEMMA EpochInit == Init => EpochInv
<1> SUFFICES ASSUME Init PROVE EpochInv
  OBVIOUS
<1>1. fee \in FeeConfig /\ ValidFeeConfig(fee) /\ baseline \in Nat \ {0} /\ consumed = 0
  BY SplitAssumption DEF Init
<1>2. last.value = 0 /\ last.fees = EpochFees(0, 0)
  BY DEF Init
<1>3. FeesReconcile
  BY <1>1, <1>2, FillReconciles DEF FeesReconcile
<1> QED BY <1>1, <1>2, <1>3 DEF EpochInv

\* A fill keeps it.
LEMMA EpochStep == EpochInv /\ [Next]_vars => EpochInv'
<1> SUFFICES ASSUME EpochInv, [Next]_vars PROVE EpochInv'
  OBVIOUS
<1> USE DEF EpochInv
<1>1. ASSUME NEW value \in 1 .. baseline, Fill(value) PROVE EpochInv'
  <2>1. /\ fee' = fee /\ baseline' = baseline /\ consumed + value <= baseline
        /\ consumed' = consumed + value
        /\ last'.value = value /\ last'.fees = EpochFees(consumed, value)
    BY <1>1 DEF Fill
  <2>2. value \in Nat /\ consumed \in Nat
    OBVIOUS
  <2>3. FeesReconcile'
    BY <2>1, <2>2, FillReconciles DEF FeesReconcile
  <2>4. ValidFeeConfig(fee)'
    BY <2>1 DEF ValidFeeConfig
  <2> QED BY <2>1, <2>2, <2>3, <2>4
<1>2. CASE UNCHANGED vars
  BY <1>2 DEF vars, FeesReconcile, ValidFeeConfig
<1> QED BY <1>1, <1>2 DEF Next

\* An invariant epoch can charge every fill it has room for.
LEMMA EpochNeverBlocks == EpochInv => FeeNeverBlocks
<1> SUFFICES ASSUME EpochInv, NEW value \in 1 .. baseline - consumed
             PROVE  Chargeable(fee, UtilizationAt(consumed), UtilizationAt(consumed + value))
  BY DEF FeeNeverBlocks
<1>1. consumed \in Nat /\ consumed + value \in consumed .. baseline /\ baseline \in Nat \ {0}
  BY DEF EpochInv
<1>2. /\ UtilizationAt(consumed) \in 0 .. Scale
      /\ UtilizationAt(consumed + value) \in UtilizationAt(consumed) .. Scale
  BY <1>1, UtilizationBounds DEF UtilizationAt
<1> QED BY <1>2, ValidIsChargeable DEF EpochInv

\* In every epoch, every fill's fee is at most the fill and near the cap, and its three
\* shares are natural numbers that add up to it (OptionSpaceFee.distribute).
THEOREM SplitReconciles == Spec => []FeesReconcile
<1>1. EpochInv => FeesReconcile
  BY DEF EpochInv
<1> QED BY EpochInit, EpochStep, <1>1, PTL DEF Spec

\* In every epoch, every further fill that fits can be charged: FeeAboveCap never blocks
\* the rest of an epoch.
THEOREM SplitNeverBlocks == Spec => []FeeNeverBlocks
  BY EpochInit, EpochStep, EpochNeverBlocks, PTL DEF Spec

----------------------------------------------------------------------------
(* Splitting.                                                              *)
(*                                                                         *)
(* Without rounding the fees of an epoch depend on what is consumed alone: *)
(* they are a base fee and the cube of the utilization, which no split     *)
(* changes.  Measured in parts of a unit (Parts to a unit), every fill is  *)
(* off by what its two utilizations, its rate and its fee are rounded, so  *)
(* that the fills together stay near the ideal fee, and so does one fill.  *)

Parts == 3 * Bps * Scale * (baseline * baseline)

\* The fee of consuming so much from the start of the epoch, without rounding.
Ideal(amount) ==
    Scale * (3 * (baseline * baseline) * fee.base * amount
                + fee.slope * (amount * amount * amount))

\* A product of two naturals is between the products of their lower and upper bounds.
LEMMA ProductBounds ==
    ASSUME NEW a \in Nat, NEW b \in Nat, NEW c \in Nat, NEW d \in Nat, NEW k \in Nat,
           NEW n \in Nat, b <= a, a <= b + k, d <= c, c <= d + k, a <= n, c <= n
    PROVE  b * d <= a * c /\ a * c <= b * d + 2 * (k * n)
<1>1. b * d <= a * d /\ a * d <= a * c
  BY TimesMonotone
<1>2. a * c <= a * (d + k) /\ a * d <= (b + k) * d
  BY TimesMonotone
<1>3. a * (d + k) = a * d + a * k /\ (b + k) * d = b * d + k * d
  OBVIOUS
<1>4. a * k <= k * n /\ k * d <= k * n
  <2>1. d <= n
    OBVIOUS
  <2>2. a * k <= n * k /\ k * d <= k * n /\ n * k = k * n
    BY <2>1, TimesMonotone
  <2> QED BY <2>2
<1>5. /\ b * d \in Nat /\ a * d \in Nat /\ a * c \in Nat /\ a * k \in Nat /\ k * d \in Nat
      /\ k * n \in Nat
  OBVIOUS
<1> QED BY <1>1, <1>2, <1>3, <1>4, <1>5

\* The ceiling of a quotient is less than one above it.
LEMMA CeilDivNear ==
    ASSUME NEW n \in Nat, NEW d \in Nat \ {0}
    PROVE  /\ CeilDiv(n, d) \in Nat
           /\ n <= d * CeilDiv(n, d) /\ d * CeilDiv(n, d) < n + d
<1> DEFINE c == CeilDiv(n, d)
<1>1. c \in Nat /\ n <= d * c /\ \A k \in Nat : n <= d * k => c <= k
  BY CeilDivBounds
<1> HIDE DEF c
<1>2. ASSUME c = 0 PROVE d * c < n + d
  BY <1>1, <1>2
<1>3. ASSUME c > 0 PROVE d * c < n + d
  <2>1. c - 1 \in Nat /\ ~(c <= c - 1)
    BY <1>1, <1>3
  <2>2. ~(n <= d * (c - 1))
    BY <1>1, <2>1
  <2>3. d * (c - 1) = d * c - d /\ d * c \in Nat
    BY <1>1
  <2> QED BY <2>2, <2>3
<1> QED BY <1>1, <1>2, <1>3 DEF c

\* A utilization, scaled by the baseline, is less than a baseline below the ideal one.
LEMMA UtilizationNear ==
    ASSUME baseline \in Nat \ {0}, NEW amount \in 0 .. baseline
    PROVE  LET u == UtilizationAt(amount)
           IN  /\ u \in 0 .. Scale
               /\ u * baseline \in Nat /\ amount * Scale \in Nat
               /\ u * baseline <= amount * Scale
               /\ amount * Scale <= u * baseline + baseline
               /\ amount * Scale <= Scale * baseline
<1> DEFINE u == (amount * Scale) \div baseline
<1>1. Scale \in Nat /\ amount \in Nat /\ amount <= baseline /\ amount * Scale \in Nat
  BY FeeAssumption
<1>2. UtilizationAt(amount) = u
  BY DEF UtilizationAt, Utilization
<1>3. u \in Nat /\ baseline * u <= amount * Scale /\ amount * Scale < baseline * u + baseline
  BY <1>1, DivBounds
<1>4. amount * Scale <= baseline * Scale
  BY <1>1, TimesMonotone
<1>5. UtilizationAt(amount) \in 0 .. Scale
  BY <1>1, UtilizationBounds DEF UtilizationAt
<1> HIDE DEF u
<1>6. u * baseline = baseline * u /\ baseline * Scale = Scale * baseline /\ baseline * u \in Nat
  BY <1>1, <1>3
<1> QED BY <1>1, <1>2, <1>3, <1>4, <1>5, <1>6

\* The squares a premium is made of are near those of the ideal utilizations.
LEMMA SquaresNear ==
    ASSUME baseline \in Nat \ {0}, NEW from \in 0 .. baseline, NEW to \in 0 .. baseline
    PROVE  LET x       == UtilizationAt(from)
               y       == UtilizationAt(to)
               squares == y * y + x * y + x * x
               ideal   == Scale * Scale * (to * to + from * to + from * from)
           IN  /\ squares \in Nat /\ ideal \in Nat
               /\ (baseline * baseline) * squares <= ideal
               /\ ideal <= (baseline * baseline) * squares + 6 * (Scale * (baseline * baseline))
<1> DEFINE x == UtilizationAt(from)
           y == UtilizationAt(to)
           X == x * baseline
           Y == y * baseline
           A == from * Scale
           B == to * Scale
           n == Scale * baseline
<1>1. /\ x \in Nat /\ y \in Nat /\ X \in Nat /\ Y \in Nat /\ A \in Nat /\ B \in Nat /\ n \in Nat
      /\ X <= A /\ A <= X + baseline /\ A <= n
      /\ Y <= B /\ B <= Y + baseline /\ B <= n
      /\ Scale \in Nat /\ from \in Nat /\ to \in Nat /\ baseline \in Nat
  BY UtilizationNear, FeeAssumption
<1>2. /\ (baseline * baseline) * (y * y) = Y * Y
      /\ (baseline * baseline) * (x * y) = X * Y
      /\ (baseline * baseline) * (x * x) = X * X
      /\ Scale * Scale * (to * to) = B * B
      /\ Scale * Scale * (from * to) = A * B
      /\ Scale * Scale * (from * from) = A * A
      /\ baseline * n = Scale * (baseline * baseline)
  BY <1>1
<1>3. /\ (baseline * baseline) * (y * y + x * y + x * x)
            = (baseline * baseline) * (y * y) + (baseline * baseline) * (x * y)
                + (baseline * baseline) * (x * x)
      /\ Scale * Scale * (to * to + from * to + from * from)
            = Scale * Scale * (to * to) + Scale * Scale * (from * to)
                + Scale * Scale * (from * from)
  BY <1>1
<1>4. y * y + x * y + x * x \in Nat /\ Scale * Scale * (to * to + from * to + from * from) \in Nat
  BY <1>1
<1>5. baseline * n \in Nat
  BY <1>1
<1> HIDE DEF X, Y, A, B, n
<1>6. /\ Y * Y <= B * B /\ B * B <= Y * Y + 2 * (baseline * n)
      /\ X * Y <= A * B /\ A * B <= X * Y + 2 * (baseline * n)
      /\ X * X <= A * A /\ A * A <= X * X + 2 * (baseline * n)
  BY <1>1, ProductBounds
<1>7. /\ Y * Y \in Nat /\ X * Y \in Nat /\ X * X \in Nat /\ B * B \in Nat /\ A * B \in Nat
      /\ A * A \in Nat
  BY <1>1
<1> HIDE DEF x, y
<1>8. /\ (baseline * baseline) * (y * y + x * y + x * x) = Y * Y + X * Y + X * X
      /\ Scale * Scale * (to * to + from * to + from * from) = B * B + A * B + A * A
      /\ 6 * (Scale * (baseline * baseline)) = 6 * (baseline * n)
  BY <1>2, <1>3
<1>9. /\ Y * Y + X * Y + X * X <= B * B + A * B + A * A
      /\ B * B + A * B + A * A <= Y * Y + X * Y + X * X + 6 * (baseline * n)
  BY <1>5, <1>6, <1>7
<1> QED BY <1>4, <1>8, <1>9 DEF x, y

\* The rate of a fill, with the premium at most one part above the exact quotient.
LEMMA RateNear ==
    ASSUME NEW config \in FeeConfig, NEW x \in Nat, NEW y \in Nat
    PROVE  LET rate  == FeeBps(config, x, y)
               exact == (3 * Scale) * (config.base * Scale)
                            + config.slope * (y * y + x * y + x * x)
           IN  /\ rate \in Nat /\ exact \in Nat
               /\ exact <= (3 * Scale) * rate
               /\ (3 * Scale) * rate < exact + 3 * Scale
<1> DEFINE n       == config.slope * (y * y + x * y + x * x)
           d       == 3 * Scale
           premium == CeilDiv(n, d)
<1>1. n \in Nat /\ d \in Nat \ {0} /\ config.base * Scale \in Nat
  BY FeeAssumption DEF FeeConfig
<1>2. premium \in Nat /\ n <= d * premium /\ d * premium < n + d
  <2> HIDE DEF n, d
  <2> QED BY <1>1, CeilDivNear
<1>3. FeeBps(config, x, y) = config.base * Scale + premium
  BY DEF FeeBps, PremiumBps
<1> HIDE DEF n, d, premium
<1>4. d * (config.base * Scale + premium) = d * (config.base * Scale) + d * premium
  BY <1>1, <1>2
<1>5. d * (config.base * Scale) \in Nat /\ d * premium \in Nat
  BY <1>1, <1>2
<1> QED BY <1>1, <1>2, <1>3, <1>4, <1>5 DEF n, d

\* The product of a fill and its squares is a difference of cubes.
LEMMA CubesDiffer ==
    ASSUME NEW from \in Nat, NEW value \in Nat
    PROVE  LET to == from + value
           IN  value * (to * to + from * to + from * from) + from * from * from
                 = to * to * to
  OBVIOUS

\* The fee of a fill is near the growth of the ideal fee.
LEMMA FillNear ==
    ASSUME fee \in FeeConfig, baseline \in Nat \ {0},
           NEW from \in Nat, NEW value \in Nat, from + value <= baseline
    PROVE  LET paidNow == EpochFees(from, value).total
               area    == baseline * baseline
           IN  /\ paidNow \in Nat
               /\ Ideal(from + value) <= Ideal(from) + Parts * paidNow
                                            + 6 * (area * (fee.slope * value))
               /\ Ideal(from) + Parts * paidNow < Ideal(from + value) + 3 * (area * value)
                                                    + Parts
<1> DEFINE to      == from + value
           area    == baseline * baseline
           x       == UtilizationAt(from)
           y       == UtilizationAt(to)
           squares == y * y + x * y + x * x
           ideal   == Scale * Scale * (to * to + from * to + from * from)
           rate    == FeeBps(fee, x, y)
           d       == Bps * Scale
           part    == 3 * Scale
           flat    == part * (fee.base * Scale)
           paidNow == CeilDiv(value * rate, d)
<1>1. /\ Scale \in Nat \ {0} /\ Bps \in Nat \ {0} /\ baseline \in Nat \ {0}
      /\ fee.base \in Nat /\ fee.slope \in Nat
      /\ from \in 0 .. baseline /\ to \in 0 .. baseline
      /\ from \in Nat /\ to \in Nat /\ value \in Nat
      /\ d \in Nat \ {0} /\ part \in Nat \ {0} /\ area \in Nat \ {0} /\ flat \in Nat
  BY FeeAssumption DEF FeeConfig
<1>2. EpochFees(from, value).total = paidNow
  BY DEF EpochFees, FillFees, Distribute, TotalFee, FeeDenominator, UtilizationAt
<1>3. x \in Nat /\ y \in Nat
  <2> HIDE DEF to
  <2>1. ASSUME NEW amount \in 0 .. baseline PROVE UtilizationAt(amount) \in Nat
    <3>1. UtilizationAt(amount) \in 0 .. Scale
      BY <1>1, UtilizationNear
    <3> QED BY <1>1, <3>1
  <2> QED BY <1>1, <2>1
<1>4. /\ squares \in Nat /\ ideal \in Nat
      /\ area * squares <= ideal /\ ideal <= area * squares + 6 * (Scale * area)
  <2> HIDE DEF to
  <2> QED BY <1>1, SquaresNear
<1>5. /\ rate \in Nat
      /\ flat + fee.slope * squares <= part * rate
      /\ part * rate < flat + fee.slope * squares + part
  <2> HIDE DEF x, y
  <2> QED BY <1>1, <1>3, RateNear
<1>6. value * ((to * to + from * to + from * from)) + from * from * from = to * to * to
  BY <1>1, CubesDiffer
<1> HIDE DEF x, y, squares, ideal, rate, d, part, flat, area, to
<1>7. /\ paidNow \in Nat /\ value * rate \in Nat
      /\ value * rate <= d * paidNow /\ d * paidNow < value * rate + d
  <2>1. value * rate \in Nat
    BY <1>1, <1>5
  <2> QED BY <1>1, <2>1, CeilDivNear
<1> HIDE DEF paidNow
\* The fee, in the product of part, d and area, which is Scale times Parts.
<1>8. /\ part * (value * rate) <= part * (d * paidNow)
      /\ part * (d * paidNow) < part * (value * rate) + part * d
  <2>1. /\ part * (value * rate) \in Nat /\ d * paidNow \in Nat /\ part * d \in Nat
        /\ part * (value * rate + d) = part * (value * rate) + part * d
    BY <1>1, <1>7
  <2>2. part * (value * rate) <= part * (d * paidNow)
    BY <1>1, <1>7, <2>1, TimesMonotone
  <2>3. part * (d * paidNow) < part * (value * rate + d)
    <3>1. d * paidNow + 1 <= value * rate + d
      BY <1>1, <1>7, <2>1
    <3>2. part * (d * paidNow + 1) <= part * (value * rate + d)
      BY <1>1, <1>7, <2>1, <3>1, TimesMonotone
    <3>3. part * (d * paidNow + 1) = part * (d * paidNow) + part
      BY <1>1, <2>1
    <3>4. part * (d * paidNow) \in Nat
      BY <1>1, <2>1
    <3> QED BY <1>1, <2>1, <3>2, <3>3, <3>4
  <2> QED BY <2>1, <2>2, <2>3
\* What the rate is, for the value of the fill.
<1>9. /\ value * flat + fee.slope * (value * squares) <= part * (value * rate)
      /\ part * (value * rate) <= value * flat + fee.slope * (value * squares) + part * value
  <2>1. /\ value * (flat + fee.slope * squares) = value * flat + fee.slope * (value * squares)
        /\ value * (part * rate) = part * (value * rate)
        /\ value * (flat + fee.slope * squares + part)
             = value * flat + fee.slope * (value * squares) + part * value
    BY <1>1, <1>4, <1>5
  <2>2. flat + fee.slope * squares \in Nat /\ part * rate \in Nat
    BY <1>1, <1>4, <1>5
  <2>3. value * (flat + fee.slope * squares) <= value * (part * rate)
    BY <1>1, <1>5, <2>2, TimesMonotone
  <2>4. value * (part * rate) <= value * (flat + fee.slope * squares + part)
    BY <1>1, <1>5, <2>2, TimesMonotone
  <2> QED BY <2>1, <2>3, <2>4
\* What the squares are, with the slope and the value of the fill.
<1>10. /\ area * (fee.slope * (value * squares)) <= fee.slope * (value * ideal)
       /\ fee.slope * (value * ideal) <= area * (fee.slope * (value * squares))
                                           + 6 * (Scale * (area * (fee.slope * value)))
  <2> DEFINE w == fee.slope * value
  <2>1. w \in Nat
    BY <1>1
  <2>2. /\ area * (fee.slope * (value * squares)) = w * (area * squares)
        /\ fee.slope * (value * ideal) = w * ideal
        /\ w * (area * squares + 6 * (Scale * area)) = w * (area * squares)
                                                        + 6 * (Scale * (area * w))
    BY <1>1, <1>4
  <2> HIDE DEF w
  <2>3. area * squares \in Nat /\ Scale * area \in Nat
    BY <1>1, <1>4
  <2>4. /\ w * (area * squares) <= w * ideal
        /\ w * ideal <= w * (area * squares + 6 * (Scale * area))
    BY <1>4, <2>1, <2>3, TimesMonotone
  <2> QED BY <2>2, <2>4 DEF w
\* Everything is a multiple of Scale.
<1> DEFINE base  == 3 * (area * (fee.base * value))
           cubes == fee.slope * (to * to * to) - fee.slope * (from * from * from)
           slack == area * (fee.slope * value)
<1>11. /\ area * (part * (d * paidNow)) = Scale * (Parts * paidNow)
       /\ area * (part * d) = Scale * Parts
       /\ area * (value * flat) = Scale * (Scale * base)
       /\ area * (part * value) = Scale * (3 * (area * value))
    BY <1>1, <1>7 DEF Parts, part, d, flat, area
<1>12. fee.slope * (value * ideal) = Scale * (Scale * cubes)
  <2>1. value * (to * to + from * to + from * from) = to * to * to - from * from * from
    BY <1>1, <1>6
  <2>2. value * ideal = Scale * Scale * (value * (to * to + from * to + from * from))
    BY <1>1 DEF ideal
  <2> DEFINE t == to * to * to
             f == from * from * from
  <2>3. t \in Nat /\ f \in Nat
    BY <1>1
  <2>4. value * ideal = Scale * Scale * (t - f)
    BY <2>1, <2>2
  <2>5. cubes = fee.slope * t - fee.slope * f
    OBVIOUS
  <2> HIDE DEF t, f, cubes
  <2>6. fee.slope * (Scale * Scale * (t - f)) = Scale * (Scale * (fee.slope * t - fee.slope * f))
    BY <1>1, <2>3
  <2> QED BY <2>4, <2>5, <2>6
<1>13. Ideal(to) - Ideal(from) = Scale * (base + cubes)
  BY <1>1 DEF Ideal, area, to
<1>14. /\ base \in Int /\ cubes \in Int /\ slack \in Nat /\ Parts \in Nat /\ area * value \in Nat
       /\ Ideal(to) \in Int /\ Ideal(from) \in Int /\ Parts * paidNow \in Nat
  BY <1>1, <1>7 DEF Ideal, Parts, area
<1> HIDE DEF base, cubes, slack
<1>15. /\ Scale * (Scale * base + Scale * cubes) <= Scale * (Parts * paidNow + 6 * slack)
       /\ Scale * (Parts * paidNow)
            < Scale * (Scale * base + Scale * cubes + 3 * (area * value) + Parts)
  <2>1. /\ area * (value * flat) + area * (fee.slope * (value * squares))
             <= area * (part * (d * paidNow))
        /\ area * (part * (d * paidNow))
             < area * (value * flat) + area * (fee.slope * (value * squares))
                 + area * (part * value) + area * (part * d)
    <3>1. /\ value * flat \in Nat /\ fee.slope * (value * squares) \in Nat
          /\ part * (d * paidNow) \in Nat /\ part * value \in Nat /\ part * d \in Nat
      BY <1>1, <1>4, <1>7
    <3>2. part * (value * rate) \in Nat
      BY <1>1, <1>7
    <3>3. value * flat + fee.slope * (value * squares) <= part * (d * paidNow)
      BY <1>8, <1>9, <3>1, <3>2
    <3>4. part * (d * paidNow) + 1 <= value * flat + fee.slope * (value * squares)
                                        + part * value + part * d
      BY <1>8, <1>9, <3>1, <3>2
    <3> DEFINE l == value * flat
               m == fee.slope * (value * squares)
               p == part * (d * paidNow)
               v == part * value
               e == part * d
    <3> HIDE DEF l, m, p, v, e
    <3>5. /\ l \in Nat /\ m \in Nat /\ p \in Nat /\ v \in Nat /\ e \in Nat
          /\ l + m <= p /\ p + 1 <= l + m + v + e
      BY <3>1, <3>3, <3>4 DEF l, m, p, v, e
    <3>6. /\ area * (l + m) <= area * p /\ area * (p + 1) <= area * (l + m + v + e)
      BY <1>1, <3>5, TimesMonotone
    <3>7. /\ area * (l + m) = area * l + area * m /\ area * (p + 1) = area * p + area
          /\ area * (l + m + v + e) = area * l + area * m + area * v + area * e
      BY <1>1, <3>5
    <3>8. /\ area * l \in Nat /\ area * m \in Nat /\ area * p \in Nat /\ area * v \in Nat
          /\ area * e \in Nat
      BY <1>1, <3>5
    <3>9. area * l + area * m <= area * p /\ area * p < area * l + area * m + area * v + area * e
      BY <1>1, <3>6, <3>7, <3>8
    <3> QED BY <3>9 DEF l, m, p, v, e
  <2>2. /\ area * (fee.slope * (value * squares)) <= Scale * (Scale * cubes)
        /\ Scale * (Scale * cubes) <= area * (fee.slope * (value * squares))
                                        + 6 * (Scale * slack)
    BY <1>10, <1>12 DEF slack
  <2>3. /\ Scale * (Scale * base + Scale * cubes)
             = Scale * (Scale * base) + Scale * (Scale * cubes)
        /\ Scale * (Parts * paidNow + 6 * slack) = Scale * (Parts * paidNow) + 6 * (Scale * slack)
        /\ Scale * (Scale * base + Scale * cubes + 3 * (area * value) + Parts)
             = Scale * (Scale * base) + Scale * (Scale * cubes)
                 + Scale * (3 * (area * value)) + Scale * Parts
    BY <1>1, <1>14
  <2>4. /\ Scale * (Scale * base) \in Int /\ Scale * (Scale * cubes) \in Int
        /\ Scale * (Parts * paidNow) \in Int /\ Scale * slack \in Int
        /\ Scale * (3 * (area * value)) \in Int /\ Scale * Parts \in Int
        /\ area * (fee.slope * (value * squares)) \in Int
    BY <1>1, <1>4, <1>14
  <2> QED BY <1>11, <2>1, <2>2, <2>3, <2>4
<1>16. /\ Scale * base + Scale * cubes <= Parts * paidNow + 6 * slack
       /\ Parts * paidNow < Scale * base + Scale * cubes + 3 * (area * value) + Parts
  <2> DEFINE a == Scale * base + Scale * cubes
             b == Parts * paidNow + 6 * slack
             e == Parts * paidNow
             f == Scale * base + Scale * cubes + 3 * (area * value) + Parts
  <2>1. a \in Int /\ b \in Int /\ e \in Int /\ f \in Int
    BY <1>1, <1>14
  <2>2. Scale * a <= Scale * b /\ Scale * e < Scale * f
    BY <1>15
  <2> HIDE DEF a, b, e, f
  <2>3. a <= b
    <3>1. ASSUME b < a PROVE FALSE
      <4>1. Scale * (a - b) > 0
        BY <1>1, <2>1, <3>1
      <4>2. Scale * (a - b) = Scale * a - Scale * b
        BY <1>1, <2>1
      <4>3. Scale * a \in Int /\ Scale * b \in Int
        BY <1>1, <2>1
      <4> QED BY <2>2, <4>1, <4>2, <4>3
    <3> QED BY <2>1, <3>1
  <2>4. e < f
    BY <1>1, <2>1, <2>2, TimesCancels
  <2> QED BY <2>3, <2>4 DEF a, b, e, f
<1>17. Scale * (base + cubes) = Scale * base + Scale * cubes
  BY <1>1, <1>14
<1>18. Scale * base \in Int /\ Scale * cubes \in Int
  BY <1>1, <1>14
<1>19. /\ Ideal(to) <= Ideal(from) + Parts * paidNow + 6 * slack
       /\ Ideal(from) + Parts * paidNow < Ideal(to) + 3 * (area * value) + Parts
  BY <1>13, <1>14, <1>16, <1>17, <1>18
<1> QED BY <1>2, <1>7, <1>19 DEF to, area, slack

\* What a fill may be off by, for what it consumes: below the ideal fee, and above it but
\* for the rounding of the fee itself.
Below(amount) == 6 * ((baseline * baseline) * (fee.slope * amount))
Above(amount) == 3 * ((baseline * baseline) * amount)

\* The fees of the epoch are as near the ideal fee of what is consumed as its fills are:
\* above it by less than one unit for each of them.
NearIdeal ==
    /\ paid \in Nat /\ fills \in Nat
    /\ fills = 0 => paid = 0 /\ consumed = 0
    /\ Ideal(consumed) <= Parts * paid + Below(consumed)
    /\ fills > 0 => Parts * paid < Ideal(consumed) + Above(consumed) + Parts * fills

\* All of these are natural numbers.
LEMMA PartsAreNat ==
    ASSUME fee \in FeeConfig, baseline \in Nat \ {0}, NEW amount \in Nat
    PROVE  /\ Parts \in Nat \ {0} /\ Ideal(amount) \in Nat
           /\ Below(amount) \in Nat /\ Above(amount) \in Nat
<1>1. /\ Scale \in Nat \ {0} /\ Bps \in Nat \ {0}
      /\ fee.base \in Nat /\ fee.slope \in Nat
  BY FeeAssumption DEF FeeConfig
<1>2. baseline * baseline \in Nat \ {0}
  OBVIOUS
<1>3. Parts \in Nat \ {0}
  <2> DEFINE area == baseline * baseline
  <2> HIDE DEF area
  <2>1. 3 * Bps * Scale \in Nat \ {0}
    BY <1>1
  <2>2. area \in Nat \ {0}
    BY <1>2 DEF area
  <2>3. (3 * Bps * Scale) * area \in Nat \ {0}
    BY <2>1, <2>2
  <2> QED BY <2>3 DEF Parts, area
<1>4. Ideal(amount) \in Nat
  BY <1>1 DEF Ideal
<1> QED BY <1>1, <1>3, <1>4 DEF Below, Above

\* The epoch starts at its ideal fee, nothing for nothing.
LEMMA NearInit == Init => NearIdeal
<1> SUFFICES ASSUME Init PROVE NearIdeal
  OBVIOUS
<1>1. /\ fee \in FeeConfig /\ baseline \in Nat \ {0}
      /\ consumed = 0 /\ paid = 0 /\ fills = 0
  BY SplitAssumption DEF Init
<1>2. Parts \in Nat /\ Below(consumed) \in Nat
  BY <1>1, PartsAreNat
<1>3. Ideal(consumed) = 0
  BY <1>1, FeeAssumption DEF Ideal, FeeConfig
<1> QED BY <1>1, <1>2, <1>3 DEF NearIdeal

\* A fill keeps the epoch near its ideal fee.
LEMMA NearStep == EpochInv /\ NearIdeal /\ [Next]_vars => NearIdeal'
<1> SUFFICES ASSUME EpochInv, NearIdeal, [Next]_vars PROVE NearIdeal'
  OBVIOUS
<1>1. ASSUME NEW value \in 1 .. baseline, Fill(value) PROVE NearIdeal'
  <2> DEFINE now == EpochFees(consumed, value).total
             to  == consumed + value
  <2>1. /\ fee' = fee /\ baseline' = baseline /\ to <= baseline
        /\ consumed' = to /\ paid' = paid + now /\ fills' = fills + 1
    BY <1>1 DEF Fill
  <2>2. /\ fee \in FeeConfig /\ baseline \in Nat \ {0}
        /\ value \in Nat /\ consumed \in Nat /\ to \in Nat
    BY DEF EpochInv
  <2>3. /\ now \in Nat
        /\ Ideal(to) <= Ideal(consumed) + Parts * now + Below(value)
        /\ Ideal(consumed) + Parts * now < Ideal(to) + Above(value) + Parts
    BY <2>1, <2>2, FillNear DEF Below, Above
  <2> HIDE DEF now
  <2>4. /\ Parts \in Nat /\ Ideal(consumed) \in Nat /\ Ideal(to) \in Nat
        /\ Below(consumed) \in Nat /\ Below(value) \in Nat
        /\ Above(consumed) \in Nat /\ Above(value) \in Nat
    BY <2>2, PartsAreNat
  <2>5. Below(to) = Below(consumed) + Below(value) /\ Above(to) = Above(consumed) + Above(value)
    BY <2>2 DEF Below, Above, FeeConfig
  <2> HIDE DEF to
  <2>6. /\ paid \in Nat /\ fills \in Nat
        /\ Parts * (paid + now) = Parts * paid + Parts * now
        /\ Parts * (fills + 1) = Parts * fills + Parts
        /\ Parts * paid \in Nat /\ Parts * now \in Nat /\ Parts * fills \in Nat
    BY <2>3, <2>4 DEF NearIdeal
  <2>7. Ideal(to) <= Parts * (paid + now) + Below(to)
    BY <2>3, <2>4, <2>5, <2>6 DEF NearIdeal
  <2>8. Parts * paid <= Ideal(consumed) + Above(consumed) + Parts * fills
    BY <2>4, <2>6 DEF NearIdeal
  <2>9. Parts * (paid + now) < Ideal(to) + Above(to) + Parts * (fills + 1)
    BY <2>3, <2>4, <2>5, <2>6, <2>8
  <2>10. /\ Parts' = Parts /\ Ideal(consumed)' = Ideal(to)
         /\ Below(consumed)' = Below(to) /\ Above(consumed)' = Above(to)
    BY <2>1 DEF Parts, Ideal, Below, Above
  <2> QED BY <2>1, <2>3, <2>6, <2>7, <2>9, <2>10 DEF NearIdeal
<1>2. CASE UNCHANGED vars
  BY <1>2 DEF vars, NearIdeal, Parts, Ideal, Below, Above
<1> QED BY <1>1, <1>2 DEF Next

\* What the utilizations and rates of a whole epoch may be off by is within Rounding.
LEMMA RoundingCovers ==
    ASSUME EpochInv
    PROVE  /\ Rounding \in Nat
           /\ Below(consumed) + Above(consumed) <= Parts * Rounding
<1> DEFINE area == baseline * baseline
<1>1. /\ Scale \in Nat \ {0} /\ Bps \in Nat \ {0} /\ baseline \in Nat \ {0}
      /\ consumed \in Nat /\ consumed <= baseline /\ fee.slope \in Nat
  BY FeeAssumption DEF EpochInv, FeeConfig
<1>2. fee.slope <= Bps
  BY FeeAssumption DEF EpochInv, FeeConfig, ValidFeeConfig
<1>3. Rounding \in Nat /\ 3 * baseline <= Scale * Rounding
  <2>1. 3 * baseline \in Nat
    BY <1>1
  <2> QED BY <1>1, <2>1, CeilDivNear DEF Rounding
<1>4. fee.slope * consumed <= Bps * baseline /\ consumed <= Bps * baseline
  <2>1. fee.slope * consumed <= Bps * consumed /\ Bps * consumed <= Bps * baseline
    BY <1>1, <1>2, TimesMonotone
  <2>2. consumed <= Bps * consumed
    BY <1>1
  <2>3. fee.slope * consumed \in Nat /\ Bps * consumed \in Nat /\ Bps * baseline \in Nat
    BY <1>1
  <2> QED BY <1>1, <2>1, <2>2, <2>3
<1>5. area \in Nat
  BY <1>1
<1> HIDE DEF area
<1>6. area * (fee.slope * consumed) <= area * (Bps * baseline) /\ area * consumed <= area * (Bps * baseline)
  BY <1>1, <1>4, <1>5, TimesMonotone
<1>7. 3 * (Bps * area) * (3 * baseline) <= 3 * (Bps * area) * (Scale * Rounding)
  <2>1. 3 * (Bps * area) \in Nat /\ 3 * baseline \in Nat /\ Scale * Rounding \in Nat
    BY <1>1, <1>3, <1>5
  <2> QED BY <1>3, <2>1, TimesMonotone
<1>8. /\ 3 * (Bps * area) * (3 * baseline) = 9 * (area * (Bps * baseline))
      /\ 3 * (Bps * area) * (Scale * Rounding) = (3 * Bps * Scale * area) * Rounding
  BY <1>1, <1>3, <1>5
<1>9. /\ area * (fee.slope * consumed) \in Nat /\ area * consumed \in Nat
      /\ area * (Bps * baseline) \in Nat /\ (3 * Bps * Scale * area) * Rounding \in Nat
  BY <1>1, <1>3, <1>5
<1>10. 6 * (area * (fee.slope * consumed)) + 3 * (area * consumed)
         <= (3 * Bps * Scale * area) * Rounding
  BY <1>6, <1>7, <1>8, <1>9
<1> QED BY <1>3, <1>10 DEF Below, Above, Parts, area

\* Both properties: the fills together and one fill of the same total are each near the
\* same ideal fee.
LEMMA NearSplits ==
    EpochInv /\ NearIdeal => SplittingSavesOnlyRounding /\ SplittingCostsOnlyRounding
<1> SUFFICES ASSUME EpochInv, NearIdeal
             PROVE  SplittingSavesOnlyRounding /\ SplittingCostsOnlyRounding
  OBVIOUS
<1>1. /\ fee \in FeeConfig /\ baseline \in Nat \ {0}
      /\ consumed \in Nat /\ consumed <= baseline
      /\ paid \in Nat /\ fills \in Nat
  BY DEF EpochInv, NearIdeal
<1>2. /\ Parts \in Nat \ {0} /\ Ideal(consumed) \in Nat
      /\ Below(consumed) \in Nat /\ Above(consumed) \in Nat
  BY <1>1, PartsAreNat
<1>3. Rounding \in Nat /\ Below(consumed) + Above(consumed) <= Parts * Rounding
  BY RoundingCovers
<1>4. /\ OneFill \in Nat
      /\ Ideal(consumed) <= Parts * OneFill + Below(consumed)
      /\ Parts * OneFill < Ideal(consumed) + Above(consumed) + Parts
  <2>1. Ideal(0) = 0
    BY <1>1, FeeAssumption DEF Ideal, FeeConfig
  <2>2. 0 + consumed = consumed
    BY <1>1
  <2>3. /\ OneFill \in Nat
        /\ Ideal(0 + consumed) <= Ideal(0) + Parts * OneFill + Below(consumed)
        /\ Ideal(0) + Parts * OneFill < Ideal(0 + consumed) + Above(consumed) + Parts
    BY <1>1, <2>2, FillNear DEF OneFill, Below, Above
  <2>4. Parts * OneFill \in Nat
    BY <1>2, <2>3
  <2> QED BY <1>2, <2>1, <2>2, <2>3, <2>4
<1>5. /\ Parts * OneFill \in Nat /\ Parts * paid \in Nat /\ Parts * Rounding \in Nat
      /\ Parts * fills \in Nat
      /\ Parts * (paid + Rounding + 1) = Parts * paid + Parts * Rounding + Parts
      /\ Parts * (OneFill + Rounding + fills)
           = Parts * OneFill + Parts * Rounding + Parts * fills
  BY <1>1, <1>2, <1>3, <1>4
<1>6. OneFill <= paid + Rounding
  <2>1. Parts * OneFill < Parts * (paid + Rounding + 1)
    BY <1>2, <1>3, <1>4, <1>5 DEF NearIdeal
  <2>2. OneFill < paid + Rounding + 1
    BY <1>1, <1>2, <1>3, <1>4, <2>1, TimesCancels
  <2> QED BY <1>1, <1>3, <1>4, <2>2
<1>7. ASSUME fills > 0 PROVE paid + 1 <= OneFill + fills + Rounding
  <2>1. Parts * paid < Parts * (OneFill + Rounding + fills)
    BY <1>2, <1>3, <1>4, <1>5, <1>7 DEF NearIdeal
  <2>2. paid < OneFill + Rounding + fills
    BY <1>1, <1>2, <1>3, <1>4, <2>1, TimesCancels
  <2> QED BY <1>1, <1>3, <1>4, <2>2
<1> QED BY <1>1, <1>6, <1>7 DEF SplittingSavesOnlyRounding, SplittingCostsOnlyRounding

\* However an order is split over an epoch, its fills cost what one fill of their total
\* costs or less by rounding alone: one unit, for any baseline whose triple fits in the
\* scale (the premium of calculateFeeBps is an average over the utilization interval).
THEOREM SplitSavesOnlyRounding == Spec => []SplittingSavesOnlyRounding
  BY EpochInit, EpochStep, NearInit, NearStep, NearSplits, PTL DEF Spec

\* And they cost at most one unit more for each further fill, and the same rounding.
THEOREM SplitCostsOnlyRounding == Spec => []SplittingCostsOnlyRounding
  BY EpochInit, EpochStep, NearInit, NearStep, NearSplits, PTL DEF Spec

----------------------------------------------------------------------------
(* Helpers.                                                                *)

\* A problem the search starts from.
IsProblem(p) ==
    /\ p \in Problems
    /\ WithinBounds(p.search.values, p.search.bounds)
    /\ p.search.consumed <= p.search.baseline

\* The fill of nothing leaves the portfolio alone, so that it is safe: the search has a
\* safe value to start from.
LEMMA NothingIsSafe ==
    ASSUME NEW p, IsProblem(p)
    PROVE  IsSafe(p.search, 0)
<1> DEFINE u == Utilization(p.search.consumed, p.search.baseline)
<1>1. /\ p.search.values \in [DOMAIN p.search.values -> Nat]
      /\ {p.search.input, p.search.output} \subseteq DOMAIN p.search.values
      /\ p.search.baseline \in Nat \ {0} /\ p.search.consumed \in 0 .. p.search.baseline
      /\ p.search.fee \in FeeConfig
  BY ProblemAssumption DEF IsProblem
<1>2. u \in 0 .. Scale
  BY <1>1, UtilizationBounds
<1>3. FillFees(p.search, 0) = Distribute(0, p.search.fee, u, u)
  BY <1>1 DEF FillFees
<1> HIDE DEF u
<1>4. FillFees(p.search, 0).total = 0 /\ FillFees(p.search, 0).treasury = 0
  BY <1>1, <1>2, <1>3, NothingCostsNothing
<1>5. PreviewFeeInclusiveTrade(p.search, 0) = p.search.values
  BY <1>1, <1>4 DEF PreviewFeeInclusiveTrade
<1> QED BY <1>4, <1>5 DEF IsSafe, IsProblem

\* The limit is a natural number.
LEMMA LimitType ==
    ASSUME IsProblem(problem)
    PROVE  Limit \in Nat
<1>1. /\ problem.requested \in Nat /\ problem.maximum \in Nat
      /\ problem.search.baseline - problem.search.consumed \in Nat
      /\ problem.search.values[problem.search.output] \in Nat
  BY ProblemAssumption DEF IsProblem
<1> QED BY <1>1, LeastOfFour DEF Limit, SearchLimit

----------------------------------------------------------------------------
(* The search.                                                             *)

\* The search's invariant with the problem it started from.
SearchInv ==
    /\ IsProblem(problem)
    /\ Limit \in Nat
    /\ low \in 0 .. high /\ high \in Nat /\ high <= Limit
    /\ Safe(low)
    /\ high < Limit => ~Safe(high + 1)

\* The search starts in its invariant.
LEMMA SearchStarts == SearchInit => SearchInv
<1> SUFFICES ASSUME SearchInit PROVE SearchInv
  OBVIOUS
<1>1. IsProblem(problem)
  BY DEF SearchInit, IsProblem
<1>2. low = 0 /\ high = Limit
  BY DEF SearchInit
<1>3. Limit \in Nat
  BY <1>1, LimitType
<1>4. Safe(0)
  BY <1>1, NothingIsSafe DEF Safe
<1> QED BY <1>1, <1>2, <1>3, <1>4 DEF SearchInv

\* The middle lies above the lower bound and not above the upper one.
LEMMA MiddleBetween ==
    ASSUME low \in Nat, high \in Nat, low < high
    PROVE  Middle \in low + 1 .. high
<1> DEFINE half == (high - low + 1) \div 2
<1>1. high - low + 1 \in Nat /\ high - low + 1 >= 2
  OBVIOUS
<1>2. half \in Nat /\ 2 * half <= high - low + 1 /\ high - low + 1 < 2 * half + 2
  BY <1>1, DivBounds
<1> HIDE DEF half
<1>3. half >= 1 /\ half <= high - low
  BY <1>1, <1>2
<1> QED BY <1>2, <1>3 DEF Middle, half

\* A bisection keeps it.
LEMMA SearchStep == SearchInv /\ [Bisect]_searchVars => SearchInv'
<1> SUFFICES ASSUME SearchInv, [Bisect]_searchVars PROVE SearchInv'
  OBVIOUS
<1>1. CASE Bisect
  <2>1. /\ low \in Nat /\ high \in Nat /\ low < high /\ high <= Limit /\ Limit \in Nat
        /\ IsProblem(problem) /\ problem' = problem /\ Limit' = Limit
    BY <1>1 DEF SearchInv, Bisect, Limit
  <2>2. Middle \in low + 1 .. high
    BY <2>1, MiddleBetween
  <2>3. (IsProblem(problem))'
    BY <2>1 DEF IsProblem
  <2>4. CASE Raise
    <3>1. low' = Middle /\ high' = high /\ Safe(Middle)
      BY <2>4 DEF Raise
    <3>2. Safe(low)'
      BY <2>1, <3>1 DEF Safe
    <3>3. (high < Limit => ~Safe(high + 1))'
      BY <2>1, <3>1 DEF Safe, SearchInv
    <3> QED BY <2>1, <2>2, <2>3, <3>1, <3>2, <3>3 DEF SearchInv
  <2>5. CASE Lower
    <3>1. low' = low /\ high' = Middle - 1 /\ ~Safe(Middle)
      BY <2>5 DEF Lower
    <3>2. Safe(low)'
      BY <2>1, <3>1 DEF Safe, SearchInv
    <3>3. high' + 1 = Middle
      BY <2>1, <2>2, <3>1
    <3>4. (~Safe(high + 1))'
      BY <2>1, <3>1, <3>3 DEF Safe
    <3>5. low' \in 0 .. high' /\ high' \in Nat /\ high' <= Limit'
      BY <2>1, <2>2, <3>1
    <3> QED BY <2>1, <2>3, <3>2, <3>4, <3>5 DEF SearchInv
  <2> QED BY <1>1, <2>4, <2>5 DEF Bisect
<1>2. CASE UNCHANGED searchVars
  BY <1>2 DEF searchVars, SearchInv, IsProblem, Limit, Safe
<1> QED BY <1>1, <1>2

\* When the bounds meet, the invariant describes the result.
LEMMA SearchInvImplies == SearchInv => SearchInvariant
<1> SUFFICES ASSUME SearchInv PROVE SearchInvariant
  OBVIOUS
<1>1. ASSUME Done PROVE IsFill(problem.search, problem.requested, problem.maximum, low)
  <2>1. /\ low \in 0 .. Limit /\ Safe(low) /\ (low < Limit => ~Safe(low + 1))
    BY <1>1 DEF SearchInv, Done
  <2> QED BY <2>1 DEF IsFill, Limit, Safe
<1> QED BY <1>1 DEF SearchInv, SearchInvariant

\* The search keeps a safe lower bound and an unsafe value just above its upper one, so
\* that what it returns is safe and cannot be raised by one (DirectSettlement._solve).
THEOREM SearchSafe == SearchSpec => []SearchInvariant
  BY SearchStarts, SearchStep, SearchInvImplies, PTL DEF SearchSpec

\* What is left to search is half of what was, at most.
Halved == 2 * (high' - low') <= high - low

\* Whatever the safety of the fills looks like, every round of the loop in
\* DirectSettlement._solve halves the interval, so that it ends after as many rounds as the
\* limit has bits.
THEOREM SearchHalves == SearchSpec => [][Bisect => Halved]_searchVars
<1>1. ASSUME SearchInv, Bisect PROVE Halved
  <2>1. low \in Nat /\ high \in Nat /\ low < high
    BY <1>1 DEF SearchInv, Bisect
  <2> DEFINE room == high - low
             half == (room + 1) \div 2
  <2>2. room \in Nat /\ 2 * half <= room + 1 /\ room <= 2 * half /\ half \in Nat
    BY <2>1
  <2>3. Middle = low + half
    BY DEF Middle
  <2>4. CASE Raise
    BY <2>1, <2>2, <2>3, <2>4 DEF Raise, Halved
  <2>5. CASE Lower
    BY <2>1, <2>2, <2>3, <2>5 DEF Lower, Halved
  <2> QED BY <1>1, <2>4, <2>5 DEF Bisect
<1> QED BY <1>1, SearchStarts, SearchStep, PTL DEF SearchSpec

----------------------------------------------------------------------------
(* Fees grow more slowly than fills.                                       *)

\* A larger fill raises the premium by at most the slope times what it raises the
\* utilization.
LEMMA PremiumGrowth ==
    ASSUME NEW slope \in Nat, NEW u \in 0 .. Scale, NEW w \in 0 .. Scale, NEW z \in w .. Scale
    PROVE  PremiumBps(slope, u, z) <= PremiumBps(slope, u, w) + slope * (z - w)
<1> DEFINE Q(x) == x * x + u * x + u * u
           k == slope * (z - w)
           P == PremiumBps(slope, u, w)
           D == 3 * Scale
<1>1. /\ u \in Nat /\ w \in Nat /\ z \in Nat /\ z - w \in Nat /\ Scale \in Nat \ {0}
      /\ u <= Scale /\ w <= Scale /\ z <= Scale /\ D \in Nat \ {0}
  BY FeeAssumption
<1>2. /\ PremiumBps(slope, u, w) = CeilDiv(slope * Q(w), D)
      /\ PremiumBps(slope, u, z) = CeilDiv(slope * Q(z), D)
  BY DEF PremiumBps
<1>3. Q(w) \in Nat /\ Q(z) \in Nat /\ k \in Nat
  <2>1. /\ w * w \in Nat /\ u * w \in Nat /\ u * u \in Nat /\ z * z \in Nat /\ u * z \in Nat
        /\ slope * (z - w) \in Nat
    BY <1>1
  <2> QED BY <2>1
<1>4. slope * Q(w) \in Nat /\ slope * Q(z) \in Nat
  <2> HIDE DEF Q
  <2> QED BY <1>3
<1>5. P \in Nat /\ slope * Q(w) <= D * P
  <2> HIDE DEF Q, D
  <2> QED BY <1>1, <1>2, <1>4, CeilDivBounds
<1>6. Q(z) = Q(w) + (z - w) * (z + w + u)
  BY <1>1
<1>7. (z - w) * (z + w + u) <= (z - w) * D
  <2>1. z + w + u \in Nat /\ z + w + u <= D
    BY <1>1
  <2> HIDE DEF D
  <2> QED BY <1>1, <2>1, TimesMonotone
<1>8. slope * Q(z) <= slope * Q(w) + k * D
  <2>1. Q(z) <= Q(w) + (z - w) * D /\ (z - w) * D \in Nat
    BY <1>1, <1>3, <1>6, <1>7
  <2> HIDE DEF Q, D
  <2>2. slope * Q(z) <= slope * (Q(w) + (z - w) * D)
    BY <1>3, <2>1, TimesMonotone
  <2>3. slope * (Q(w) + (z - w) * D) = slope * Q(w) + slope * ((z - w) * D)
    BY <1>3, <2>1
  <2>4. slope * ((z - w) * D) = (slope * (z - w)) * D
    BY <1>1
  <2> QED BY <1>3, <1>4, <2>2, <2>3, <2>4
<1> HIDE DEF Q, k, P, D
<1>9. slope * Q(z) <= D * (P + k)
  <2>1. D * (P + k) = D * P + k * D
    BY <1>1, <1>3, <1>5
  <2>2. D * P \in Nat /\ k * D \in Nat
    BY <1>1, <1>3, <1>5
  <2> QED BY <1>4, <1>5, <1>8, <2>1, <2>2
<1>10. CeilDiv(slope * Q(z), D) <= P + k
  BY <1>1, <1>3, <1>4, <1>5, <1>9, CeilDivBounds
<1> QED BY <1>2, <1>10 DEF P, k

\* A larger fill raises the utilization in proportion, up to its rounding.
LEMMA UtilizationGrowth ==
    ASSUME NEW capacity \in Nat \ {0}, NEW from \in Nat, NEW to \in from .. capacity
    PROVE  capacity * (Utilization(to, capacity) - Utilization(from, capacity))
              <= (to - from) * Scale + capacity
<1> DEFINE a == (from * Scale) \div capacity
           b == (to * Scale) \div capacity
<1>1. Scale \in Nat /\ to \in Nat /\ from <= to
  BY FeeAssumption
<1>2. Utilization(from, capacity) = a /\ Utilization(to, capacity) = b
  BY DEF Utilization
<1>3. from * Scale \in Nat /\ to * Scale \in Nat
  BY <1>1
<1>4. /\ a \in Nat /\ b \in Nat
      /\ capacity * b <= to * Scale /\ from * Scale < capacity * a + capacity
  BY <1>3, DivBounds
<1> HIDE DEF a, b
<1>5. capacity * (b - a) = capacity * b - capacity * a
  BY <1>4
<1>6. (to - from) * Scale = to * Scale - from * Scale
  BY <1>1
<1>7. capacity * a \in Nat /\ capacity * b \in Nat
  BY <1>4
<1> QED BY <1>2, <1>3, <1>4, <1>5, <1>6, <1>7

\* A search whose numbers are far enough below the scale: at the constants of the code
\* and the highest fee, an epoch of at most 98 * 10^18 value units.
FineGrained(search) ==
    (search.fee.maximum + search.fee.slope) * Scale + search.fee.slope * search.baseline
        <= Bps * Scale

\* What the lemmas on fees need of a search and two fills.
Compared(search, fill, larger) ==
    /\ search.fee \in FeeConfig /\ ValidFeeConfig(search.fee)
    /\ search.baseline \in Nat \ {0} /\ search.consumed \in Nat
    /\ fill \in Nat /\ larger \in Nat /\ fill <= larger
    /\ search.consumed + larger <= search.baseline

\* The fee a fill is charged.
Total(search, fill) ==
    TotalFee(fill, search.fee, Utilization(search.consumed, search.baseline),
             Utilization(search.consumed + fill, search.baseline))

\* A larger fill costs at most what it is larger by.
LEMMA FeeGrowth ==
    ASSUME NEW search, NEW fill, NEW larger, Compared(search, fill, larger), FineGrained(search)
    PROVE  /\ Total(search, fill) \in Nat /\ Total(search, larger) \in Nat
           /\ Total(search, larger) <= Total(search, fill) + (larger - fill)
<1> DEFINE c == search.fee
           n == search.baseline
           s == c.slope
           u == Utilization(search.consumed, n)
           w == Utilization(search.consumed + fill, n)
           z == Utilization(search.consumed + larger, n)
           p == FeeBps(c, u, w)
           q == FeeBps(c, u, z)
           e == larger - fill
           F == FeeDenominator
<1>1. /\ c \in FeeConfig /\ ValidFeeConfig(c) /\ n \in Nat \ {0} /\ search.consumed \in Nat
      /\ fill \in Nat /\ larger \in Nat /\ fill <= larger /\ search.consumed + larger <= n
      /\ s \in Nat /\ c.maximum \in Nat /\ c.base \in Nat /\ e \in Nat
      /\ Scale \in Nat \ {0} /\ Bps \in Nat \ {0}
  BY FeeAssumption DEF Compared, FeeConfig
<1>2. /\ u \in 0 .. Scale /\ w \in u .. Scale /\ z \in w .. Scale
      /\ n * (z - w) <= e * Scale + n
  <2>1. search.consumed + fill \in search.consumed .. n
    BY <1>1
  <2>2. search.consumed + larger \in search.consumed + fill .. n
    BY <1>1
  <2>3. (search.consumed + larger) - (search.consumed + fill) = e
    BY <1>1
  <2> HIDE DEF e, n
  <2>4. u \in 0 .. Scale /\ w \in u .. Scale
    BY <1>1, <2>1, UtilizationBounds
  <2>5. search.consumed + fill \in Nat
    BY <1>1
  <2>6. z \in w .. Scale
    BY <1>1, <2>2, <2>5, UtilizationBounds
  <2>7. n * (z - w) <= ((search.consumed + larger) - (search.consumed + fill)) * Scale + n
    BY <1>1, <2>2, <2>5, UtilizationGrowth
  <2> QED BY <2>3, <2>4, <2>6, <2>7
<1>3. Total(search, fill) = CeilDiv(fill * p, F) /\ Total(search, larger) = CeilDiv(larger * q, F)
  BY DEF Total, TotalFee
<1>4. (c.maximum + s) * Scale + s * n <= F
  BY DEF FineGrained, FeeDenominator
<1> HIDE DEF c, n, s, u, w, z, e
<1>5. /\ u \in Nat /\ w \in 0 .. Scale /\ z \in 0 .. Scale /\ z \in u .. Scale
      /\ w \in Nat /\ z \in Nat /\ z - w \in Nat
  BY <1>1, <1>2
<1>6. q <= c.maximum * Scale
  BY <1>1, <1>2, <1>5, ValidIsChargeable DEF Chargeable
<1>7. /\ PremiumBps(s, u, w) \in Nat /\ PremiumBps(s, u, z) \in Nat
      /\ PremiumBps(s, u, z) <= PremiumBps(s, u, w) + s * (z - w)
  <2>1. /\ PremiumBps(s, u, w) \in 0 .. s * Scale
        /\ PremiumBps(s, u, z) \in 0 .. s * Scale
    BY <1>1, <1>2, <1>5, PremiumAtMostSlope
  <2>2. PremiumBps(s, u, z) <= PremiumBps(s, u, w) + s * (z - w)
    BY <1>1, <1>2, <1>5, PremiumGrowth
  <2> QED BY <2>1, <2>2
<1>8. /\ p \in Nat /\ q \in Nat /\ q <= p + s * (z - w)
  <2>1. c.base * Scale \in Nat /\ s * (z - w) \in Nat
    BY <1>1, <1>5
  <2>2. p = c.base * Scale + PremiumBps(s, u, w) /\ q = c.base * Scale + PremiumBps(s, u, z)
    BY DEF FeeBps, s
  <2> QED BY <1>7, <2>1, <2>2
<1>9. F \in Nat \ {0}
  BY <1>1 DEF FeeDenominator
<1> HIDE DEF p, q, F
<1>10. fill * p \in Nat /\ larger * q \in Nat
  BY <1>1, <1>8
<1> DEFINE T == CeilDiv(fill * p, F)
           L == CeilDiv(larger * q, F)
<1>11. /\ T \in Nat /\ fill * p <= F * T
       /\ L \in Nat /\ \A k \in Nat : larger * q <= F * k => L <= k
  BY <1>9, <1>10, CeilDivBounds
<1> HIDE DEF T, L
<1>12. L <= T + e
  <2>1. CASE e = 0
    <3>1. larger = fill
      BY <1>1, <2>1 DEF e
    <3>2. z = w
      BY <3>1 DEF z, w
    <3>3. q = p
      BY <3>2 DEF q, p
    <3>4. L = T
      BY <3>1, <3>3 DEF T, L
    <3> QED BY <1>11, <2>1, <3>4
  <2>2. CASE e > 0
    <3> DEFINE a == c.maximum * Scale
               b == s * Scale
               d == s * n
               g == s * (z - w)
    <3>1. a \in Nat /\ b \in Nat /\ d \in Nat /\ g \in Nat /\ a + b + d <= F
      <4>1. (c.maximum + s) * Scale = a + b
        BY <1>1
      <4>2. a \in Nat /\ b \in Nat /\ d \in Nat /\ g \in Nat
        BY <1>1, <1>5
      <4> QED BY <1>4, <4>1, <4>2
    <3>2. fill * g <= e * b + d
      <4>1. fill <= n
        BY <1>1
      <4>2. fill * g <= n * g
        BY <1>1, <3>1, <4>1, TimesMonotone
      <4>3. n * g = s * (n * (z - w))
        BY <1>1, <1>5
      <4>4. n * (z - w) \in Nat /\ e * Scale + n \in Nat
        BY <1>1, <1>5
      <4>5. s * (n * (z - w)) <= s * (e * Scale + n)
        BY <1>1, <1>2, <4>4, TimesMonotone
      <4>6. s * (e * Scale + n) = e * b + d
        BY <1>1
      <4> HIDE DEF g, b, d
      <4>7. fill * g \in Nat /\ n * g \in Nat /\ e * b \in Nat
        BY <1>1, <3>1
      <4> QED BY <3>1, <4>2, <4>3, <4>5, <4>6, <4>7
    <3> HIDE DEF a, b, d, g
    <3>3. larger * q = fill * q + e * q
      <4>1. larger = fill + e
        BY <1>1 DEF e
      <4> QED BY <1>1, <1>8, <4>1
    <3>4. fill * q <= fill * p + fill * g
      <4>1. q <= p + g /\ p + g \in Nat
        BY <1>8, <3>1 DEF g
      <4>2. fill * q <= fill * (p + g)
        BY <1>1, <1>8, <4>1, TimesMonotone
      <4>3. fill * (p + g) = fill * p + fill * g
        BY <1>1, <1>8, <3>1
      <4> QED BY <4>2, <4>3
    <3>5. e * q <= e * a
      BY <1>1, <1>6, <1>8, <3>1, TimesMonotone DEF a
    <3>6. d <= e * d
      <4>1. 1 * d <= e * d
        BY <1>1, <2>2, <3>1, TimesMonotone
      <4> QED BY <3>1, <4>1
    <3>7. e * a + e * b + e * d <= e * F
      <4>1. e * (a + b + d) <= e * F
        BY <1>1, <1>9, <3>1, TimesMonotone
      <4>2. e * (a + b + d) = e * a + e * b + e * d
        BY <1>1, <3>1
      <4> QED BY <4>1, <4>2
    <3>8. larger * q <= F * T + F * e
      <4>1. /\ fill * q \in Nat /\ e * q \in Nat /\ fill * p \in Nat /\ fill * g \in Nat
            /\ e * a \in Nat /\ e * b \in Nat /\ e * d \in Nat /\ F * T \in Nat
            /\ e * F \in Nat /\ F * e = e * F
        BY <1>1, <1>8, <1>9, <1>11, <3>1
      <4> QED BY <1>10, <1>11, <3>1, <3>2, <3>3, <3>4, <3>5, <3>6, <3>7, <4>1
    <3>9. F * T + F * e = F * (T + e)
      BY <1>1, <1>9, <1>11
    <3> QED BY <1>1, <1>11, <3>8, <3>9
  <2> QED BY <1>1, <2>1, <2>2
<1> QED BY <1>3, <1>11, <1>12 DEF T, L, e

\* A recipient's share of a larger amount is no smaller.
LEMMA ShareMonotone ==
    ASSUME NEW m \in Nat, NEW n \in Nat, m <= n, NEW bps \in Nat, NEW base \in Nat
    PROVE  /\ Share(m, bps, base) \in Nat /\ Share(n, bps, base) \in Nat
           /\ Share(m, bps, base) <= Share(n, bps, base)
<1>1. CASE base = 0
  BY <1>1 DEF Share
<1>2. CASE base # 0
  <2> DEFINE x == m * bps
             y == n * bps
             a == x \div base
             b == y \div base
  <2>1. x \in Nat /\ y \in Nat /\ x <= y
    BY TimesMonotone
  <2>2. Share(m, bps, base) = a /\ Share(n, bps, base) = b
    BY <1>2 DEF Share
  <2> HIDE DEF x, y
  <2>3. a \in Nat /\ b \in Nat /\ base * a <= x /\ y < base * b + base
    BY <1>2, <2>1, DivBounds
  <2> HIDE DEF a, b
  <2>4. base * a < base * (b + 1)
    <3>1. base * (b + 1) = base * b + base /\ base * a \in Nat /\ base * b \in Nat
      BY <2>3
    <3> QED BY <2>1, <2>3, <3>1
  <2>5. a < b + 1
    BY <1>2, <2>3, <2>4, TimesCancels
  <2> QED BY <2>2, <2>3, <2>5
<1> QED BY <1>1, <1>2

\* What the treasury keeps of a larger fill is more by at most what it is larger by,
\* though it may be less: the shares of solver and protocol grow too.
LEMMA TreasuryGrowth ==
    ASSUME NEW search, NEW fill, NEW larger, Compared(search, fill, larger), FineGrained(search)
    PROVE  FillFees(search, larger).treasury <= FillFees(search, fill).treasury + (larger - fill)
<1> DEFINE c == search.fee
           m == BaseFee(fill, c)
           n == BaseFee(larger, c)
           s == Share(m, c.solver, c.base)
           t == Share(n, c.solver, c.base)
           p == Share(m, c.protocol, c.base)
           q == Share(n, c.protocol, c.base)
<1>1. /\ c \in FeeConfig /\ fill \in Nat /\ larger \in Nat /\ fill <= larger
      /\ c.base \in Nat /\ c.solver \in Nat /\ c.protocol \in Nat
  BY DEF Compared, FeeConfig
<1>2. /\ FillFees(search, fill).treasury = Total(search, fill) - s - p
      /\ FillFees(search, larger).treasury = Total(search, larger) - t - q
  BY DEF FillFees, Distribute, Total
<1>3. /\ Total(search, fill) \in Nat /\ Total(search, larger) \in Nat
      /\ Total(search, larger) <= Total(search, fill) + (larger - fill)
  BY FeeGrowth
<1> HIDE DEF c
<1>4. m \in Nat /\ n \in Nat /\ m <= n
  <2> DEFINE r == c.base * Scale
             F == FeeDenominator
  <2>1. r \in Nat /\ F \in Nat \ {0}
    BY <1>1, FeeAssumption DEF FeeDenominator
  <2> HIDE DEF r, F
  <2>2. fill * r \in Nat /\ larger * r \in Nat /\ fill * r <= larger * r
    BY <1>1, <2>1, TimesMonotone
  <2>3. CeilDiv(fill * r, F) <= CeilDiv(larger * r, F)
    BY <2>1, <2>2, CeilDivMonotone
  <2>4. CeilDiv(fill * r, F) \in Nat /\ CeilDiv(larger * r, F) \in Nat
    BY <2>1, <2>2, CeilDivBounds
  <2> QED BY <2>3, <2>4 DEF BaseFee, r, F
<1> HIDE DEF m, n
<1>5. s \in Nat /\ t \in Nat /\ s <= t
  BY <1>1, <1>4, ShareMonotone
<1>6. p \in Nat /\ q \in Nat /\ p <= q
  BY <1>1, <1>4, ShareMonotone
<1> HIDE DEF s, t, p, q
<1> QED BY <1>1, <1>2, <1>3, <1>5, <1>6

----------------------------------------------------------------------------
(* Two assets.                                                             *)

\* Where the worth of a portfolio grows by no more than a part of it does, the part
\* weighs no less.
LEMMA WeightGrows ==
    ASSUME NEW x \in Nat, NEW n \in Nat, x <= n,
           NEW e \in Nat, NEW k \in Int, k <= e
    PROVE  x * (n + k) <= (x + e) * n
<1>1. x * k <= e * n
  <2>1. CASE k < 0
    <3>1. x * k <= 0
      BY <2>1
    <3>2. e * n \in Nat
      OBVIOUS
    <3>3. x * k \in Int
      OBVIOUS
    <3> QED BY <3>1, <3>2, <3>3
  <2>2. CASE k >= 0
    <3>1. k \in Nat
      BY <2>2
    <3>2. x * k <= n * k /\ n * k <= n * e
      BY <3>1, TimesMonotone
    <3>3. n * e = e * n /\ x * k \in Nat /\ n * k \in Nat /\ n * e \in Nat
      BY <3>1
    <3> QED BY <3>2, <3>3
  <2> QED BY <2>1, <2>2
<1>2. x * (n + k) = x * n + x * k /\ (x + e) * n = x * n + e * n
  OBVIOUS
<1>3. x * n \in Nat /\ e * n \in Nat /\ x * k \in Int
  OBVIOUS
<1> QED BY <1>1, <1>2, <1>3

\* A weight that is no more than another one is under every maximum that one is under,
LEMMA MaximumKept ==
    ASSUME NEW x \in Nat, NEW n \in Nat, NEW y \in Nat, NEW m \in Nat \ {0}, NEW max \in Nat,
           x * m <= y * n, Bps * y <= m * max
    PROVE  Bps * x <= n * max
<1>1. Bps \in Nat \ {0}
  BY FeeAssumption
<1> DEFINE l == Bps * x
           r == n * max
<1>2. l \in Nat /\ r \in Nat
  BY <1>1
<1>3. m * l <= m * r
  <2>1. m * l = Bps * (x * m)
    BY <1>1
  <2>2. Bps * (x * m) <= Bps * (y * n)
    BY <1>1, TimesMonotone
  <2>3. Bps * (y * n) = (Bps * y) * n
    BY <1>1
  <2>4. (Bps * y) * n <= (m * max) * n
    BY <1>1, TimesMonotone
  <2>5. (m * max) * n = m * r
    OBVIOUS
  <2>6. m * l \in Nat /\ Bps * (x * m) \in Nat /\ Bps * (y * n) \in Nat /\ (m * max) * n \in Nat
    BY <1>1, <1>2
  <2> HIDE DEF l, r
  <2> QED BY <2>1, <2>2, <2>3, <2>4, <2>5, <2>6
<1> HIDE DEF l, r
<1>4. l <= r
  <2> SUFFICES ASSUME r < l PROVE FALSE
    BY <1>2
  <2>1. r + 1 <= l
    BY <1>2
  <2>2. m * (r + 1) <= m * l
    BY <1>2, <2>1, TimesMonotone
  <2>3. m * (r + 1) = m * r + m /\ m * r \in Nat /\ m * l \in Nat
    BY <1>2
  <2> QED BY <1>3, <2>2, <2>3
<1> QED BY <1>4 DEF l, r

\* and one that is no less is over every minimum.
LEMMA MinimumKept ==
    ASSUME NEW x \in Nat, NEW n \in Nat, NEW y \in Nat, NEW m \in Nat \ {0}, NEW min \in Nat,
           y * n <= x * m, m * min <= Bps * y
    PROVE  n * min <= Bps * x
<1>1. Bps \in Nat \ {0}
  BY FeeAssumption
<1> DEFINE l == Bps * x
           r == n * min
<1>2. l \in Nat /\ r \in Nat
  BY <1>1
<1>3. m * r <= m * l
  <2>1. m * r = (m * min) * n
    OBVIOUS
  <2>2. (m * min) * n <= (Bps * y) * n
    BY <1>1, TimesMonotone
  <2>3. (Bps * y) * n = Bps * (y * n)
    BY <1>1
  <2>4. Bps * (y * n) <= Bps * (x * m)
    BY <1>1, TimesMonotone
  <2>5. Bps * (x * m) = m * l
    BY <1>1
  <2>6. m * r \in Nat /\ (m * min) * n \in Nat /\ Bps * (y * n) \in Nat /\ Bps * (x * m) \in Nat
    BY <1>1, <1>2
  <2> HIDE DEF l, r
  <2> QED BY <2>1, <2>2, <2>3, <2>4, <2>5, <2>6
<1> HIDE DEF l, r
<1>4. r <= l
  <2> SUFFICES ASSUME l < r PROVE FALSE
    BY <1>2
  <2>1. l + 1 <= r
    BY <1>2
  <2>2. m * (l + 1) <= m * r
    BY <1>2, <2>1, TimesMonotone
  <2>3. m * (l + 1) = m * l + m /\ m * l \in Nat /\ m * r \in Nat
    BY <1>2
  <2> QED BY <1>3, <2>2, <2>3
<1> QED BY <1>4 DEF l, r

\* A problem of two assets.
IsPair(p) == DOMAIN p.search.values = {p.search.input, p.search.output}

\* The portfolio after a fill of a pair.
LEMMA PairAfter ==
    ASSUME NEW p, IsProblem(p), IsPair(p), NEW fill \in Nat,
           p.search.consumed + fill <= p.search.baseline,
           fill <= p.search.values[p.search.output]
    PROVE  LET after == PreviewFeeInclusiveTrade(p.search, fill)
               a     == p.search.input
               b     == p.search.output
               share == FillFees(p.search, fill).treasury
           IN  /\ after \in [{a, b} -> Nat]
               /\ after[a] = p.search.values[a] + fill
               /\ after[b] = p.search.values[b] - fill + share
               /\ Nav(after) = after[a] + after[b]
               /\ Nav(after) = Nav(p.search.values) + share
               /\ share \in 0 .. fill
               /\ FillFees(p.search, fill).total <= fill
<1> DEFINE search == p.search
           a      == search.input
           b      == search.output
           v      == search.values
           share  == FillFees(search, fill).treasury
           after  == PreviewFeeInclusiveTrade(search, fill)
<1>1. /\ search.fee \in FeeConfig /\ ValidFeeConfig(search.fee)
      /\ search.baseline \in Nat \ {0} /\ search.consumed \in Nat
      /\ v \in [{a, b} -> Nat] /\ a # b
  BY ProblemAssumption DEF IsProblem, IsPair
<1>2. p.search = search /\ search.consumed + fill <= search.baseline /\ fill <= v[b]
  OBVIOUS
<1>3. share \in 0 .. fill /\ FillFees(search, fill).total <= fill
  <2> DEFINE before == Utilization(search.consumed, search.baseline)
             later  == Utilization(search.consumed + fill, search.baseline)
  <2> HIDE DEF search
  <2>1. share \in 0 .. fill
    BY <1>1, <1>2, TreasuryShare
  <2>2. before \in 0 .. Scale /\ later \in before .. Scale
    BY <1>1, <1>2, UtilizationBounds
  <2>3. FillFees(search, fill) = Distribute(fill, search.fee, before, later)
    BY DEF FillFees
  <2> HIDE DEF before, later
  <2>4. later \in 0 .. Scale
    BY <2>2, FeeAssumption
  <2>5. Chargeable(search.fee, before, later)
    BY <1>1, <2>2, ValidIsChargeable
  <2>6. Distribute(fill, search.fee, before, later).total <= fill
    BY <1>1, <2>2, <2>4, <2>5, DistributionReconciles
  <2> QED BY <2>1, <2>3, <2>6
<1>4. after = [v EXCEPT ![a] = @ + fill, ![b] = @ - fill + share]
  BY DEF PreviewFeeInclusiveTrade
<1> HIDE DEF after, share, v, a, b, search
<1>5. v[a] \in Nat /\ v[b] \in Nat
  BY <1>1
<1>6. after[a] = v[a] + fill /\ after[b] = v[b] - fill + share
  BY <1>1, <1>4
<1>7. after \in [{a, b} -> Nat]
  <2>1. v[a] + fill \in Nat /\ v[b] - fill + share \in Nat
    BY <1>2, <1>3, <1>5 DEF b, v
  <2> QED BY <1>1, <1>4, <2>1
<1>8. Nav(after) = after[a] + after[b] /\ Nav(v) = v[a] + v[b]
  BY <1>1, <1>7, NavOfPair
<1>9. Nav(after) = Nav(v) + share
  BY <1>3, <1>5, <1>6, <1>8
<1> QED BY <1>2, <1>3, <1>6, <1>7, <1>8, <1>9 DEF after, share, v, a, b

\* Where a larger fill of a pair is safe, a smaller one is: as the fill grows the input
\* asset's weight only grows and the output asset's only falls, so that just the
\* maximum of the one and the minimum of the other can be left.
LEMMA SmallerIsSafe ==
    ASSUME NEW p, IsProblem(p), IsPair(p), FineGrained(p.search),
           NEW fill \in Nat, NEW larger \in Nat, fill <= larger,
           p.search.consumed + larger <= p.search.baseline,
           larger <= p.search.values[p.search.output],
           IsSafe(p.search, larger)
    PROVE  IsSafe(p.search, fill)
<1> DEFINE search == p.search
           a      == search.input
           b      == search.output
           v      == search.values
           min(t) == search.bounds[t].min
           max(t) == search.bounds[t].max
           g      == FillFees(search, fill).treasury
           h      == FillFees(search, larger).treasury
           w      == PreviewFeeInclusiveTrade(search, fill)
           z      == PreviewFeeInclusiveTrade(search, larger)
           e      == larger - fill
<1>1. /\ search.fee \in FeeConfig /\ ValidFeeConfig(search.fee)
      /\ search.baseline \in Nat \ {0} /\ search.consumed \in Nat
      /\ DOMAIN v = {a, b} /\ v \in [{a, b} -> Nat] /\ a # b
      /\ min(a) \in Nat /\ min(b) \in Nat /\ max(a) \in Nat /\ max(b) \in Nat
      /\ WithinBounds(v, search.bounds)
  <2>1. DOMAIN v = {a, b} /\ p \in Problems /\ WithinBounds(v, search.bounds)
    BY DEF IsPair, IsProblem
  <2>2. a \in DOMAIN v /\ b \in DOMAIN v
    BY <2>1
  <2>3. min(a) \in Nat /\ min(b) \in Nat /\ max(a) \in Nat /\ max(b) \in Nat
    BY <2>1, <2>2, ProblemAssumption
  <2> QED BY <2>1, <2>3, ProblemAssumption
<1>2. /\ p.search = search /\ search.consumed + fill <= search.baseline
      /\ search.consumed + larger <= search.baseline
      /\ larger <= v[b] /\ fill <= v[b] /\ v[b] \in Nat /\ v[a] \in Nat
  <2>1. search.consumed \in Nat /\ search.baseline \in Nat /\ v[b] \in Nat /\ v[a] \in Nat
    BY <1>1
  <2>2. search.consumed + larger <= search.baseline /\ larger <= v[b]
    OBVIOUS
  <2> HIDE DEF search, v
  <2> QED BY <2>1, <2>2 DEF search
<1>3. /\ w \in [{a, b} -> Nat] /\ w[a] = v[a] + fill /\ w[b] = v[b] - fill + g
      /\ Nav(w) = w[a] + w[b] /\ Nav(w) = Nav(v) + g /\ g \in 0 .. fill
      /\ FillFees(search, fill).total <= fill
  BY <1>2, PairAfter
<1>4. /\ z \in [{a, b} -> Nat] /\ z[a] = v[a] + larger /\ z[b] = v[b] - larger + h
      /\ Nav(z) = z[a] + z[b] /\ Nav(z) = Nav(v) + h /\ h \in 0 .. larger
  BY <1>2, PairAfter
<1>5. h <= g + e
  <2>1. Compared(search, fill, larger)
    BY <1>1, <1>2 DEF Compared
  <2>2. FineGrained(search)
    OBVIOUS
  <2> HIDE DEF search
  <2> QED BY <2>1, <2>2, TreasuryGrowth
<1>6. WithinBounds(z, search.bounds)
  BY DEF IsSafe
<1>7. IsSafe(search, fill) <=> WithinBounds(w, search.bounds)
  BY <1>3 DEF IsSafe
<1> HIDE DEF search, a, b, v, min, max, g, h, w, z, e
<1> DEFINE N == Nav(v)
           n == Nav(w)
           m == Nav(z)
<1>8. /\ N \in Nat \ {0} /\ n \in Nat \ {0} /\ m \in Nat \ {0}
      /\ N = v[a] + v[b] /\ n = N + g /\ m = N + h /\ n = w[a] + w[b] /\ m = z[a] + z[b]
  <2>1. N = v[a] + v[b]
    BY <1>1, NavOfPair
  <2>2. N > 0
    BY <1>1 DEF WithinBounds
  <2> QED BY <1>2, <1>3, <1>4, <2>1, <2>2
<1>9. /\ w[a] \in Nat /\ w[b] \in Nat /\ z[a] \in Nat /\ z[b] \in Nat
  BY <1>3, <1>4
<1>10. /\ N * min(a) <= Bps * v[a] /\ Bps * v[b] <= N * max(b)
       /\ m * min(b) <= Bps * z[b] /\ Bps * z[a] <= m * max(a)
  <2>1. ASSUME NEW q \in [{a, b} -> Nat], WithinBounds(q, search.bounds), Nav(q) \in Nat,
               NEW t \in {a, b}
        PROVE  Nav(q) * min(t) <= Bps * q[t] /\ Bps * q[t] <= Nav(q) * max(t)
    <3>1. q[t] \in BpsOfUp(Nav(q), min(t)) .. BpsOfDown(Nav(q), max(t))
      BY <2>1 DEF WithinBounds, min, max
    <3>2. q[t] \in Nat /\ min(t) \in Nat /\ max(t) \in Nat
      BY <1>1, <2>1
    <3> QED BY <2>1, <3>1, <3>2, WeightBounds
  <2>2. Nav(v) \in Nat /\ Nav(z) \in Nat
    BY <1>8
  <2>3. Nav(v) * min(a) <= Bps * v[a] /\ Bps * v[b] <= Nav(v) * max(b)
    BY <1>1, <2>1, <2>2
  <2>4. Nav(z) * min(b) <= Bps * z[b] /\ Bps * z[a] <= Nav(z) * max(a)
    BY <1>4, <1>6, <2>1, <2>2
  <2> QED BY <2>3, <2>4
<1> HIDE DEF N, n, m
\* The input asset's weight grows from nothing to the fill, and from there to the larger.
<1>11. v[a] * n <= w[a] * N
  <2>1. v[a] * (N + g) <= (v[a] + fill) * N
    BY <1>2, <1>3, <1>8, WeightGrows
  <2> QED BY <1>3, <1>8, <2>1
<1>12. w[a] * m <= z[a] * n
  <2>1. e \in Nat /\ z[a] = w[a] + e /\ h - g \in Int /\ h - g <= e /\ m = n + (h - g)
    BY <1>2, <1>3, <1>4, <1>5, <1>8 DEF e
  <2>2. w[a] <= n
    BY <1>8, <1>9
  <2>3. w[a] * (n + (h - g)) <= (w[a] + e) * n
    BY <1>8, <1>9, <2>1, <2>2, WeightGrows
  <2> QED BY <2>1, <2>3
\* The output asset's falls.
<1>13. w[b] * N <= v[b] * n
  <2>1. w[b] = n - w[a] /\ v[b] = N - v[a]
    BY <1>2, <1>8, <1>9
  <2>2. (n - w[a]) * N = n * N - w[a] * N /\ (N - v[a]) * n = n * N - v[a] * n
    BY <1>2, <1>8, <1>9
  <2>3. n * N \in Nat /\ w[a] * N \in Nat /\ v[a] * n \in Nat
    BY <1>2, <1>8, <1>9
  <2> QED BY <1>11, <2>1, <2>2, <2>3
<1>14. z[b] * n <= w[b] * m
  <2>1. w[b] = n - w[a] /\ z[b] = m - z[a]
    BY <1>8, <1>9
  <2>2. (n - w[a]) * m = n * m - w[a] * m /\ (m - z[a]) * n = n * m - z[a] * n
    BY <1>8, <1>9
  <2>3. n * m \in Nat /\ w[a] * m \in Nat /\ z[a] * n \in Nat
    BY <1>8, <1>9
  <2> QED BY <1>12, <2>1, <2>2, <2>3
<1>15. n * min(a) <= Bps * w[a]
  BY <1>1, <1>2, <1>8, <1>9, <1>10, <1>11, MinimumKept
<1>16. Bps * w[a] <= n * max(a)
  BY <1>1, <1>8, <1>9, <1>10, <1>12, MaximumKept
<1>17. n * min(b) <= Bps * w[b]
  BY <1>1, <1>8, <1>9, <1>10, <1>14, MinimumKept
<1>18. Bps * w[b] <= n * max(b)
  BY <1>1, <1>2, <1>8, <1>9, <1>10, <1>13, MaximumKept
<1>19. ASSUME NEW t \in {a, b}
       PROVE  w[t] \in BpsOfUp(n, min(t)) .. BpsOfDown(n, max(t))
  <2>1. /\ n * min(t) <= Bps * w[t] /\ Bps * w[t] <= n * max(t)
        /\ w[t] \in Nat /\ min(t) \in Nat /\ max(t) \in Nat
    BY <1>1, <1>9, <1>15, <1>16, <1>17, <1>18
  <2> QED BY <1>8, <2>1, WeightBounds
<1>20. WithinBounds(w, search.bounds)
  <2>1. DOMAIN w = {a, b}
    BY <1>3
  <2> QED BY <1>8, <1>19, <2>1 DEF WithinBounds, n, min, max
<1> QED BY <1>7, <1>20 DEF search

\* With two assets the search returns the largest safe fill, for every portfolio, bounds
\* and valid fee, as long as the capacity of the epoch is well below the scale of the
\* fee's fixed point (DirectSettlement._solve bisects without a proof that safety is
\* monotone).
THEOREM SearchMaximalForPairs ==
    ASSUME \A p \in Problems : FineGrained(p.search)
    PROVE  SearchSpec => []MaximalForPairs
<1>1. ASSUME SearchInv PROVE MaximalForPairs
  <2> SUFFICES ASSUME Done, Cardinality(DOMAIN problem.search.values) = 2,
                      NEW fill \in low + 1 .. Limit, Safe(fill)
               PROVE  FALSE
    BY DEF MaximalForPairs
  <2> DEFINE search == problem.search
  <2>1. /\ IsProblem(problem) /\ Limit \in Nat /\ low \in Nat /\ low <= Limit
        /\ (low < Limit => ~Safe(low + 1))
    BY <1>1 DEF SearchInv, Done
  <2>2. fill \in Nat /\ low + 1 \in Nat /\ low + 1 <= fill /\ fill <= Limit /\ ~Safe(low + 1)
    BY <2>1
  <2>3. IsPair(problem)
    <3> DEFINE S == DOMAIN search.values
               T == {search.input, search.output}
    <3>1. IsFiniteSet(S) /\ T \subseteq S /\ search.input # search.output
      BY <2>1, ProblemAssumption DEF IsProblem
    <3>2. Cardinality(T) = 2
      <4>1. IsFiniteSet({search.input}) /\ Cardinality({search.input}) = 1
        BY FS_Singleton
      <4>2. Cardinality({search.input} \cup {search.output}) = 2
        <5>1. search.output \notin {search.input}
          BY <3>1
        <5> HIDE DEF search
        <5>2. Cardinality({search.input} \cup {search.output})
                 = IF search.output \in {search.input} THEN Cardinality({search.input})
                   ELSE Cardinality({search.input}) + 1
          BY <4>1, FS_AddElement, Zenon
        <5> QED BY <4>1, <5>1, <5>2
      <4>3. {search.input} \cup {search.output} = T
        OBVIOUS
      <4> QED BY <4>2, <4>3
    <3>3. Cardinality(S) = 2
      OBVIOUS
    <3> HIDE DEF S, T
    <3>4. S = T
      BY <3>1, <3>2, <3>3, FS_Subset
    <3> QED BY <3>4 DEF S, T, IsPair
  <2>4. /\ search.consumed \in Nat /\ search.baseline \in Nat
        /\ search.consumed <= search.baseline
        /\ search.values[search.output] \in Nat
        /\ problem.requested \in Nat /\ problem.maximum \in Nat
    BY <2>1, ProblemAssumption DEF IsProblem
  <2>5. Limit <= search.baseline - search.consumed /\ Limit <= search.values[search.output]
    <3>1. search.baseline - search.consumed \in Nat
      BY <2>4
    <3> QED BY <2>4, <3>1, LeastOfFour DEF Limit, SearchLimit
  <2>6. /\ search.consumed + fill <= search.baseline
        /\ fill <= search.values[search.output]
    <3> HIDE DEF search
    <3> QED BY <2>1, <2>2, <2>4, <2>5
  <2>7. FineGrained(search)
    BY <2>1 DEF IsProblem
  <2>8. IsSafe(search, low + 1)
    BY <2>1, <2>2, <2>3, <2>6, <2>7, SmallerIsSafe DEF Safe
  <2> QED BY <2>2, <2>8 DEF Safe
<1> QED BY SearchStarts, SearchStep, <1>1, PTL DEF SearchSpec
=============================================================================
