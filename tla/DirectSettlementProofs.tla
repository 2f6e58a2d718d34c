----------------------- MODULE DirectSettlementProofs -----------------------
(***************************************************************************)
(* Facts about the arithmetic of OptionSpaceFee and DirectSettlement, for  *)
(* every scale, fee configuration, epoch and fill.                         *)
(***************************************************************************)
EXTENDS DirectSettlement, FiniteSetTheorems, TLAPS

----------------------------------------------------------------------------
(* Arithmetic.                                                             *)

\* A floor division brackets its numerator, as in _mulDivDownSmall.
LEMMA DivBounds ==
    ASSUME NEW n \in Nat, NEW d \in Nat \ {0}
    PROVE  /\ n \div d \in Nat
           /\ d * (n \div d) <= n
           /\ n < d * (n \div d) + d
  OBVIOUS

\* Multiplying by a natural number keeps an order.
LEMMA TimesMonotone ==
    ASSUME NEW a \in Nat, NEW b \in Nat, NEW c \in Nat, a <= b
    PROVE  a * c <= b * c /\ c * a <= c * b
  OBVIOUS

\* A product is not below one of its factors when the other is positive.
LEMMA TimesCancels ==
    ASSUME NEW a \in Int, NEW b \in Int, NEW d \in Nat \ {0}, d * a < d * b
    PROVE  a < b
  OBVIOUS

\* _ceilDiv is the least natural number whose multiple covers the numerator.
LEMMA CeilDivBounds ==
    ASSUME NEW n \in Nat, NEW d \in Nat \ {0}
    PROVE  /\ CeilDiv(n, d) \in Nat
           /\ n <= d * CeilDiv(n, d)
           /\ \A k \in Nat : n <= d * k => CeilDiv(n, d) <= k
<1>1. CASE n = 0
  BY <1>1 DEF CeilDiv
<1>2. CASE n > 0
  <2> DEFINE q == (n - 1) \div d
  <2>1. q \in Nat /\ d * q <= n - 1 /\ n - 1 < d * q + d
    BY <1>2, DivBounds
  <2> HIDE DEF q
  <2>2. CeilDiv(n, d) = q + 1
    BY <1>2 DEF CeilDiv, q
  <2>3. d * (q + 1) = d * q + d
    BY <2>1
  <2>4. ASSUME NEW k \in Nat, n <= d * k  PROVE q + 1 <= k
    <3>1. d * q < d * k
      BY <2>1, <2>4
    <3>2. q < k
      BY <2>1, <3>1, TimesCancels
    <3> QED BY <2>1, <3>2
  <2> QED BY <2>1, <2>2, <2>3, <2>4
<1> QED BY <1>1, <1>2

\* _ceilDiv is monotone in its numerator.
LEMMA CeilDivMonotone ==
    ASSUME NEW m \in Nat, NEW n \in Nat, m <= n, NEW d \in Nat \ {0}
    PROVE  CeilDiv(m, d) <= CeilDiv(n, d)
  BY CeilDivBounds

----------------------------------------------------------------------------
(* calculateFeeBps.                                                        *)

\* The product of two utilizations is at most the square of the scale.
LEMMA UtilizationProduct ==
    ASSUME NEW a \in 0 .. Scale, NEW b \in 0 .. Scale
    PROVE  a * b \in 0 .. Scale * Scale
  BY FeeAssumption, TimesMonotone

\* The averaged premium never exceeds the slope: the quadratic mean of a utilization of
\* at most one is at most one, and rounding up cannot pass an integral cap.
THEOREM PremiumAtMostSlope ==
    ASSUME NEW slope \in Nat, NEW before \in 0 .. Scale, NEW after \in 0 .. Scale
    PROVE  PremiumBps(slope, before, after) \in 0 .. slope * Scale
<1> DEFINE squares == after * after + before * after + before * before
           cap     == slope * Scale
<1>1. Scale \in Nat \ {0} /\ 3 * Scale \in Nat \ {0}
  BY FeeAssumption
<1>2. squares \in 0 .. 3 * (Scale * Scale)
  BY <1>1, UtilizationProduct
<1>3. slope * squares <= slope * (3 * (Scale * Scale)) /\ slope * squares \in Nat
  BY <1>1, <1>2, TimesMonotone
<1>4. slope * (3 * (Scale * Scale)) = (3 * Scale) * cap /\ cap \in Nat
  BY <1>1
<1>5. PremiumBps(slope, before, after) = CeilDiv(slope * squares, 3 * Scale)
  BY DEF PremiumBps
<1> HIDE DEF squares, cap
<1>6. CeilDiv(slope * squares, 3 * Scale) \in 0 .. cap
  <2> DEFINE numerator == slope * squares
             divisor   == 3 * Scale
  <2>1. numerator \in Nat /\ divisor \in Nat \ {0} /\ cap \in Nat /\ numerator <= divisor * cap
    BY <1>1, <1>3, <1>4
  <2> HIDE DEF numerator, divisor
  <2>2. CeilDiv(numerator, divisor) \in 0 .. cap
    BY <2>1, CeilDivBounds
  <2> QED BY <2>2 DEF numerator, divisor
<1> QED BY <1>5, <1>6 DEF cap

\* A valid configuration never meets FeeAboveCap: every fill of an epoch can be charged.
THEOREM ValidIsChargeable ==
    ASSUME NEW config \in FeeConfig, ValidFeeConfig(config),
           NEW before \in 0 .. Scale, NEW after \in before .. Scale
    PROVE  Chargeable(config, before, after)
<1> DEFINE premium == PremiumBps(config.slope, before, after)
<1>1. Scale \in Nat /\ config.base \in Nat /\ config.slope \in Nat /\ config.maximum \in Nat
  BY FeeAssumption DEF FeeConfig
<1>2. after \in 0 .. Scale
  BY <1>1
<1>3. premium \in 0 .. config.slope * Scale
  BY <1>1, <1>2, PremiumAtMostSlope
<1>4. (config.base + config.slope) * Scale <= config.maximum * Scale
  BY <1>1, TimesMonotone DEF ValidFeeConfig
<1>5. (config.base + config.slope) * Scale = config.base * Scale + config.slope * Scale
  BY <1>1
<1>6. config.base * Scale \in Nat /\ config.slope * Scale \in Nat /\ config.maximum * Scale \in Nat
  BY <1>1
<1>7. FeeBps(config, before, after) = config.base * Scale + premium
  BY DEF FeeBps
<1> HIDE DEF premium
<1>8. FeeBps(config, before, after) <= config.maximum * Scale
  BY <1>3, <1>4, <1>5, <1>6, <1>7
<1> QED BY <1>1, <1>2, <1>8 DEF Chargeable

----------------------------------------------------------------------------
(* distribute.                                                             *)

\* The rate of a chargeable fill lies between the base rate and the whole fill.
LEMMA RateBounds ==
    ASSUME NEW config \in FeeConfig, NEW before \in 0 .. Scale, NEW after \in 0 .. Scale,
           Chargeable(config, before, after)
    PROVE  /\ config.base * Scale \in Nat
           /\ FeeBps(config, before, after) \in config.base * Scale .. FeeDenominator
           /\ FeeDenominator \in Nat \ {0}
<1> DEFINE premium == PremiumBps(config.slope, before, after)
<1>1. /\ Scale \in Nat \ {0} /\ Bps \in Nat \ {0} /\ MaxTotalFee \in 0 .. Bps
      /\ config.base \in Nat /\ config.slope \in Nat /\ config.maximum \in 0 .. MaxTotalFee
  BY FeeAssumption DEF FeeConfig, Chargeable, ValidFeeConfig
<1>2. config.base * Scale \in Nat /\ config.slope * Scale \in Nat
  BY <1>1
<1>3. premium \in Nat
  <2>1. premium \in 0 .. config.slope * Scale
    BY <1>1, PremiumAtMostSlope
  <2> QED BY <1>2, <2>1
<1>4. FeeBps(config, before, after) = config.base * Scale + premium
  BY DEF FeeBps
<1>5. config.maximum * Scale <= Bps * Scale /\ Bps * Scale \in Nat \ {0}
  BY <1>1, TimesMonotone
<1>6. FeeBps(config, before, after) <= config.maximum * Scale
  BY DEF Chargeable
<1> HIDE DEF premium
<1>7. config.maximum * Scale \in Nat
  BY <1>1
<1> QED BY <1>2, <1>3, <1>4, <1>5, <1>6, <1>7 DEF FeeDenominator

\* The fee of a chargeable fill is at most the fill, and at least its base fee.
THEOREM FeeWithinFill ==
    ASSUME NEW value \in Nat, NEW config \in FeeConfig,
           NEW before \in 0 .. Scale, NEW after \in 0 .. Scale,
           Chargeable(config, before, after)
    PROVE  /\ BaseFee(value, config) \in Nat
           /\ TotalFee(value, config, before, after) \in BaseFee(value, config) .. value
<1> DEFINE rate == FeeBps(config, before, after)
           baseRate == config.base * Scale
<1>1. baseRate \in Nat /\ rate \in baseRate .. FeeDenominator /\ FeeDenominator \in Nat \ {0}
  BY RateBounds
<1>2. TotalFee(value, config, before, after) = CeilDiv(value * rate, FeeDenominator)
  BY DEF TotalFee
<1>3. BaseFee(value, config) = CeilDiv(value * baseRate, FeeDenominator)
  BY DEF BaseFee
<1> HIDE DEF rate, baseRate
<1>4. rate \in Nat /\ baseRate <= rate /\ rate <= FeeDenominator
  BY <1>1
<1>5. /\ value * baseRate \in Nat /\ value * rate \in Nat
      /\ value * baseRate <= value * rate /\ value * rate <= value * FeeDenominator
  BY <1>1, <1>4, TimesMonotone
<1>6. value * FeeDenominator = FeeDenominator * value
  BY <1>1
<1>7. CeilDiv(value * baseRate, FeeDenominator) <= CeilDiv(value * rate, FeeDenominator)
  BY <1>1, <1>5, CeilDivMonotone
<1>8. /\ CeilDiv(value * baseRate, FeeDenominator) \in Nat
      /\ CeilDiv(value * rate, FeeDenominator) \in Nat
      /\ CeilDiv(value * rate, FeeDenominator) <= value
  BY <1>1, <1>5, <1>6, CeilDivBounds
<1> QED BY <1>2, <1>3, <1>7, <1>8

\* The two shares that are paid out never exceed the base fee together, so that the
\* treasury's subtraction cannot underflow.
LEMMA SharesWithinBase ==
    ASSUME NEW amount \in Nat, NEW s \in Nat, NEW p \in Nat, NEW base \in Nat, s + p <= base
    PROVE  /\ Share(amount, s, base) \in Nat /\ Share(amount, p, base) \in Nat
           /\ Share(amount, s, base) + Share(amount, p, base) <= amount
<1>1. CASE base = 0
  BY <1>1 DEF Share
<1>2. CASE base > 0
  <2> DEFINE x == (amount * s) \div base
             y == (amount * p) \div base
  <2>1. amount * s \in Nat /\ amount * p \in Nat
    OBVIOUS
  <2>2. x \in Nat /\ y \in Nat /\ base * x <= amount * s /\ base * y <= amount * p
    BY <1>2, <2>1, DivBounds
  <2>3. Share(amount, s, base) = x /\ Share(amount, p, base) = y
    BY <1>2 DEF Share
  <2> HIDE DEF x, y
  <2>4. amount * (s + p) <= amount * base
    BY TimesMonotone
  <2>5. base * (x + y) = base * x + base * y /\ amount * (s + p) = amount * s + amount * p
    BY <2>2
  <2>6. base * (x + y) <= base * amount
    BY <2>1, <2>2, <2>4, <2>5
  <2>7. x + y <= amount
    <3>1. SUFFICES ASSUME amount < x + y  PROVE FALSE
      BY <2>2
    <3>2. amount + 1 <= x + y
      BY <2>2, <3>1
    <3>3. base * (amount + 1) <= base * (x + y)
      BY <2>2, <3>2, TimesMonotone
    <3>4. base * (amount + 1) = base * amount + base
      OBVIOUS
    <3>5. base * amount \in Nat /\ base * (x + y) \in Nat
      BY <2>2
    <3>6. base * amount + base <= base * amount
      BY <2>2, <2>6, <3>3, <3>4
    <3> QED BY <1>2, <3>5, <3>6
  <2> QED BY <2>2, <2>3, <2>7
<1> QED BY <1>1, <1>2

\* A distribution of a chargeable fill is made of natural numbers, its shares add up to
\* the total, and the total is at most the fill.
THEOREM DistributionReconciles ==
    ASSUME NEW value \in Nat, NEW config \in FeeConfig,
           NEW before \in 0 .. Scale, NEW after \in 0 .. Scale,
           Chargeable(config, before, after)
    PROVE  LET fees == Distribute(value, config, before, after)
           IN  /\ fees.base \in Nat /\ fees.premium \in Nat /\ fees.total \in Nat
               /\ fees.solver \in Nat /\ fees.protocol \in Nat /\ fees.treasury \in Nat
               /\ fees.solver + fees.protocol + fees.treasury = fees.total
               /\ fees.total <= value
<1> DEFINE base     == BaseFee(value, config)
           total    == TotalFee(value, config, before, after)
           solver   == Share(base, config.solver, config.base)
           protocol == Share(base, config.protocol, config.base)
<1>1. base \in Nat /\ total \in base .. value
  BY FeeWithinFill
<1>2. /\ config.base \in Nat /\ config.solver \in Nat /\ config.protocol \in Nat
      /\ config.solver + config.protocol <= config.base
  BY DEF FeeConfig, Chargeable, ValidFeeConfig
<1>3. solver \in Nat /\ protocol \in Nat /\ solver + protocol <= base
  <2> HIDE DEF base
  <2> QED BY <1>1, <1>2, SharesWithinBase
<1>4. Distribute(value, config, before, after) =
        [base |-> base, premium |-> total - base, total |-> total,
         solver |-> solver, protocol |-> protocol, treasury |-> total - solver - protocol]
  BY DEF Distribute
<1> HIDE DEF base, total, solver, protocol
<1> QED BY <1>1, <1>3, <1>4

\* OptionSpaceFee.distribute: a fill of nothing pays nothing to anyone, whatever the
\* configuration and the utilization of the epoch.
THEOREM NothingCostsNothing ==
    ASSUME NEW config \in FeeConfig, NEW before \in 0 .. Scale, NEW after \in 0 .. Scale
    PROVE  Distribute(0, config, before, after) =
               [base |-> 0, premium |-> 0, total |-> 0,
                solver |-> 0, protocol |-> 0, treasury |-> 0]
<1> DEFINE rate     == FeeBps(config, before, after)
           baseRate == config.base * Scale
<1>1. config.base \in Nat /\ config.solver \in Nat /\ config.protocol \in Nat /\ Scale \in Nat
  BY FeeAssumption DEF FeeConfig
<1>2. baseRate \in Int /\ rate \in Int
  <2>1. PremiumBps(config.slope, before, after) \in Int
    <3>1. config.slope \in Nat
      BY DEF FeeConfig
    <3>2. PremiumBps(config.slope, before, after) \in 0 .. config.slope * Scale
      BY <3>1, PremiumAtMostSlope
    <3> QED BY <3>2
  <2> QED BY <1>1, <2>1 DEF FeeBps
<1>3. BaseFee(0, config) = 0 /\ TotalFee(0, config, before, after) = 0
  <2> HIDE DEF rate, baseRate
  <2>1. 0 * baseRate = 0 /\ 0 * rate = 0
    BY <1>2
  <2> QED BY <2>1 DEF BaseFee, TotalFee, CeilDiv, rate, baseRate
<1>4. Share(0, config.solver, config.base) = 0 /\ Share(0, config.protocol, config.base) = 0
  <2>1. 0 * config.solver = 0 /\ 0 * config.protocol = 0
    BY <1>1
  <2>2. config.base # 0 => 0 \div config.base = 0
    BY <1>1
  <2> QED BY <1>1, <2>1, <2>2 DEF Share
<1> QED BY <1>3, <1>4 DEF Distribute
----------------------------------------------------------------------------
(* DirectSettlement.                                                       *)

\* A utilization is a fraction of the scale and grows with what is consumed.
LEMMA UtilizationBounds ==
    ASSUME NEW capacity \in Nat \ {0}, NEW from \in Nat, NEW to \in from .. capacity
    PROVE  /\ Utilization(from, capacity) \in 0 .. Scale
           /\ Utilization(to, capacity) \in Utilization(from, capacity) .. Scale
<1> DEFINE a == (from * Scale) \div capacity
           b == (to * Scale) \div capacity
<1>1. Scale \in Nat /\ to \in Nat /\ from <= to /\ to <= capacity
  BY FeeAssumption
<1>2. Utilization(from, capacity) = a /\ Utilization(to, capacity) = b
  BY DEF Utilization
<1>3. from * Scale \in Nat /\ to * Scale \in Nat /\ from * Scale <= to * Scale
  BY <1>1, TimesMonotone
<1>4. to * Scale <= capacity * Scale
  BY <1>1, TimesMonotone
<1>5. /\ a \in Nat /\ b \in Nat
      /\ capacity * a <= from * Scale /\ capacity * b <= to * Scale
      /\ to * Scale < capacity * b + capacity
  BY <1>3, DivBounds
<1> HIDE DEF a, b
<1>6. a <= b
  <2>1. capacity * a < capacity * (b + 1)
    <3>1. capacity * (b + 1) = capacity * b + capacity
      BY <1>5
    <3>2. capacity * a \in Nat /\ capacity * b \in Nat
      BY <1>5
    <3> QED BY <1>3, <1>5, <3>1, <3>2
  <2>2. a < b + 1
    BY <1>5, <2>1, TimesCancels
  <2> QED BY <1>5, <2>2
<1>7. b <= Scale
  <2>1. capacity * b < capacity * (Scale + 1)
    <3>1. capacity * (Scale + 1) = capacity * Scale + capacity
      BY <1>1
    <3>2. capacity * b \in Nat /\ capacity * Scale \in Nat /\ to * Scale \in Nat
      BY <1>1, <1>5
    <3> QED BY <1>4, <1>5, <3>1, <3>2
  <2>2. b < Scale + 1
    BY <1>1, <1>5, <2>1, TimesCancels
  <2> QED BY <1>1, <1>5, <2>2
<1> QED BY <1>1, <1>2, <1>5, <1>6, <1>7

\* The treasury's share of a fill's fee is at most the fill.
LEMMA TreasuryShare ==
    ASSUME NEW search, NEW fill \in Nat,
           search.fee \in FeeConfig, ValidFeeConfig(search.fee),
           search.baseline \in Nat \ {0}, search.consumed \in Nat,
           search.consumed + fill <= search.baseline
    PROVE  FillFees(search, fill).treasury \in 0 .. fill
<1> DEFINE before == Utilization(search.consumed, search.baseline)
           after  == Utilization(search.consumed + fill, search.baseline)
           fees   == Distribute(fill, search.fee, before, after)
<1>1. before \in 0 .. Scale /\ after \in before .. Scale
  BY UtilizationBounds
<1>2. FillFees(search, fill) = fees
  BY DEF FillFees
<1> HIDE DEF before, after
<1>3. after \in 0 .. Scale
  BY <1>1, FeeAssumption
<1>4. Chargeable(search.fee, before, after)
  BY <1>1, ValidIsChargeable
<1>5. /\ fees.solver \in Nat /\ fees.protocol \in Nat /\ fees.treasury \in Nat
      /\ fees.solver + fees.protocol + fees.treasury = fees.total
      /\ fees.total <= fill
  BY <1>1, <1>3, <1>4, DistributionReconciles
<1> QED BY <1>2, <1>5

\* Four natural numbers have a least one: the limit the code computes with three
\* comparisons.
LEMMA LeastOfFour ==
    ASSUME NEW a \in Nat, NEW b \in Nat, NEW c \in Nat, NEW d \in Nat
    PROVE  /\ Least({a, b, c, d}) \in Nat
           /\ \A x \in {a, b, c, d} : Least({a, b, c, d}) <= x
<1>1. \E x \in {a, b, c, d} : \A y \in {a, b, c, d} : x <= y
  <2>1. \E x \in {a, b} : x <= a /\ x <= b
    OBVIOUS
  <2>2. \E x \in {c, d} : x <= c /\ x <= d
    OBVIOUS
  <2>3. PICK x \in {a, b} : x <= a /\ x <= b
    BY <2>1
  <2>4. PICK z \in {c, d} : z <= c /\ z <= d
    BY <2>2
  <2>5. CASE x <= z
    BY <2>3, <2>4, <2>5
  <2>6. CASE z <= x
    BY <2>3, <2>4, <2>6
  <2> QED BY <2>3, <2>4, <2>5, <2>6
<1>2. /\ Least({a, b, c, d}) \in {a, b, c, d}
      /\ \A y \in {a, b, c, d} : Least({a, b, c, d}) <= y
  BY <1>1 DEF Least
<1> QED BY <1>2

----------------------------------------------------------------------------
(* The worth of a portfolio.                                               *)
(*                                                                         *)
(* What SumFunction returns is shown without induction over sets: of the   *)
(* subsets for which a statement fails one is least, and it holds there.   *)

\* A set of subsets of a finite set has a least one.
LEMMA LeastSubset ==
    ASSUME NEW S, IsFiniteSet(S), NEW B, B \subseteq SUBSET S, B # {}
    PROVE  \E T \in B : \A U \in B : U \subseteq T => U = T
<1> DEFINE R == StrictSubsetOrdering(S)
<1>1. IsWellFoundedOn(R, FiniteSubsetsOf(S)) /\ FiniteSubsetsOf(S) = SUBSET S
  BY FS_StrictSubsetOrderingWellFounded, FS_FiniteSubsetsOfFinite, Zenon
<1>2. IsWellFoundedOn(R, SUBSET S)
  BY <1>1, Zenon
<1> HIDE DEF R
<1>3. PICK T \in B : \A U \in B : ~(<<U, T>> \in R)
  BY <1>2, WFMin, Zenon
<1>4. ASSUME NEW U \in B, U \subseteq T, U # T PROVE <<U, T>> \in R
  <2>1. <<U, T>> \in (SUBSET S) \X (SUBSET S)
    OBVIOUS
  <2>2. <<U, T>>[1] = U /\ <<U, T>>[2] = T
    OBVIOUS
  <2> QED BY <1>4, <2>1, <2>2 DEF R, StrictSubsetOrdering
<1>5. \A U \in B : U \subseteq T => U = T
  BY <1>3, <1>4
<1> QED BY <1>5

\* The element SumFunction takes first.
Any(s) == CHOOSE x \in s : TRUE

\* f has the sums of v over the subsets of T, taken as SumFunction takes them.
Sums(f, v, T) ==
    f = [s \in SUBSET T |-> IF s = {} THEN 0 ELSE v[Any(s)] + f[s \ {Any(s)}]]

\* That is how SumFunction defines a sum, without saying that there are any.
LEMMA NavIs ==
    ASSUME NEW v
    PROVE  Nav(v) = (CHOOSE f : Sums(f, v, DOMAIN v))[DOMAIN v]
BY DEF Nav, SumFunction, SumFunctionOnSet, FoldFunctionOnSet, MapThenFoldSet, Sums, Any

\* It is in the set, and the set without it is smaller.
LEMMA AnyIn ==
    ASSUME NEW T, NEW s \in SUBSET T, s # {}
    PROVE  Any(s) \in s /\ s \ {Any(s)} \in SUBSET T /\ s \ {Any(s)} # s
BY DEF Any

\* The sums over the subsets of a finite set are determined,
LEMMA SumsUnique ==
    ASSUME NEW v, NEW T, IsFiniteSet(T), NEW f, NEW g, Sums(f, v, T), Sums(g, v, T)
    PROVE  f = g
<1> DEFINE B == {s \in SUBSET T : f[s] # g[s]}
<1>1. f = [s \in SUBSET T |-> f[s]] /\ g = [s \in SUBSET T |-> g[s]]
  BY DEF Sums
<1>2. ASSUME NEW s \in B, \A U \in B : U \subseteq s => U = s PROVE FALSE
  <2>1. /\ f[s] = IF s = {} THEN 0 ELSE v[Any(s)] + f[s \ {Any(s)}]
        /\ g[s] = IF s = {} THEN 0 ELSE v[Any(s)] + g[s \ {Any(s)}]
    BY DEF Sums
  <2>2. s # {}
    BY <2>1
  <2>3. s \ {Any(s)} \in SUBSET T /\ s \ {Any(s)} # s /\ s \ {Any(s)} \subseteq s
    BY <2>2, AnyIn
  <2>4. s \ {Any(s)} \notin B
    BY <1>2, <2>3
  <2>5. f[s \ {Any(s)}] = g[s \ {Any(s)}]
    BY <2>3, <2>4
  <2> QED BY <2>1, <2>5
<1>3. B = {}
  <2> SUFFICES ASSUME B # {} PROVE FALSE
    OBVIOUS
  <2>1. B \subseteq SUBSET T
    OBVIOUS
  <2> HIDE DEF B
  <2>2. PICK s \in B : \A U \in B : U \subseteq s => U = s
    BY <2>1, LeastSubset
  <2> QED BY <1>2, <2>2
<1> QED BY <1>1, <1>3

\* those of a subset are among those of the set,
LEMMA SumsRestrict ==
    ASSUME NEW v, NEW T, NEW f, Sums(f, v, T), NEW U \in SUBSET T
    PROVE  Sums([s \in SUBSET U |-> f[s]], v, U)
<1> DEFINE g == [s \in SUBSET U |-> f[s]]
<1>1. ASSUME NEW s \in SUBSET U
      PROVE  g[s] = IF s = {} THEN 0 ELSE v[Any(s)] + g[s \ {Any(s)}]
  <2>1. s \in SUBSET T
    OBVIOUS
  <2>2. f[s] = IF s = {} THEN 0 ELSE v[Any(s)] + f[s \ {Any(s)}]
    BY <2>1 DEF Sums
  <2>3. s # {} => s \ {Any(s)} \in SUBSET U
    BY AnyIn
  <2> QED BY <2>2, <2>3
<1> QED BY <1>1 DEF Sums

\* and there are such sums.
LEMMA SumsExist ==
    ASSUME NEW v, NEW S, IsFiniteSet(S)
    PROVE  \E f : Sums(f, v, S)
<1> DEFINE B == {T \in SUBSET S : ~ \E f : Sums(f, v, T)}
           Of(T) == CHOOSE f : Sums(f, v, T)
<1>1. ASSUME NEW T \in B, \A U \in B : U \subseteq T => U = T PROVE FALSE
  <2> DEFINE F == [s \in SUBSET T |-> IF s = {} THEN 0
                                      ELSE v[Any(s)] + Of(s \ {Any(s)})[s \ {Any(s)}]]
  <2>1. T \in SUBSET S /\ IsFiniteSet(T)
    BY FS_Subset
  <2>2. ASSUME NEW U \in SUBSET T, U # T PROVE Sums(Of(U), v, U) /\ IsFiniteSet(U)
    <3>1. U \in SUBSET S /\ U \notin B
      BY <1>1, <2>1, <2>2
    <3>2. \E f : Sums(f, v, U)
      BY <3>1
    <3> QED BY <2>1, <3>2, FS_Subset
  <2> HIDE DEF Of
  <2>3. ASSUME NEW U \in SUBSET T, U # T PROVE F[U] = Of(U)[U]
    <3>1. Sums(Of(U), v, U)
      BY <2>2, <2>3
    <3>2. CASE U = {}
      <4>1. Of(U)[U] = 0
        BY <3>1, <3>2 DEF Sums
      <4> QED BY <3>2, <4>1
    <3>3. CASE U # {}
      <4> DEFINE W == U \ {Any(U)}
                 r == [s \in SUBSET W |-> Of(U)[s]]
      <4>1. W \in SUBSET U /\ W \in SUBSET T /\ W # T
        BY <2>3, <3>3, AnyIn
      <4>2. Sums(Of(W), v, W) /\ IsFiniteSet(W)
        BY <2>2, <4>1
      <4> HIDE DEF W
      <4>3. Sums(r, v, W)
        BY <3>1, <4>1, SumsRestrict
      <4> HIDE DEF r
      <4>4. r = Of(W)
        BY <4>2, <4>3, SumsUnique
      <4>5. Of(U)[W] = Of(W)[W]
        BY <4>4 DEF r
      <4>6. Of(U)[U] = v[Any(U)] + Of(U)[W]
        BY <3>1, <3>3 DEF Sums, W
      <4>7. F[U] = v[Any(U)] + Of(W)[W]
        BY <3>3 DEF W
      <4> QED BY <4>5, <4>6, <4>7
    <3> QED BY <3>2, <3>3
  <2>4. ASSUME NEW s \in SUBSET T
        PROVE  F[s] = IF s = {} THEN 0 ELSE v[Any(s)] + F[s \ {Any(s)}]
    <3>1. CASE s = {}
      BY <3>1
    <3>2. CASE s # {}
      <4>1. s \ {Any(s)} \in SUBSET T /\ s \ {Any(s)} # T
        BY <3>2, AnyIn
      <4>2. F[s \ {Any(s)}] = Of(s \ {Any(s)})[s \ {Any(s)}]
        BY <2>3, <4>1
      <4>3. F[s] = v[Any(s)] + Of(s \ {Any(s)})[s \ {Any(s)}]
        BY <3>2
      <4> HIDE DEF F
      <4> QED BY <3>2, <4>2, <4>3
    <3> QED BY <3>1, <3>2
  <2>5. F = [s \in SUBSET T |-> F[s]]
    OBVIOUS
  <2> HIDE DEF F
  <2>6. Sums(F, v, T)
    BY <2>4, <2>5 DEF Sums
  <2> QED BY <2>6
<1>2. B = {}
  <2> SUFFICES ASSUME B # {} PROVE FALSE
    OBVIOUS
  <2>1. B \subseteq SUBSET S
    OBVIOUS
  <2> HIDE DEF B
  <2>2. PICK T \in B : \A U \in B : U \subseteq T => U = T
    BY <2>1, LeastSubset
  <2> QED BY <1>1, <2>2
<1> QED BY <1>2

\* The sums of natural numbers are natural numbers.
LEMMA SumsAreNat ==
    ASSUME NEW T, IsFiniteSet(T), NEW v, \A t \in T : v[t] \in Nat, NEW f, Sums(f, v, T)
    PROVE  \A s \in SUBSET T : f[s] \in Nat
<1> DEFINE B == {s \in SUBSET T : f[s] \notin Nat}
<1>1. ASSUME NEW s \in B, \A U \in B : U \subseteq s => U = s PROVE FALSE
  <2>1. f[s] = IF s = {} THEN 0 ELSE v[Any(s)] + f[s \ {Any(s)}]
    BY DEF Sums
  <2>2. s # {}
    BY <2>1
  <2>3. /\ Any(s) \in s /\ s \ {Any(s)} \in SUBSET T
        /\ s \ {Any(s)} # s /\ s \ {Any(s)} \subseteq s
    BY <2>2, AnyIn
  <2>4. f[s \ {Any(s)}] \in Nat
    BY <1>1, <2>3
  <2>5. v[Any(s)] \in Nat
    BY <2>3
  <2> QED BY <2>1, <2>2, <2>4, <2>5
<1>2. B = {}
  <2> SUFFICES ASSUME B # {} PROVE FALSE
    OBVIOUS
  <2>1. B \subseteq SUBSET T
    OBVIOUS
  <2> HIDE DEF B
  <2>2. PICK s \in B : \A U \in B : U \subseteq s => U = s
    BY <2>1, LeastSubset
  <2> QED BY <1>1, <2>2
<1> QED BY <1>2

\* A portfolio's worth is a natural number.
LEMMA NavIsNat ==
    ASSUME NEW T, IsFiniteSet(T), NEW v \in [T -> Nat]
    PROVE  Nav(v) \in Nat
<1> DEFINE f == CHOOSE f : Sums(f, v, T)
<1>1. Sums(f, v, T)
  BY SumsExist
<1>2. Nav(v) = f[T]
  BY NavIs
<1> HIDE DEF f
<1> QED BY <1>1, <1>2, SumsAreNat

\* Values that differ for two tokens only are worth the difference of these more.
LEMMA NavOfTrade ==
    ASSUME NEW T, IsFiniteSet(T), NEW v \in [T -> Nat], NEW w \in [T -> Nat],
           NEW a \in T, NEW b \in T, a # b,
           \A t \in T \ {a, b} : w[t] = v[t]
    PROVE  Nav(w) = Nav(v) + (w[a] - v[a]) + (w[b] - v[b])
<1> DEFINE f == CHOOSE f : Sums(f, v, T)
           g == CHOOSE g : Sums(g, w, T)
           Of(t, s) == IF t \in s THEN w[t] - v[t] ELSE 0
           B == {s \in SUBSET T : g[s] # f[s] + Of(a, s) + Of(b, s)}
<1>1. Sums(f, v, T) /\ Sums(g, w, T)
  BY SumsExist
<1>2. Nav(v) = f[T] /\ Nav(w) = g[T]
  BY NavIs
<1> HIDE DEF f, g
<1>3. \A s \in SUBSET T : f[s] \in Nat /\ g[s] \in Nat
  BY <1>1, SumsAreNat
<1>4. ASSUME NEW s \in B, \A U \in B : U \subseteq s => U = s PROVE FALSE
  <2> DEFINE x == Any(s)
             r == s \ {x}
  <2>1. /\ f[s] = IF s = {} THEN 0 ELSE v[x] + f[r]
        /\ g[s] = IF s = {} THEN 0 ELSE w[x] + g[r]
    BY <1>1 DEF Sums
  <2>2. s # {}
    BY <2>1
  <2>3. x \in s /\ x \in T /\ r \in SUBSET T /\ r # s /\ r \subseteq s
    BY <2>2, AnyIn
  <2>4. g[r] = f[r] + Of(a, r) + Of(b, r)
    BY <1>4, <2>3
  <2>5. /\ v[x] \in Nat /\ w[x] \in Nat /\ f[r] \in Nat /\ g[r] \in Nat
        /\ v[a] \in Nat /\ w[a] \in Nat /\ v[b] \in Nat /\ w[b] \in Nat
    BY <1>3, <2>3
  <2>6. g[s] # f[s] + Of(a, s) + Of(b, s)
    OBVIOUS
  <2>7. f[s] = v[x] + f[r] /\ g[s] = w[x] + g[r]
    BY <2>1, <2>2
  <2>8. \A t \in {a, b} : t # x => (t \in s <=> t \in r)
    OBVIOUS
  <2>9. x \notin r
    OBVIOUS
  <2> HIDE DEF x, r, B
  <2>10. CASE x = a
    BY <2>3, <2>4, <2>5, <2>6, <2>7, <2>8, <2>9, <2>10
  <2>11. CASE x = b
    BY <2>3, <2>4, <2>5, <2>6, <2>7, <2>8, <2>9, <2>11
  <2>12. CASE x \notin {a, b}
    <3>1. w[x] = v[x]
      BY <2>3, <2>12
    <3> QED BY <2>4, <2>5, <2>6, <2>7, <2>8, <2>12, <3>1
  <2> QED BY <2>10, <2>11, <2>12
<1>5. B = {}
  <2> SUFFICES ASSUME B # {} PROVE FALSE
    OBVIOUS
  <2>1. B \subseteq SUBSET T
    OBVIOUS
  <2> HIDE DEF B
  <2>2. PICK s \in B : \A U \in B : U \subseteq s => U = s
    BY <2>1, LeastSubset
  <2> QED BY <1>4, <2>2
<1>6. g[T] = f[T] + (w[a] - v[a]) + (w[b] - v[b])
  BY <1>5
<1> QED BY <1>2, <1>6

\* A portfolio of two tokens is worth the two.
LEMMA NavOfPair ==
    ASSUME NEW a, NEW b, a # b, NEW v \in [{a, b} -> Nat]
    PROVE  Nav(v) = v[a] + v[b]
<1> DEFINE T == {a, b}
           f == CHOOSE f : Sums(f, v, T)
<1>1. IsFiniteSet(T)
  <2>1. IsFiniteSet({a})
    BY FS_Singleton, Zenon
  <2>2. IsFiniteSet({a} \cup {b})
    BY <2>1, FS_AddElement, Zenon
  <2> QED BY <2>2
<1>2. Sums(f, v, T)
  BY <1>1, SumsExist
<1>3. Nav(v) = f[T]
  BY NavIs
<1> HIDE DEF f
<1>4. f[{}] = 0 /\ f[T] = v[Any(T)] + f[T \ {Any(T)}]
  BY <1>2 DEF Sums
<1>5. ASSUME NEW t \in T PROVE f[{t}] = v[t]
  <2>1. Any({t}) = t
    BY DEF Any
  <2>2. {t} \in SUBSET T /\ {t} # {} /\ {t} \ {t} = {}
    OBVIOUS
  <2>3. f[{t}] = v[t] + f[{}]
    BY <1>2, <2>1, <2>2 DEF Sums
  <2> QED BY <1>4, <2>3
<1>6. CASE Any(T) = a
  <2>1. T \ {a} = {b}
    OBVIOUS
  <2> QED BY <1>3, <1>4, <1>5, <1>6, <2>1
<1>7. CASE Any(T) = b
  <2>1. T \ {b} = {a} /\ v[a] \in Nat /\ v[b] \in Nat
    OBVIOUS
  <2>2. f[T] = v[b] + f[{a}]
    BY <1>4, <1>7, <2>1
  <2>3. f[{a}] = v[a]
    BY <1>5
  <2> QED BY <1>3, <2>1, <2>2, <2>3
<1>8. Any(T) \in T
  BY DEF Any
<1> QED BY <1>6, <1>7, <1>8

\* A weight is within bounds when its exact multiples are, since a minimum is rounded
\* up and a maximum down.
LEMMA WeightBounds ==
    ASSUME NEW nav \in Nat, NEW min \in Nat, NEW max \in Nat, NEW x \in Nat
    PROVE  x \in BpsOfUp(nav, min) .. BpsOfDown(nav, max)
              <=> nav * min <= Bps * x /\ Bps * x <= nav * max
<1> DEFINE m == nav * min
           n == nav * max
<1>1. m \in Nat /\ n \in Nat /\ Bps \in Nat \ {0} /\ Bps * x \in Nat
  BY FeeAssumption
<1>2. BpsOfUp(nav, min) = CeilDiv(m, Bps) /\ BpsOfDown(nav, max) = n \div Bps
  BY DEF BpsOfUp, BpsOfDown
<1> HIDE DEF m, n
<1> DEFINE c == CeilDiv(m, Bps)
           q == n \div Bps
<1>3. c \in Nat /\ m <= Bps * c /\ \A k \in Nat : m <= Bps * k => c <= k
  BY <1>1, CeilDivBounds
<1>4. q \in Nat /\ Bps * q <= n /\ n < Bps * q + Bps
  BY <1>1, DivBounds
<1> HIDE DEF c, q
<1>5. c <= x <=> m <= Bps * x
  <2>1. ASSUME c <= x PROVE m <= Bps * x
    <3>1. Bps * c <= Bps * x /\ Bps * c \in Nat
      BY <1>1, <1>3, <2>1, TimesMonotone
    <3> QED BY <1>1, <1>3, <3>1
  <2> QED BY <1>3, <2>1
<1>6. x <= q <=> Bps * x <= n
  <2>1. ASSUME x <= q PROVE Bps * x <= n
    <3>1. Bps * x <= Bps * q /\ Bps * q \in Nat
      BY <1>1, <1>4, <2>1, TimesMonotone
    <3> QED BY <1>1, <1>4, <3>1
  <2>2. ASSUME Bps * x <= n PROVE x <= q
    <3>1. Bps * x < Bps * (q + 1)
      <4>1. Bps * (q + 1) = Bps * q + Bps /\ Bps * q \in Nat
        BY <1>1, <1>4
      <4> QED BY <1>1, <1>4, <2>2, <4>1
    <3>2. x < q + 1
      BY <1>1, <1>4, <3>1, TimesCancels
    <3> QED BY <1>4, <3>2
  <2> QED BY <2>1, <2>2
<1> QED BY <1>1, <1>2, <1>3, <1>4, <1>5, <1>6 DEF c, q, m, n
=============================================================================
