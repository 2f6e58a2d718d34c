------------------- MODULE AurkaSepoliaSwapVMRouterProofs -------------------
(***************************************************************************)
(* Proofs about capacity epochs and settlement, for every set of tokens,   *)
(* prices, limits, balances and intents.                                   *)
(***************************************************************************)
EXTENDS AurkaSepoliaSwapVMRouter, DirectSettlementProofs

----------------------------------------------------------------------------
(* Types.                                                                  *)

\* A direction is a pair of different tokens.
LEMMA DirectionType ==
    ASSUME NEW d \in Directions
    PROVE  d[1] \in Tokens /\ d[2] \in Tokens /\ d[1] # d[2]
  BY DEF Directions

\* An intent is well-typed.
LEMMA IntentType ==
    ASSUME NEW i \in Intents
    PROVE  i.direction \in Directions /\ i.requested \in Nat
  BY RouterAssumption DEF Intent

\* Before there is a policy its limits are empty, after it they are well-typed.
LEMMA LimitsType ==
    ASSUME TypeOK, nonce > 0
    PROVE  /\ nonce \in 1 .. NonceBound
           /\ hard \in Limits /\ limits \in Limits /\ limits.maximum \in Nat
  BY RouterAssumption DEF TypeOK, Limits

\* The empty epoch is none of the opened ones.
LEMMA NoEpochIsNone == NoEpoch \notin Epochs
  BY DEF NoEpoch, Epochs

\* A value is a natural number.
LEMMA ValueType ==
    ASSUME NEW amount \in Nat, NEW price \in Nat
    PROVE  ValueUp(amount, price) \in Nat
<1>1. amount * price \in Nat
  OBVIOUS
<1>2. Unit \in Nat \ {0}
  BY RouterAssumption
<1> QED BY <1>1, <1>2, CeilDivBounds DEF ValueUp

\* What the invariant says of one direction.
LEMMA SlotType ==
    ASSUME TypeOK, NEW d \in Directions
    PROVE  /\ capacity[d] \in [epoch : Epochs \cup {NoEpoch}, consumed : Nat]
           /\ capacity[d].epoch.nonce \in Nat /\ capacity[d].epoch.certificate \in Nat
           /\ capacity[d].epoch.baseline \in Nat
           /\ opened[d] \in Limits \cup {NoLimits} /\ opened[d].maximum \in Nat
<1>1. capacity[d] \in [epoch : Epochs \cup {NoEpoch}, consumed : Nat]
  BY DEF TypeOK
<1>2. capacity[d].epoch \in Epochs \cup {NoEpoch}
  BY <1>1
<1>3. \A e \in Epochs : e.nonce \in Nat /\ e.certificate \in Nat /\ e.baseline \in Nat
  BY RouterAssumption DEF Epochs
<1>4. NoEpoch.nonce \in Nat /\ NoEpoch.certificate \in Nat /\ NoEpoch.baseline \in Nat
  BY DEF NoEpoch
<1>5. opened[d] \in Limits \cup {NoLimits}
  BY DEF TypeOK
<1>6. \A l \in Limits \cup {NoLimits} : l.maximum \in Nat
  BY DEF Limits, NoLimits
<1> QED BY <1>1, <1>2, <1>3, <1>4, <1>5, <1>6

----------------------------------------------------------------------------
(* The registries and the world.                                           *)

\* The initial state.
LEMMA RouterInit == Init => RouterInvariant
<1> SUFFICES ASSUME Init PROVE RouterInvariant
  OBVIOUS
<1>1. /\ nonce = 0 /\ serial = 0 /\ certificate = 0 /\ hard = NoLimits /\ limits = NoLimits
  BY DEF Init, Authority!Init
<1>2. TypeOK
  <2>1. trades \in Seq(Trade)
    BY DEF Init
  <2>2. balances \in Balances
    BY RouterAssumption DEF Init
  <2>3. /\ capacity \in [Directions -> [epoch : Epochs \cup {NoEpoch}, consumed : Nat]]
        /\ checkpoint \in [Directions -> Balances \cup {NoBalances}]
        /\ opened \in [Directions -> Limits \cup {NoLimits}]
    BY DEF Init
  <2>4. now \in 0 .. TimeBound /\ oracle \in [round : 1 .. RoundBound, observedAt : Nat]
    BY RouterAssumption DEF Init
  <2> QED BY <1>1, <2>1, <2>2, <2>3, <2>4, RouterAssumption DEF TypeOK
<1>3. ASSUME NEW d \in Directions PROVE EpochInvariant(d) /\ CapacityInvariant(d)
  <2>1. capacity[d] = [epoch |-> NoEpoch, consumed |-> 0] /\ opened[d] = NoLimits
    BY DEF Init
  <2>2. /\ capacity[d].epoch.nonce = 0 /\ capacity[d].epoch.certificate = 0
        /\ capacity[d].epoch.baseline = 0 /\ capacity[d].consumed = 0 /\ opened[d].maximum = 0
    BY <2>1 DEF NoEpoch, NoLimits
  <2> QED BY <1>1, <2>1, <2>2 DEF EpochInvariant, CapacityInvariant
<1> QED BY <1>1, <1>2, <1>3 DEF RouterInvariant, AuthorityInvariant

\* Governance leaves every epoch behind.
LEMMA GovernPreserves == RouterInvariant /\ Govern => RouterInvariant'
<1> SUFFICES ASSUME RouterInvariant, Govern PROVE RouterInvariant'
  OBVIOUS
<1>1. /\ nonce' \in nonce + 1 .. NonceBound /\ hard' \in HardPolicies
      /\ nonce' > nonce /\ limits' = hard' /\ certificate' = 0 /\ serial' = serial
      /\ UNCHANGED <<now, oracle, balances, capacity, checkpoint, trades, opened>>
  BY DEF Govern, Authority!Govern, worldVars, routerVars
<1>2. nonce \in Nat /\ NonceBound \in Nat /\ TypeOK
  BY RouterAssumption DEF RouterInvariant, TypeOK
<1>3. TypeOK'
  <2>1. nonce' \in 1 .. NonceBound /\ hard' \in Limits
    BY <1>1, <1>2, RouterAssumption
  <2> QED BY <1>1, <1>2, <2>1, RouterAssumption DEF TypeOK
<1>4. ASSUME NEW d \in Directions PROVE (EpochInvariant(d) /\ CapacityInvariant(d))'
  <2>1. /\ capacity[d].epoch.nonce \in Nat /\ capacity[d].epoch.nonce <= nonce
        /\ capacity[d].epoch.certificate <= serial /\ CapacityInvariant(d)
    BY <1>2, SlotType DEF RouterInvariant, EpochInvariant
  <2>2. capacity'[d].epoch.nonce < nonce'
    BY <1>1, <1>2, <2>1
  <2> QED BY <1>1, <1>2, <2>1, <2>2 DEF EpochInvariant, CapacityInvariant
<1> QED BY <1>1, <1>3, <1>4 DEF RouterInvariant, AuthorityInvariant

\* A new certificate is none that an epoch was opened under.
LEMMA CertifyPreserves == RouterInvariant /\ Certify => RouterInvariant'
<1> SUFFICES ASSUME RouterInvariant, Certify PROVE RouterInvariant'
  OBVIOUS
<1>1. /\ serial < CertificateBound /\ limits' \in CertifiedLimits
      /\ nonce' = nonce /\ hard' = hard /\ serial' = serial + 1 /\ certificate' = serial'
      /\ Authority!Tighter(limits', hard)
      /\ UNCHANGED <<now, oracle, balances, capacity, checkpoint, trades, opened>>
  BY DEF Certify, Authority!Certify, worldVars, routerVars
<1>2. serial \in Nat /\ serial' \in Nat /\ serial' > 0 /\ serial' \in 0 .. CertificateBound /\ TypeOK
  BY <1>1, RouterAssumption DEF RouterInvariant, TypeOK
<1>3. nonce # 0
  <2>1. SUFFICES ASSUME nonce = 0 PROVE FALSE
    OBVIOUS
  <2>2. hard = NoLimits
    BY <1>2, <2>1 DEF TypeOK
  <2>3. DOMAIN limits'.bounds = DOMAIN hard.bounds
    BY <1>1 DEF Authority!Tighter
  <2>4. DOMAIN limits'.bounds = Tokens
    BY <1>1, RouterAssumption DEF Limits
  <2>5. DOMAIN NoLimits.bounds = {}
    BY DEF NoLimits
  <2> QED BY <2>2, <2>3, <2>4, <2>5, RouterAssumption
<1>4. TypeOK'
  <2>1. limits' \in Limits
    BY <1>1, RouterAssumption
  <2> QED BY <1>1, <1>2, <1>3, <2>1 DEF TypeOK
<1>5. ASSUME NEW d \in Directions PROVE (EpochInvariant(d) /\ CapacityInvariant(d))'
  <2>1. /\ capacity[d].epoch.nonce <= nonce
        /\ capacity[d].epoch.certificate \in Nat /\ capacity[d].epoch.certificate <= serial
        /\ EpochInvariant(d) /\ CapacityInvariant(d)
    BY <1>2, SlotType DEF RouterInvariant, EpochInvariant
  <2>2. capacity'[d].epoch.certificate < certificate'
    BY <1>1, <1>2, <2>1
  <2> QED BY <1>1, <1>2, <2>1, <2>2 DEF EpochInvariant, CapacityInvariant
<1> QED BY <1>1, <1>2, <1>4, <1>5 DEF RouterInvariant, AuthorityInvariant

\* A lapse returns to the hard limits, which an epoch without a certificate was opened
\* under.
LEMMA LapsePreserves == RouterInvariant /\ Lapse => RouterInvariant'
<1> SUFFICES ASSUME RouterInvariant, Lapse PROVE RouterInvariant'
  OBVIOUS
<1>1. /\ nonce' = nonce /\ hard' = hard /\ serial' = serial /\ limits' = hard
      /\ certificate' = 0
      /\ UNCHANGED <<now, oracle, balances, capacity, checkpoint, trades, opened>>
  BY DEF Lapse, Authority!Lapse, worldVars, routerVars
<1>2. TypeOK'
  BY <1>1, RouterAssumption DEF RouterInvariant, TypeOK
<1>3. ASSUME NEW d \in Directions PROVE (EpochInvariant(d) /\ CapacityInvariant(d))'
  BY <1>1 DEF RouterInvariant, EpochInvariant, CapacityInvariant
<1> QED BY <1>1, <1>2, <1>3 DEF RouterInvariant, AuthorityInvariant

\* The clock, the oracle and the treasury leave registries and epochs alone.
LEMMA WorldPreserves == RouterInvariant /\ (Tick \/ AnswerPrice \/ MoveFunds) => RouterInvariant'
<1> SUFFICES ASSUME RouterInvariant, Tick \/ AnswerPrice \/ MoveFunds PROVE RouterInvariant'
  OBVIOUS
<1>1. UNCHANGED <<nonce, hard, limits, serial, certificate, capacity, checkpoint, trades, opened>>
  BY DEF Tick, AnswerPrice, MoveFunds, authorityVars, routerVars
<1>2. /\ now' \in 0 .. TimeBound
      /\ oracle' \in [round : 1 .. RoundBound, observedAt : Nat]
      /\ balances' \in Balances
  <2>1. /\ now \in 0 .. TimeBound /\ oracle \in [round : 1 .. RoundBound, observedAt : Nat]
        /\ balances \in Balances
    BY DEF RouterInvariant, TypeOK
  <2>2. CASE Tick
    BY <2>1, <2>2, RouterAssumption DEF Tick
  <2>3. CASE AnswerPrice
    <3>1. oracle.observedAt \in Nat /\ oracle.round \in 1 .. RoundBound /\ now \in Nat
      BY <2>1, RouterAssumption
    <3>2. PICK at \in oracle.observedAt .. now :
            oracle' = [round |-> oracle.round + 1, observedAt |-> at]
      BY <2>3 DEF AnswerPrice
    <3>3. at \in Nat
      BY <3>1
    <3>4. oracle.round + 1 \in 1 .. RoundBound
      BY <2>3, <3>1, RouterAssumption DEF AnswerPrice
    <3> QED BY <2>1, <2>3, <3>2, <3>3, <3>4 DEF AnswerPrice
  <2>4. CASE MoveFunds
    BY <2>1, <2>4, RouterAssumption DEF MoveFunds
  <2> QED BY <2>2, <2>3, <2>4
<1>3. TypeOK'
  BY <1>1, <1>2 DEF RouterInvariant, TypeOK
<1>4. ASSUME NEW d \in Directions PROVE (EpochInvariant(d) /\ CapacityInvariant(d))'
  BY <1>1 DEF RouterInvariant, EpochInvariant, CapacityInvariant
<1> QED BY <1>1, <1>3, <1>4 DEF RouterInvariant, AuthorityInvariant

----------------------------------------------------------------------------
(* Opening an epoch.                                                       *)

\* What an activation does: the slot of its direction gets a fresh epoch of the present
\* policy and certificate, whose baseline is within the maximum trade value.
LEMMA OpenFacts ==
    ASSUME RouterInvariant, NEW d \in Directions,
           NEW held \in Balances, OpenEpoch(d, held)
    PROVE  \E baseline \in Nat \ {0} :
              /\ EpochOver(held, baseline) \in Epochs
              /\ baseline <= limits.maximum
              /\ capacity' = [capacity EXCEPT ![d] = [epoch |-> EpochOver(held, baseline),
                                                      consumed |-> 0]]
              /\ opened' = [opened EXCEPT ![d] = limits]
              /\ UNCHANGED <<nonce, hard, limits, serial, certificate, now, oracle, balances,
                             checkpoint, trades, usedIntentIds, usedIntentNonces>>
<1>1. TypeOK /\ nonce > 0
  BY DEF RouterInvariant, OpenEpoch, PortfolioReadable
<1>2. nonce \in 1 .. NonceBound /\ limits.maximum \in Nat
  BY <1>1, LimitsType
<1>3. PICK baseline \in 1 .. limits.maximum :
         capacity' = [capacity EXCEPT ![d] = [epoch |-> EpochOver(held, baseline), consumed |-> 0]]
  BY DEF OpenEpoch
<1>4. baseline \in Nat \ {0} /\ baseline <= limits.maximum
  BY <1>2
<1>5. oracle.round \in 1 .. RoundBound /\ certificate \in 0 .. CertificateBound
  BY <1>1 DEF TypeOK
<1>6. EpochOver(held, baseline) \in Epochs
  BY <1>2, <1>4, <1>5 DEF EpochOver, Epochs
<1> QED BY <1>3, <1>4, <1>6 DEF OpenEpoch, authorityVars, worldVars

\* Whoever opens it, an epoch is opened over a balance snapshot.
LEMMA ActivationOpens ==
    ASSUME TypeOK, NEW d \in Directions,
           ActivateCapacityEpoch(d) \/ ActivateCapacityEpochFromFactory(d)
    PROVE  \E held \in Balances : OpenEpoch(d, held)
<1>1. CASE ActivateCapacityEpoch(d)
  <2>1. PICK held \in Claims : OpenEpoch(d, held)
    BY <1>1 DEF ActivateCapacityEpoch
  <2>2. held \in Balances
    BY RouterAssumption
  <2> QED BY <2>1, <2>2
<1>2. CASE ActivateCapacityEpochFromFactory(d)
  <2>1. balances \in Balances
    BY DEF TypeOK
  <2> QED BY <1>2, <2>1 DEF ActivateCapacityEpochFromFactory
<1> QED BY <1>1, <1>2

\* Opening an epoch keeps the invariant.
LEMMA OpenPreserves ==
    ASSUME RouterInvariant, NEW d \in Directions, NEW held \in Balances, OpenEpoch(d, held)
    PROVE  RouterInvariant'
<1>1. PICK baseline \in Nat \ {0} :
         /\ EpochOver(held, baseline) \in Epochs
         /\ baseline <= limits.maximum
         /\ capacity' = [capacity EXCEPT ![d] = [epoch |-> EpochOver(held, baseline),
                                                 consumed |-> 0]]
         /\ opened' = [opened EXCEPT ![d] = limits]
         /\ UNCHANGED <<nonce, hard, limits, serial, certificate, now, oracle, balances,
                        checkpoint, trades, usedIntentIds, usedIntentNonces>>
  BY OpenFacts
<1> DEFINE epoch == EpochOver(held, baseline)
<1>2. /\ epoch.nonce = nonce /\ epoch.certificate = certificate /\ epoch.baseline = baseline
  BY DEF EpochOver
<1>3. TypeOK /\ nonce > 0 /\ AuthorityInvariant
  BY DEF RouterInvariant, OpenEpoch, PortfolioReadable
<1>4. limits \in Limits /\ nonce \in Nat /\ serial \in Nat /\ certificate \in Nat
  BY <1>3, LimitsType, RouterAssumption DEF TypeOK
<1>5. capacity \in [Directions -> [epoch : Epochs \cup {NoEpoch}, consumed : Nat]]
  BY <1>3 DEF TypeOK
<1>6. opened \in [Directions -> Limits \cup {NoLimits}]
  BY <1>3 DEF TypeOK
<1> HIDE DEF epoch
<1>7. TypeOK'
  <2>1. capacity' \in [Directions -> [epoch : Epochs \cup {NoEpoch}, consumed : Nat]]
    BY <1>1, <1>5 DEF epoch
  <2>2. opened' \in [Directions -> Limits \cup {NoLimits}]
    BY <1>1, <1>4, <1>6
  <2> QED BY <1>1, <1>3, <2>1, <2>2 DEF TypeOK
<1>8. AuthorityInvariant'
  BY <1>1, <1>3 DEF AuthorityInvariant
<1>9. ASSUME NEW e \in Directions PROVE (EpochInvariant(e) /\ CapacityInvariant(e))'
  <2>1. CASE e = d
    <3>1. capacity'[e].epoch = epoch /\ capacity'[e].consumed = 0 /\ opened'[e] = limits
      BY <1>1, <1>5, <1>6, <2>1 DEF epoch
    <3>2. epoch.certificate <= serial
      BY <1>2, <1>3, <1>4 DEF AuthorityInvariant
    <3>3. certificate = 0 => limits = hard
      BY <1>3 DEF AuthorityInvariant
    <3> QED BY <1>1, <1>2, <1>4, <3>1, <3>2, <3>3 DEF EpochInvariant, CapacityInvariant
  <2>2. CASE e # d
    <3>1. capacity'[e] = capacity[e] /\ opened'[e] = opened[e]
      BY <1>1, <1>5, <1>6, <2>2
    <3> QED BY <1>1, <3>1 DEF RouterInvariant, EpochInvariant, CapacityInvariant
  <2> QED BY <2>1, <2>2
<1> QED BY <1>7, <1>8, <1>9 DEF RouterInvariant

----------------------------------------------------------------------------
(* Settling a trade.                                                       *)

\* A fill is at most what the epoch has left.
LEMMA FillFits ==
    ASSUME NEW search, NEW requested \in Nat, NEW maximum \in Nat, NEW fill \in Nat,
           search.baseline \in Nat, search.consumed \in Nat,
           search.consumed <= search.baseline, search.values[search.output] \in Nat,
           IsFill(search, requested, maximum, fill)
    PROVE  search.consumed + fill <= search.baseline
<1> DEFINE left == search.baseline - search.consumed
<1>1. left \in Nat
  OBVIOUS
<1>2. fill \in 0 .. SearchLimit(search, requested, maximum)
  BY DEF IsFill
<1>3. /\ SearchLimit(search, requested, maximum) \in Nat
      /\ SearchLimit(search, requested, maximum) <= left
  BY <1>1, LeastOfFour DEF SearchLimit
<1>4. fill <= left
  BY <1>1, <1>2, <1>3
<1> QED BY <1>4

\* The search of a settlement in a direction.
SearchOf(d) == Search(d, capacity[d].epoch.baseline, capacity[d].consumed)

\* The balances after a trade.
AfterTrade(d, received, paid) == [balances EXCEPT ![d[1]] = @ + received, ![d[2]] = @ - paid]

\* What a settlement does and what it has checked.
LEMMA ExecuteFacts ==
    ASSUME RouterInvariant, NEW intent \in Intents, ExecuteWithSwapVM(intent)
    PROVE  \E fill \in Nat \ {0}, received \in Nat, paid \in Nat :
              /\ capacity[intent.direction].consumed + fill
                    <= capacity[intent.direction].epoch.baseline
              /\ AfterTrade(intent.direction, received, paid) \in Balances
              /\ FinalPortfolio(SearchOf(intent.direction), fill,
                                AfterTrade(intent.direction, received, paid))
              /\ Settleable(intent, SearchOf(intent.direction))
              /\ Record(intent, intent.direction, fill,
                        AfterTrade(intent.direction, received, paid))
<1> DEFINE d      == intent.direction
           search == SearchOf(d)
<1>1. d \in Directions /\ intent.requested \in Nat /\ d[1] \in Tokens /\ d[2] \in Tokens
      /\ d[1] # d[2]
  BY IntentType, DirectionType
<1>2. PICK fill \in 1 .. intent.requested :
         /\ Acceptable(intent, search, fill)
         /\ Settleable(intent, search)
         /\ \E received \in Receipts(d[1], fill),
               paid \in Payments(d[2], fill, FillFees(search, fill)) :
               /\ paid <= balances[d[2]]
               /\ FinalPortfolio(search, fill, AfterTrade(d, received, paid))
               /\ Record(intent, d, fill, AfterTrade(d, received, paid))
  BY DEF ExecuteWithSwapVM, SearchOf, AfterTrade
<1>3. PICK received \in Receipts(d[1], fill),
          paid \in Payments(d[2], fill, FillFees(search, fill)) :
         /\ paid <= balances[d[2]]
         /\ FinalPortfolio(search, fill, AfterTrade(d, received, paid))
         /\ Record(intent, d, fill, AfterTrade(d, received, paid))
  BY <1>2
<1>4. received \in Nat
  BY RouterAssumption DEF Receipts
<1>5. paid \in Nat
  <2>1. \A t, v : WorthUp(t, v) \subseteq Nat
    BY RouterAssumption DEF WorthUp
  <2>2. \A a, b, c \in Nat : a + b + c \in Nat
    OBVIOUS
  <2> QED BY <2>1, <2>2 DEF Payments
<1>6. fill \in Nat \ {0}
  BY <1>1
<1>7. TypeOK /\ nonce > 0
  BY <1>2 DEF RouterInvariant, Settleable, PortfolioReadable
<1>8. balances \in [Tokens -> Nat]
  BY <1>7 DEF TypeOK, Balances
<1>9. AfterTrade(d, received, paid) \in Balances
  <2>1. /\ balances[d[1]] + received \in Nat /\ balances[d[2]] - paid \in Nat
    BY <1>1, <1>3, <1>4, <1>5, <1>8
  <2> QED BY <1>1, <1>8, <2>1 DEF AfterTrade, Balances
<1>10. capacity[d].consumed + fill <= capacity[d].epoch.baseline
  <2>1. /\ search.baseline = capacity[d].epoch.baseline /\ search.consumed = capacity[d].consumed
        /\ search.output = d[2] /\ search.values = Values(balances)
    BY DEF SearchOf, Search
  <2>2. capacity[d].epoch.baseline \in Nat /\ capacity[d].consumed \in Nat
    BY <1>1, <1>7, SlotType
  <2>3. capacity[d].consumed <= capacity[d].epoch.baseline
    BY <1>1 DEF RouterInvariant, CapacityInvariant
  <2>4. Values(balances)[d[2]] \in Nat
    <3>1. Price[oracle.round][d[2]] \in Nat /\ balances[d[2]] \in Nat
      BY <1>1, <1>7, <1>8, RouterAssumption DEF TypeOK
    <3>2. Values(balances)[d[2]] = ValueUp(balances[d[2]], Price[oracle.round][d[2]])
      BY <1>1 DEF Values
    <3> QED BY <3>1, <3>2, ValueType
  <2>5. limits.maximum \in Nat
    BY <1>7, LimitsType
  <2>6. IsFill(search, intent.requested, limits.maximum, fill)
    BY <1>2 DEF Acceptable
  <2> HIDE DEF search, d
  <2>7. search.consumed + fill <= search.baseline
    BY <1>1, <1>6, <2>1, <2>2, <2>3, <2>4, <2>5, <2>6, FillFits
  <2> QED BY <2>1, <2>7
<1> QED BY <1>2, <1>3, <1>4, <1>5, <1>6, <1>9, <1>10

\* Settling a trade keeps the invariant.
LEMMA ExecutePreserves ==
    ASSUME RouterInvariant, NEW intent \in Intents, ExecuteWithSwapVM(intent)
    PROVE  RouterInvariant'
<1> DEFINE d == intent.direction
<1>1. PICK fill \in Nat \ {0}, received \in Nat, paid \in Nat :
         /\ capacity[d].consumed + fill <= capacity[d].epoch.baseline
         /\ AfterTrade(d, received, paid) \in Balances
         /\ Settleable(intent, SearchOf(d))
         /\ Record(intent, d, fill, AfterTrade(d, received, paid))
  BY ExecuteFacts
<1> DEFINE after == AfterTrade(d, received, paid)
<1>2. d \in Directions
  BY IntentType
<1>3. TypeOK /\ nonce > 0 /\ AuthorityInvariant
  BY <1>1 DEF RouterInvariant, Settleable, PortfolioReadable
<1>4. /\ capacity \in [Directions -> [epoch : Epochs \cup {NoEpoch}, consumed : Nat]]
      /\ checkpoint \in [Directions -> Balances \cup {NoBalances}]
  BY <1>3 DEF TypeOK
<1>5. capacity[d].epoch \in Epochs
  <2>1. capacity[d].epoch \in Epochs \cup {NoEpoch}
    BY <1>2, <1>4
  <2>2. capacity[d].epoch.nonce = nonce
    BY <1>1 DEF Settleable, EpochIsCurrent
  <2>3. NoEpoch.nonce = 0
    BY DEF NoEpoch
  <2> QED BY <1>3, <2>1, <2>2, <2>3
<1>6. capacity[d].consumed + fill \in Nat
  BY <1>2, <1>4
<1> HIDE DEF d, after
<1>7. /\ capacity' = [capacity EXCEPT ![d].consumed = @ + fill]
      /\ checkpoint' = [checkpoint EXCEPT ![d] = after]
      /\ balances' = after
      /\ trades' = Append(trades, [intent |-> intent, epoch |-> capacity[d].epoch,
                                   consumedAfter |-> capacity[d].consumed + fill])
      /\ UNCHANGED <<nonce, hard, limits, serial, certificate, now, oracle, opened>>
  BY <1>1 DEF Record, authorityVars, after
<1>8. TypeOK'
  <2>1. after \in Balances
    BY <1>1 DEF after
  <2>2. capacity' \in [Directions -> [epoch : Epochs \cup {NoEpoch}, consumed : Nat]]
    BY <1>2, <1>4, <1>6, <1>7
  <2>3. checkpoint' \in [Directions -> Balances \cup {NoBalances}]
    BY <1>4, <1>7, <2>1
  <2>4. trades' \in Seq(Trade)
    <3> DEFINE trade == [intent |-> intent, epoch |-> capacity[d].epoch,
                         consumedAfter |-> capacity[d].consumed + fill]
    <3>1. trade \in Trade
      BY <1>5, <1>6 DEF Trade
    <3>2. trades \in Seq(Trade)
      BY <1>3 DEF TypeOK
    <3> HIDE DEF trade
    <3>3. Append(trades, trade) \in Seq(Trade)
      BY <3>1, <3>2
    <3> QED BY <1>7, <3>3 DEF trade
  <2> QED BY <1>3, <1>7, <2>1, <2>2, <2>3, <2>4 DEF TypeOK
<1>9. AuthorityInvariant'
  BY <1>3, <1>7 DEF AuthorityInvariant
<1>10. ASSUME NEW e \in Directions PROVE (EpochInvariant(e) /\ CapacityInvariant(e))'
  <2>1. EpochInvariant(e) /\ CapacityInvariant(e)
    BY DEF RouterInvariant
  <2>2. CASE e = d
    <3>1. /\ capacity'[e].epoch = capacity[e].epoch
          /\ capacity'[e].consumed = capacity[e].consumed + fill
      BY <1>2, <1>4, <1>7, <2>2
    <3> QED BY <1>1, <1>7, <2>1, <2>2, <3>1 DEF EpochInvariant, CapacityInvariant, d
  <2>3. CASE e # d
    <3>1. capacity'[e] = capacity[e]
      BY <1>4, <1>7, <2>3
    <3> QED BY <1>7, <2>1, <3>1 DEF EpochInvariant, CapacityInvariant
  <2> QED BY <2>2, <2>3
<1> QED BY <1>8, <1>9, <1>10 DEF RouterInvariant

\* Every step keeps the invariant.
LEMMA RouterStep == RouterInvariant /\ [Next]_vars => RouterInvariant'
<1> SUFFICES ASSUME RouterInvariant, [Next]_vars PROVE RouterInvariant'
  OBVIOUS
<1>1. CASE Govern
  BY <1>1, GovernPreserves
<1>2. CASE Certify
  BY <1>2, CertifyPreserves
<1>3. CASE Lapse
  BY <1>3, LapsePreserves
<1>4. CASE Tick \/ AnswerPrice \/ MoveFunds
  BY <1>4, WorldPreserves
<1>5. ASSUME NEW d \in Directions,
             ActivateCapacityEpoch(d) \/ ActivateCapacityEpochFromFactory(d)
      PROVE  RouterInvariant'
  <2>1. TypeOK
    BY DEF RouterInvariant
  <2>2. PICK held \in Balances : OpenEpoch(d, held)
    BY <1>5, <2>1, ActivationOpens
  <2> QED BY <2>2, OpenPreserves
<1>6. ASSUME NEW intent \in Intents, ExecuteWithSwapVM(intent) PROVE RouterInvariant'
  BY <1>6, ExecutePreserves
<1>7. CASE UNCHANGED vars
  <2>1. UNCHANGED <<nonce, hard, limits, serial, certificate, now, oracle, balances, capacity,
                    checkpoint, trades, opened>>
    BY <1>7 DEF vars, authorityVars, worldVars, routerVars
  <2>2. TypeOK'
    BY <2>1 DEF RouterInvariant, TypeOK
  <2>3. ASSUME NEW d \in Directions PROVE (EpochInvariant(d) /\ CapacityInvariant(d))'
    BY <2>1 DEF RouterInvariant, EpochInvariant, CapacityInvariant
  <2> QED BY <2>1, <2>2, <2>3 DEF RouterInvariant, AuthorityInvariant
<1> QED BY <1>1, <1>2, <1>3, <1>4, <1>5, <1>6, <1>7 DEF Next, RouterNext

\* All fills of an epoch stay within its baseline, the baseline within the maximum trade
\* value it was opened under, and an epoch that is current was opened under the limits
\* in force (_activateCapacityEpoch, executeWithSwapVM).
THEOREM RouterSafe == Spec => []RouterInvariant
  BY RouterInit, RouterStep, PTL DEF Spec

----------------------------------------------------------------------------
(* A trade settles once, and under the limits of its epoch.                *)

\* What has been traded is remembered, and was traded once.
Remembered ==
    /\ trades \in Seq(Trade)
    /\ \A i \in DOMAIN trades :
          LET intent == trades[i].intent
          IN  /\ intent.id \in usedIntentIds
              /\ <<intent.trader, intent.nonce>> \in usedIntentNonces
    /\ SettledOnce

\* A settled trade adds its intent to what is remembered.
LEMMA ExecuteRemembers ==
    ASSUME RouterInvariant, Remembered, NEW intent \in Intents, ExecuteWithSwapVM(intent)
    PROVE  Remembered'
<1>1. PICK fill \in Nat \ {0}, after \in Balances :
         /\ Settleable(intent, SearchOf(intent.direction))
         /\ Record(intent, intent.direction, fill, after)
  BY ExecuteFacts
<1> DEFINE trade == [intent |-> intent, epoch |-> capacity[intent.direction].epoch,
                     consumedAfter |-> capacity[intent.direction].consumed + fill]
           n     == Len(trades) + 1
<1>2. /\ trades' = Append(trades, trade)
      /\ usedIntentIds' = usedIntentIds \cup {intent.id}
      /\ usedIntentNonces' = usedIntentNonces \cup {<<intent.trader, intent.nonce>>}
  BY <1>1 DEF Record
<1>3. trades \in Seq(Trade) /\ trades' \in Seq(Trade)
  <2>1. RouterInvariant'
    BY ExecutePreserves
  <2> QED BY <2>1 DEF Remembered, RouterInvariant, TypeOK
<1>4. trade.intent = intent
  OBVIOUS
<1>5. /\ intent.id \notin usedIntentIds
      /\ <<intent.trader, intent.nonce>> \notin usedIntentNonces
  BY <1>1 DEF Settleable, Unused
<1> HIDE DEF trade
<1>6. /\ DOMAIN trades' = DOMAIN trades \cup {n} /\ n \notin DOMAIN trades
      /\ \A i \in DOMAIN trades : trades'[i] = trades[i]
      /\ trades'[n] = trade
  BY <1>2, <1>3
<1> HIDE DEF n
<1>7. ASSUME NEW i \in DOMAIN trades'
      PROVE  /\ trades'[i].intent.id \in usedIntentIds'
             /\ <<trades'[i].intent.trader, trades'[i].intent.nonce>> \in usedIntentNonces'
  BY <1>2, <1>4, <1>6 DEF Remembered
<1>8. SettledOnce'
  <2>1. ASSUME NEW i \in DOMAIN trades
        PROVE  /\ trades[i].intent.id # intent.id
               /\ <<trades[i].intent.trader, trades[i].intent.nonce>>
                    # <<intent.trader, intent.nonce>>
    BY <1>5 DEF Remembered
  <2> SUFFICES ASSUME NEW i \in DOMAIN trades', NEW j \in DOMAIN trades',
                      \/ trades'[i].intent.id = trades'[j].intent.id
                      \/ <<trades'[i].intent.trader, trades'[i].intent.nonce>>
                            = <<trades'[j].intent.trader, trades'[j].intent.nonce>>
               PROVE  i = j
    BY DEF SettledOnce
  <2>2. CASE i \in DOMAIN trades /\ j \in DOMAIN trades
    BY <1>6, <2>2 DEF Remembered, SettledOnce
  <2>3. CASE i = n /\ j \in DOMAIN trades
    BY <1>4, <1>6, <2>1, <2>3
  <2>4. CASE i \in DOMAIN trades /\ j = n
    BY <1>4, <1>6, <2>1, <2>4
  <2>5. CASE i = n /\ j = n
    BY <2>5
  <2> QED BY <1>6, <2>2, <2>3, <2>4, <2>5
<1> QED BY <1>3, <1>7, <1>8 DEF Remembered

\* Nothing else touches what is remembered.
LEMMA OthersForget ==
    ASSUME RouterInvariant, [Next]_vars, ~\E intent \in Intents : ExecuteWithSwapVM(intent)
    PROVE  UNCHANGED <<trades, usedIntentIds, usedIntentNonces>>
<1>1. ASSUME NEW d \in Directions,
             ActivateCapacityEpoch(d) \/ ActivateCapacityEpochFromFactory(d)
      PROVE  UNCHANGED <<trades, usedIntentIds, usedIntentNonces>>
  BY <1>1 DEF ActivateCapacityEpoch, ActivateCapacityEpochFromFactory, OpenEpoch
<1>2. CASE Govern \/ Certify \/ Lapse \/ Tick \/ AnswerPrice \/ MoveFunds
  BY <1>2 DEF Govern, Certify, Lapse, Tick, AnswerPrice, MoveFunds, routerVars
<1>3. CASE UNCHANGED vars
  BY <1>3 DEF vars, routerVars
<1> QED BY <1>1, <1>2, <1>3 DEF Next, RouterNext

\* An intent and a trader's nonce settle at most once, whatever is handed in and however
\* often (usedIntentIds, usedIntentNonces).
THEOREM RouterSettledOnce == Spec => []SettledOnce
<1>1. Init => Remembered
  BY DEF Init, Remembered, SettledOnce
<1>2. RouterInvariant /\ Remembered /\ [Next]_vars => Remembered'
  <2> SUFFICES ASSUME RouterInvariant, Remembered, [Next]_vars PROVE Remembered'
    OBVIOUS
  <2>1. CASE \E intent \in Intents : ExecuteWithSwapVM(intent)
    BY <2>1, ExecuteRemembers
  <2>2. CASE ~\E intent \in Intents : ExecuteWithSwapVM(intent)
    <3>1. UNCHANGED <<trades, usedIntentIds, usedIntentNonces>>
      BY <2>2, OthersForget
    <3> QED BY <3>1 DEF Remembered, SettledOnce
  <2> QED BY <2>1, <2>2
<1>3. Remembered => SettledOnce
  BY DEF Remembered
<1> QED BY RouterInit, RouterStep, <1>1, <1>2, <1>3, PTL DEF Spec

\* Only a settlement consumes capacity.
LEMMA OnlyExecuteConsumes ==
    ASSUME RouterInvariant, [Next]_vars, NEW d \in Directions,
           capacity'[d].consumed > capacity[d].consumed
    PROVE  \E intent \in Intents : ExecuteWithSwapVM(intent) /\ intent.direction = d
<1>1. TypeOK /\ capacity \in [Directions -> [epoch : Epochs \cup {NoEpoch}, consumed : Nat]]
  BY DEF RouterInvariant, TypeOK
<1>2. capacity[d].consumed \in Nat
  BY <1>1
<1>3. CASE Govern \/ Certify \/ Lapse \/ Tick \/ AnswerPrice \/ MoveFunds
  BY <1>2, <1>3 DEF Govern, Certify, Lapse, Tick, AnswerPrice, MoveFunds, routerVars
<1>4. ASSUME NEW e \in Directions,
             ActivateCapacityEpoch(e) \/ ActivateCapacityEpochFromFactory(e)
      PROVE  FALSE
  <2>1. PICK held \in Balances : OpenEpoch(e, held)
    BY <1>1, <1>4, ActivationOpens
  <2>2. PICK baseline \in Nat \ {0} :
          capacity' = [capacity EXCEPT ![e] = [epoch |-> EpochOver(held, baseline),
                                               consumed |-> 0]]
    BY <2>1, OpenFacts
  <2>3. capacity'[d].consumed = 0 \/ capacity'[d].consumed = capacity[d].consumed
    BY <1>1, <2>2
  <2> QED BY <1>2, <2>3
<1>5. ASSUME NEW intent \in Intents, ExecuteWithSwapVM(intent), intent.direction # d
      PROVE  FALSE
  <2>1. PICK fill \in Nat \ {0}, after \in Balances :
          Record(intent, intent.direction, fill, after)
    BY <1>5, ExecuteFacts
  <2>2. capacity'[d] = capacity[d]
    BY <1>1, <1>5, <2>1 DEF Record
  <2> QED BY <1>2, <2>2
<1>6. CASE UNCHANGED vars
  BY <1>2, <1>6 DEF vars, routerVars
<1> QED BY <1>3, <1>4, <1>5, <1>6 DEF Next, RouterNext

\* Capacity is only consumed under the limits and the prices its epoch was opened with,
\* whatever governance and certificates did in between (_validate).
THEOREM RouterSettlesUnderLimits == Spec => SettlesUnderLimitsOfItsEpoch
<1>1. ASSUME RouterInvariant, [Next]_vars, NEW d \in Directions,
             capacity'[d].consumed > capacity[d].consumed
      PROVE  opened[d] = limits /\ capacity[d].epoch.round = oracle.round
  <2>1. PICK intent \in Intents : ExecuteWithSwapVM(intent) /\ intent.direction = d
    BY <1>1, OnlyExecuteConsumes
  <2>2. Settleable(intent, SearchOf(d))
    BY <1>1, <2>1, ExecuteFacts
  <2>3. EpochIsCurrent(capacity[d].epoch)
    BY <2>1, <2>2 DEF Settleable
  <2>4. EpochInvariant(d)
    BY <1>1 DEF RouterInvariant
  <2> QED BY <2>3, <2>4 DEF EpochIsCurrent, EpochInvariant
<1>2. RouterInvariant /\ [Next]_vars =>
        [\A d \in Directions :
            capacity'[d].consumed > capacity[d].consumed =>
                /\ opened[d] = limits
                /\ capacity[d].epoch.round = oracle.round]_vars
  BY <1>1
<1> QED BY RouterInit, RouterStep, <1>2, PTL DEF Spec, SettlesUnderLimitsOfItsEpoch

----------------------------------------------------------------------------
(* Capacity and the flow of assets.                                        *)

\* CapacityMatchesFlow in one direction.
Flow(d) ==
    capacity[d].consumed > 0 =>
        LET epoch     == capacity[d].epoch
            before(t) == WorthAt(epoch, epoch.balances, t)
            after(t)  == WorthAt(epoch, checkpoint[d], t)
        IN  /\ after(d[1]) = before(d[1]) + capacity[d].consumed
            /\ after(d[2]) \in before(d[2]) - capacity[d].consumed .. before(d[2])
            /\ \A t \in Tokens \ {d[1], d[2]} : checkpoint[d][t] = epoch.balances[t]

\* The property speaks of every direction.
LEMMA FlowOfAll == CapacityMatchesFlow <=> \A d \in Directions : Flow(d)
  BY DEF CapacityMatchesFlow, Flow

\* A settlement moves exactly the value it adds to the consumption.
LEMMA ExecuteFlows ==
    ASSUME RouterInvariant, NEW intent \in Intents, ExecuteWithSwapVM(intent),
           Flow(intent.direction)
    PROVE  Flow(intent.direction)'
<1> DEFINE d      == intent.direction
           epoch  == capacity[d].epoch
           before(t) == WorthAt(epoch, epoch.balances, t)
           held(t)   == WorthAt(epoch, balances, t)
           search == SearchOf(d)
<1>1. PICK fill \in Nat \ {0}, received \in Nat, paid \in Nat :
         /\ capacity[d].consumed + fill <= epoch.baseline
         /\ AfterTrade(d, received, paid) \in Balances
         /\ FinalPortfolio(search, fill, AfterTrade(d, received, paid))
         /\ Settleable(intent, search)
         /\ Record(intent, d, fill, AfterTrade(d, received, paid))
  BY ExecuteFacts
<1> DEFINE after == AfterTrade(d, received, paid)
<1>2. d \in Directions /\ d[1] \in Tokens /\ d[2] \in Tokens /\ d[1] # d[2]
  BY IntentType, DirectionType
<1>3. TypeOK /\ nonce > 0
  BY <1>1 DEF RouterInvariant, Settleable, PortfolioReadable
<1>4. epoch.nonce = nonce /\ epoch.round = oracle.round
  BY <1>1 DEF Settleable, EpochIsCurrent
<1>5. epoch \in Epochs /\ capacity[d].consumed \in Nat
  <2>1. capacity[d] \in [epoch : Epochs \cup {NoEpoch}, consumed : Nat]
    BY <1>2, <1>3, SlotType
  <2>2. NoEpoch.nonce = 0
    BY DEF NoEpoch
  <2> QED BY <1>3, <1>4, <2>1, <2>2
<1>6. /\ epoch.balances \in [Tokens -> Nat] /\ epoch.baseline \in Nat \ {0}
      /\ epoch.round \in 1 .. RoundBound
      /\ balances \in [Tokens -> Nat] /\ after \in [Tokens -> Nat]
  BY <1>1, <1>3, <1>5 DEF Epochs, Balances, TypeOK
<1>7. ASSUME NEW t \in Tokens
      PROVE  /\ before(t) \in Nat /\ held(t) \in Nat
             /\ WorthAt(epoch, after, t) = Values(after)[t]
             /\ held(t) = Values(balances)[t]
  <2> HIDE DEF epoch, after
  <2>1. Price[epoch.round][t] \in Nat
    BY <1>6, RouterAssumption
  <2>2. epoch.balances[t] \in Nat /\ balances[t] \in Nat
    BY <1>6
  <2>3. ValueUp(epoch.balances[t], Price[epoch.round][t]) \in Nat
    BY <2>1, <2>2, ValueType
  <2>4. ValueUp(balances[t], Price[epoch.round][t]) \in Nat
    BY <2>1, <2>2, ValueType
  <2>5. epoch.round = oracle.round
    BY <1>4 DEF epoch
  <2> QED BY <2>3, <2>4, <2>5 DEF WorthAt, Values
\* What was held before the fill, seen from the opening of the epoch.
<1>8. /\ held(d[1]) = before(d[1]) + capacity[d].consumed
      /\ held(d[2]) \in before(d[2]) - capacity[d].consumed .. before(d[2])
      /\ \A t \in Tokens \ {d[1], d[2]} : balances[t] = epoch.balances[t]
  <2>1. CASE capacity[d].consumed = 0
    <3>1. balances = epoch.balances
      BY <1>1, <2>1 DEF Settleable, BalancesMatch
    <3>2. held(d[1]) = before(d[1]) /\ held(d[2]) = before(d[2])
      BY <3>1
    <3>3. before(d[1]) \in Nat /\ before(d[2]) \in Nat
      BY <1>2, <1>7
    <3> HIDE DEF held, before
    <3> QED BY <2>1, <3>1, <3>2, <3>3
  <2>2. CASE capacity[d].consumed > 0
    <3>1. balances = checkpoint[d]
      BY <1>1, <2>2 DEF Settleable, BalancesMatch
    <3> QED BY <2>2, <3>1 DEF Flow
  <2> QED BY <1>5, <2>1, <2>2
\* What the fill does to it.
<1>9. FillFees(search, fill).treasury \in 0 .. fill
  <2>1. /\ search.fee = Terms(nonce).fee /\ search.baseline = epoch.baseline
        /\ search.consumed = capacity[d].consumed
    BY DEF SearchOf, Search
  <2>2. Terms(nonce).fee \in FeeConfig /\ ValidFeeConfig(Terms(nonce).fee)
    BY <1>3, LimitsType, RouterAssumption
  <2> HIDE DEF search, epoch
  <2> QED BY <1>1, <1>5, <1>6, <2>1, <2>2, TreasuryShare DEF epoch
<1>10. /\ Values(after)[d[1]] = Values(balances)[d[1]] + fill
       /\ Values(after)[d[2]] = Values(balances)[d[2]] - fill + FillFees(search, fill).treasury
  <2>1. Values(after) = PreviewFeeInclusiveTrade(search, fill)
    BY <1>1 DEF FinalPortfolio
  <2>2. search.values = Values(balances) /\ search.input = d[1] /\ search.output = d[2]
    BY DEF SearchOf, Search
  <2>3. DOMAIN Values(balances) = Tokens /\ Values(balances) = [t \in Tokens |-> Values(balances)[t]]
    BY DEF Values
  <2> HIDE DEF search, after, d
  <2> QED BY <1>2, <2>1, <2>2, <2>3 DEF PreviewFeeInclusiveTrade
<1>11. \A t \in Tokens \ {d[1], d[2]} : after[t] = balances[t]
  BY <1>6 DEF AfterTrade
<1>12. /\ WorthAt(epoch, after, d[1]) = before(d[1]) + (capacity[d].consumed + fill)
       /\ WorthAt(epoch, after, d[2])
             \in before(d[2]) - (capacity[d].consumed + fill) .. before(d[2])
  <2>1. /\ before(d[1]) \in Nat /\ before(d[2]) \in Nat /\ held(d[1]) \in Nat /\ held(d[2]) \in Nat
        /\ WorthAt(epoch, after, d[1]) = Values(after)[d[1]] /\ held(d[1]) = Values(balances)[d[1]]
        /\ WorthAt(epoch, after, d[2]) = Values(after)[d[2]] /\ held(d[2]) = Values(balances)[d[2]]
    BY <1>2, <1>7
  <2> HIDE DEF before, held, epoch, after, search, d
  <2> QED BY <1>5, <1>8, <1>9, <1>10, <2>1
<1>13. /\ capacity'[d].epoch = epoch
       /\ capacity'[d].consumed = capacity[d].consumed + fill
       /\ checkpoint'[d] = after
  <2>1. /\ capacity \in [Directions -> [epoch : Epochs \cup {NoEpoch}, consumed : Nat]]
        /\ checkpoint \in [Directions -> Balances \cup {NoBalances}]
    BY <1>3 DEF TypeOK
  <2> HIDE DEF after
  <2> QED BY <1>1, <1>2, <2>1 DEF Record, after
<1> HIDE DEF after, epoch
<1> QED BY <1>8, <1>11, <1>12, <1>13 DEF Flow, WorthAt, ValueUp

\* A step that leaves a slot and its checkpoint alone keeps the flow of its direction.
LEMMA SameSlotFlows ==
    ASSUME NEW d, Flow(d), capacity'[d] = capacity[d], checkpoint'[d] = checkpoint[d]
    PROVE  Flow(d)'
  BY DEF Flow, WorthAt, ValueUp

\* Every step keeps the flow of every direction.
LEMMA FlowStep ==
    ASSUME RouterInvariant, CapacityMatchesFlow, [Next]_vars
    PROVE  CapacityMatchesFlow'
<1>1. TypeOK
  BY DEF RouterInvariant
<1>2. /\ capacity \in [Directions -> [epoch : Epochs \cup {NoEpoch}, consumed : Nat]]
      /\ checkpoint \in [Directions -> Balances \cup {NoBalances}]
  BY <1>1 DEF TypeOK
<1>3. ASSUME NEW d \in Directions PROVE Flow(d)'
  <2>1. Flow(d)
    BY FlowOfAll
  <2>2. CASE Govern \/ Certify \/ Lapse \/ Tick \/ AnswerPrice \/ MoveFunds \/ UNCHANGED vars
    <3>1. UNCHANGED <<capacity, checkpoint>>
      BY <2>2 DEF Govern, Certify, Lapse, Tick, AnswerPrice, MoveFunds, routerVars, vars
    <3> QED BY <2>1, <3>1, SameSlotFlows
  <2>3. ASSUME NEW e \in Directions,
               ActivateCapacityEpoch(e) \/ ActivateCapacityEpochFromFactory(e)
        PROVE  Flow(d)'
    <3>1. PICK held \in Balances : OpenEpoch(e, held)
      BY <1>1, <2>3, ActivationOpens
    <3>2. PICK baseline \in Nat \ {0} :
            /\ capacity' = [capacity EXCEPT ![e] = [epoch |-> EpochOver(held, baseline),
                                                    consumed |-> 0]]
            /\ checkpoint' = checkpoint
      BY <3>1, OpenFacts
    <3>3. CASE e = d
      <4>1. capacity'[d].consumed = 0
        BY <1>2, <3>2, <3>3
      <4> QED BY <4>1 DEF Flow
    <3>4. CASE e # d
      <4>1. capacity'[d] = capacity[d] /\ checkpoint'[d] = checkpoint[d]
        BY <1>2, <3>2, <3>4
      <4> QED BY <2>1, <4>1, SameSlotFlows
    <3> QED BY <3>3, <3>4
  <2>4. ASSUME NEW intent \in Intents, ExecuteWithSwapVM(intent) PROVE Flow(d)'
    <3>1. CASE intent.direction = d
      BY <2>1, <2>4, <3>1, ExecuteFlows
    <3>2. CASE intent.direction # d
      <4>1. PICK fill \in Nat \ {0}, after \in Balances :
              Record(intent, intent.direction, fill, after)
        BY <2>4, ExecuteFacts
      <4>2. capacity'[d] = capacity[d] /\ checkpoint'[d] = checkpoint[d]
        BY <1>2, <3>2, <4>1, IntentType DEF Record
      <4> QED BY <2>1, <4>2, SameSlotFlows
    <3> QED BY <3>1, <3>2
  <2> QED BY <2>2, <2>3, <2>4 DEF Next, RouterNext
<1>4. (\A d \in Directions : Flow(d))'
  BY <1>3
<1>5. CapacityMatchesFlow' <=> (\A d \in Directions : Flow(d))'
  BY DEF CapacityMatchesFlow, Flow
<1> QED BY <1>4, <1>5

\* The capacity an epoch has used is, to the unit, the value its fills brought in
\* (_finalizeExecution with _assertFinalAuthoritativePortfolio).
THEOREM RouterFlow == Spec => []CapacityMatchesFlow
<1>1. Init => CapacityMatchesFlow
  <2> SUFFICES ASSUME Init, NEW d \in Directions PROVE Flow(d)
    BY FlowOfAll
  <2>1. capacity[d].consumed = 0
    BY DEF Init
  <2> QED BY <2>1 DEF Flow
<1>2. RouterInvariant /\ CapacityMatchesFlow /\ [Next]_vars => CapacityMatchesFlow'
  BY FlowStep
<1> QED BY RouterInit, RouterStep, <1>1, <1>2, PTL DEF Spec

----------------------------------------------------------------------------
(* What a trade leaves behind.                                             *)

\* Only a settlement trades.
LEMMA OnlyExecuteTrades ==
    ASSUME RouterInvariant, [Next]_vars, trades' # trades
    PROVE  \E intent \in Intents : ExecuteWithSwapVM(intent)
<1>1. CASE Govern \/ Certify \/ Lapse \/ Tick \/ AnswerPrice \/ MoveFunds
  BY <1>1 DEF Govern, Certify, Lapse, Tick, AnswerPrice, MoveFunds, routerVars
<1>2. ASSUME NEW d \in Directions,
             ActivateCapacityEpoch(d) \/ ActivateCapacityEpochFromFactory(d)
      PROVE  FALSE
  BY <1>2 DEF ActivateCapacityEpoch, ActivateCapacityEpochFromFactory, OpenEpoch
<1>3. CASE UNCHANGED vars
  BY <1>3 DEF vars, routerVars
<1> QED BY <1>1, <1>2, <1>3 DEF Next, RouterNext

\* A settlement leaves the portfolio its fill promised: it is within the limits, and
\* worth the treasury's fee more than before.
LEMMA ExecuteSettlesSafely ==
    ASSUME RouterInvariant, NEW intent \in Intents, ExecuteWithSwapVM(intent)
    PROVE  LET values == Values(balances)'
               nav    == Nav(values)
           IN  /\ nav >= Nav(Values(balances))
               /\ \A t \in Tokens :
                     /\ values[t] * Bps >= nav * limits.bounds[t].min
                     /\ values[t] * Bps <= nav * limits.bounds[t].max
<1> DEFINE d      == intent.direction
           search == SearchOf(d)
           before == Values(balances)
<1>1. PICK fill \in Nat \ {0}, received \in Nat, paid \in Nat :
         /\ capacity[d].consumed + fill <= capacity[d].epoch.baseline
         /\ AfterTrade(d, received, paid) \in Balances
         /\ FinalPortfolio(search, fill, AfterTrade(d, received, paid))
         /\ Settleable(intent, search)
         /\ Record(intent, d, fill, AfterTrade(d, received, paid))
  BY ExecuteFacts
<1> DEFINE after  == Values(AfterTrade(d, received, paid))
           share  == FillFees(search, fill).treasury
<1>2. d \in Directions /\ d[1] \in Tokens /\ d[2] \in Tokens /\ d[1] # d[2]
  BY IntentType, DirectionType
<1>3. TypeOK /\ nonce > 0 /\ limits \in Limits
  <2>1. TypeOK /\ nonce > 0
    BY <1>1 DEF RouterInvariant, Settleable, PortfolioReadable
  <2> QED BY <2>1, LimitsType
<1>4. Values(balances)' = after
  BY <1>1 DEF Record, Values
<1>5. ASSUME NEW held \in Balances PROVE Values(held) \in [Tokens -> Nat]
  <2>1. ASSUME NEW t \in Tokens PROVE ValueUp(held[t], Price[oracle.round][t]) \in Nat
    <3>1. held[t] \in Nat /\ Price[oracle.round][t] \in Nat
      BY <1>3, RouterAssumption DEF TypeOK, Balances
    <3> QED BY <3>1, ValueType
  <2> QED BY <2>1 DEF Values
<1>6. before \in [Tokens -> Nat] /\ after \in [Tokens -> Nat]
  <2>1. balances \in Balances
    BY <1>3 DEF TypeOK
  <2> QED BY <1>1, <1>5, <2>1
<1>7. search.values = before /\ search.input = d[1] /\ search.output = d[2]
      /\ search.bounds = limits.bounds
  BY DEF SearchOf, Search
<1>8. share \in 0 .. fill
  <2>1. /\ search.fee = Terms(nonce).fee /\ search.baseline = capacity[d].epoch.baseline
        /\ search.consumed = capacity[d].consumed
    BY DEF SearchOf, Search
  <2>2. Terms(nonce).fee \in FeeConfig /\ ValidFeeConfig(Terms(nonce).fee)
    BY <1>3, LimitsType, RouterAssumption
  <2>3. capacity[d].epoch.baseline \in Nat /\ capacity[d].consumed \in Nat
    BY <1>2, <1>3, SlotType
  <2>4. search.baseline \in Nat \ {0} /\ search.consumed + fill <= search.baseline
    BY <1>1, <2>1, <2>3
  <2> HIDE DEF search
  <2> QED BY <2>1, <2>2, <2>3, <2>4, TreasuryShare
<1>9. after = PreviewFeeInclusiveTrade(search, fill) /\ WithinBounds(after, limits.bounds)
  BY <1>1, <1>7 DEF FinalPortfolio
<1> HIDE DEF before, after, search, share, d
<1>10. /\ after[d[1]] = before[d[1]] + fill
       /\ after[d[2]] = before[d[2]] - fill + share
       /\ \A t \in Tokens \ {d[1], d[2]} : after[t] = before[t]
  BY <1>2, <1>6, <1>7, <1>9 DEF PreviewFeeInclusiveTrade, share
<1>11. Nav(before) \in Nat /\ Nav(after) \in Nat
  BY <1>6, NavIsNat, RouterAssumption
<1>12. Nav(after) = Nav(before) + (after[d[1]] - before[d[1]]) + (after[d[2]] - before[d[2]])
  <2>1. IsFiniteSet(Tokens)
    BY RouterAssumption
  <2>2. \A t \in Tokens \ {d[1], d[2]} : after[t] = before[t]
    BY <1>10
  <2> DEFINE a == d[1]
             b == d[2]
  <2>3. a \in Tokens /\ b \in Tokens /\ a # b
        /\ \A t \in Tokens \ {a, b} : after[t] = before[t]
    BY <1>2, <2>2
  <2> HIDE DEF a, b
  <2>4. Nav(after) = Nav(before) + (after[a] - before[a]) + (after[b] - before[b])
    BY <1>6, <2>1, <2>3, NavOfTrade, SMT
  <2> QED BY <2>4 DEF a, b
<1>13. Nav(after) >= Nav(before)
  <2>1. before[d[1]] \in Nat /\ before[d[2]] \in Nat
    BY <1>2, <1>6
  <2> QED BY <1>8, <1>10, <1>11, <1>12, <2>1
<1>14. ASSUME NEW t \in Tokens
       PROVE  /\ after[t] * Bps >= Nav(after) * limits.bounds[t].min
              /\ after[t] * Bps <= Nav(after) * limits.bounds[t].max
  <2>1. limits.bounds[t].min \in Nat /\ limits.bounds[t].max \in Nat
    BY <1>3 DEF Limits, Bound
  <2>2. after[t] \in BpsOfUp(Nav(after), limits.bounds[t].min)
                        .. BpsOfDown(Nav(after), limits.bounds[t].max)
    BY <1>6, <1>9 DEF WithinBounds
  <2>3. /\ Nav(after) * limits.bounds[t].min <= Bps * after[t]
        /\ Bps * after[t] <= Nav(after) * limits.bounds[t].max
    BY <1>6, <1>11, <2>1, <2>2, WeightBounds
  <2>4. Bps * after[t] = after[t] * Bps
    BY <1>6, FeeAssumption
  <2>5. Nav(after) * limits.bounds[t].min \in Nat /\ after[t] * Bps \in Nat
    BY <1>6, <1>11, <2>1, FeeAssumption
  <2> QED BY <2>3, <2>4, <2>5
<1> QED
  <2>1. LET nav == Nav(after)
        IN  /\ nav >= Nav(Values(balances))
            /\ \A t \in Tokens : /\ after[t] * Bps >= nav * limits.bounds[t].min
                                 /\ after[t] * Bps <= nav * limits.bounds[t].max
    BY <1>13, <1>14 DEF before
  <2> QED BY <1>4, <2>1

\* After a trade every weight is within the limits in force and the portfolio is worth
\* no less than before it, for any tokens, prices and amounts that are rounded
\* (_executeWithSwapVM reads the portfolio back and checks it).
THEOREM RouterSettlesSafely == Spec => SettlesSafely
<1>1. RouterInvariant /\ [Next]_vars =>
        [trades' # trades =>
            LET values == Values(balances)'
                nav    == Nav(values)
            IN  /\ nav >= Nav(Values(balances))
                /\ \A t \in Tokens :
                      /\ values[t] * Bps >= nav * limits.bounds[t].min
                      /\ values[t] * Bps <= nav * limits.bounds[t].max]_vars
  BY OnlyExecuteTrades, ExecuteSettlesSafely
<1> QED BY RouterInit, RouterStep, <1>1, PTL DEF Spec, SettlesSafely
=============================================================================
