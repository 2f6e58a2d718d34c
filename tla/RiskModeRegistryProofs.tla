----------------------- MODULE RiskModeRegistryProofs -----------------------
(* Proofs about the hard policy and about risk certificates, for every set *)
(* of accounts, tokens and inputs, of watchtowers, limits, lifetimes and   *)
(* clock leads, and without a bound on what is signed.  The sums over a    *)
(* portfolio stay opaque: the proofs only use that the totals are          *)
(* validated for the very bounds that are stored.                          *)
EXTENDS RiskModeRegistry, FiniteSetTheorems, TLAPS

----------------------------------------------------------------------------
(* The hard policy.                                                        *)

\* A portfolio is a function from some of the tokens to admissible weight bounds.
LEMMA PortfolioType ==
    ASSUME NEW b
    PROVE  b \in Portfolios <=> DOMAIN b \in SUBSET Tokens /\ b \in [DOMAIN b -> WeightRanges]
  BY DEF Portfolios

\* A new policy is a well-formed one.
LEMMA NewPolicyType ==
    ASSUME NEW treasury \in Accounts, NEW governance \in Accounts, NEW bounds \in Portfolios,
           NEW value \in TradeValues, NEW fee \in Fees
    PROVE  NewPolicy(treasury, governance, bounds, value, fee) \in Policy
<1>1. /\ value \in Nat /\ fee \in FeeConfig /\ DefaultProtection \in PriceProtection
      /\ 1 \in 0 .. NonceBound
  BY PolicyAssumption DEF PriceProtection
<1>. QED
  BY <1>1 DEF NewPolicy, Policy

\* The placeholder of an absent policy is well-typed.
LEMMA NoPolicyType == NoPolicy \in Policy
<1>1. NoPolicy.bounds \in Portfolios
  <2>. DEFINE empty == [t \in {} |-> [min |-> 0, max |-> 0]]
  <2>1. empty \in [{} -> WeightRanges]
    OBVIOUS
  <2>. QED
    BY <2>1 DEF NoPolicy, Portfolios
<1>2. NoFee \in FeeConfig /\ 0 \in 0 .. NonceBound
  BY PolicyAssumption DEF NoFee, FeeConfig
<1>. QED
  BY <1>1, <1>2 DEF NoPolicy, Policy, PriceProtection

----------------------------------------------------------------------------
(* The invariant is inductive as it stands: every call validates what it    *)
(* stores, and the sums are validated over the whole portfolio.            *)

PolicyInvariant == PolicyTypeOK /\ PortfolioAlwaysFeasible

\* What the invariant says of a policy that exists, as a predicate on policies.
WellFormed(p) ==
    /\ p \in Policy
    /\ p.exists
    /\ {p.treasury, p.governance} \subseteq Accounts
    /\ p.maximumTransactionValue # 0
    /\ ValidFee(p.fee)
    /\ ValidProtection(p.protection)
    /\ Cardinality(DOMAIN p.bounds) \in 2 .. MaxAssets
    /\ \A t \in DOMAIN p.bounds : ValidWeights(p.bounds[t])
    /\ ValidPortfolioTotals(p.bounds)

\* In an invariant state an existing policy is well-formed.
LEMMA InvariantWellFormed ==
    ASSUME PolicyInvariant, policy.exists
    PROVE  WellFormed(policy) /\ policy.nonce \in 1 .. NonceBound
  BY PolicyAssumption
     DEF PolicyInvariant, PolicyTypeOK, PortfolioAlwaysFeasible, WellFormed, Policy

\* What ++nonce makes of an amended policy.
LEMMA AmendEffect ==
    ASSUME policy \in Policy, policy.nonce < NonceBound, NEW p \in Policy, Amend(p)
    PROVE  /\ policy' \in Policy
           /\ policy'.nonce = policy.nonce + 1
           /\ policy'.exists = p.exists
           /\ policy'.treasury = p.treasury
           /\ policy'.governance = p.governance
           /\ policy'.maximumTransactionValue = p.maximumTransactionValue
           /\ policy'.fee = p.fee
           /\ policy'.protection = p.protection
           /\ policy'.bounds = p.bounds
<1>1. policy.nonce + 1 \in 0 .. NonceBound
  BY PolicyAssumption DEF Policy
<1>. QED
  BY <1>1 DEF Amend, Policy

\* An amended policy satisfies the invariant if its parts do.
LEMMA AmendInvariant ==
    ASSUME PolicyInvariant, policy.exists, policy.nonce < NonceBound, NEW p, WellFormed(p), Amend(p)
    PROVE  PolicyInvariant' /\ policy'.nonce = policy.nonce + 1
<1>1. policy \in Policy /\ policy.nonce \in Nat
  BY DEF PolicyInvariant, PolicyTypeOK, Policy
<1>2. /\ policy' \in Policy
      /\ policy'.nonce = policy.nonce + 1
      /\ policy'.exists = p.exists
      /\ policy'.treasury = p.treasury
      /\ policy'.governance = p.governance
      /\ policy'.maximumTransactionValue = p.maximumTransactionValue
      /\ policy'.fee = p.fee
      /\ policy'.protection = p.protection
      /\ policy'.bounds = p.bounds
  BY <1>1, AmendEffect DEF WellFormed
<1>3. initialization' = initialization
  BY DEF Amend
<1>4. PolicyTypeOK'
  BY <1>1, <1>2, <1>3 DEF PolicyInvariant, PolicyTypeOK, WellFormed
<1>5. PortfolioAlwaysFeasible'
  BY <1>2 DEF PortfolioAlwaysFeasible, WellFormed
<1>. QED
  BY <1>2, <1>4, <1>5 DEF PolicyInvariant

\* Every call that advances the nonce keeps the invariant.
LEMMA GovernStep ==
    ASSUME PolicyInvariant, NEW sender \in Accounts, Govern(sender)
    PROVE  PolicyInvariant' /\ policy'.nonce = policy.nonce + 1
<1>. USE PolicyAssumption
<1>. DEFINE Goal == PolicyInvariant' /\ policy'.nonce = policy.nonce + 1
<1>0. policy.exists /\ policy.nonce < NonceBound
  BY DEF Govern, UpdateAssetBounds, AddAsset, SetMaximumTransactionValue, SetFeeConfiguration,
         SetPaused, SetPriceProtection, SetTreasury, SetSettlementConfiguration,
         AcceptGovernance, Governs
<1>1. WellFormed(policy)
  BY <1>0, InvariantWellFormed
<1>2. ASSUME NEW value \in TradeValues, SetMaximumTransactionValue(sender, value)
      PROVE  Goal
  <2>. DEFINE p == [policy EXCEPT !.maximumTransactionValue = value]
  <2>1. Amend(p) /\ value # 0
    BY <1>2 DEF SetMaximumTransactionValue
  <2>2. WellFormed(p)
    BY <1>1, <2>1 DEF WellFormed, Policy
  <2>. QED
    BY <1>0, <2>1, <2>2, AmendInvariant
<1>3. ASSUME NEW fee \in Fees, SetFeeConfiguration(sender, fee)
      PROVE  Goal
  <2>. DEFINE p == [policy EXCEPT !.fee = fee]
  <2>1. Amend(p) /\ ValidFee(fee)
    BY <1>3 DEF SetFeeConfiguration
  <2>2. WellFormed(p)
    BY <1>1, <2>1 DEF WellFormed, Policy
  <2>. QED
    BY <1>0, <2>1, <2>2, AmendInvariant
<1>4. ASSUME NEW paused \in BOOLEAN, SetPaused(sender, paused)
      PROVE  Goal
  <2>. DEFINE p == [policy EXCEPT !.paused = paused]
  <2>1. Amend(p)
    BY <1>4 DEF SetPaused
  <2>2. WellFormed(p)
    BY <1>1, <2>1 DEF WellFormed, Policy
  <2>. QED
    BY <1>0, <2>1, <2>2, AmendInvariant
<1>5. ASSUME NEW protection \in PriceProtections, SetPriceProtection(sender, protection)
      PROVE  Goal
  <2>. DEFINE p == [policy EXCEPT !.protection = protection]
  <2>1. Amend(p) /\ ValidProtection(protection)
    BY <1>5 DEF SetPriceProtection
  <2>2. WellFormed(p)
    BY <1>1, <2>1 DEF WellFormed, Policy
  <2>. QED
    BY <1>0, <2>1, <2>2, AmendInvariant
<1>6. ASSUME NEW treasury \in Accounts, SetTreasury(sender, treasury)
      PROVE  Goal
  <2>. DEFINE p == [policy EXCEPT !.treasury = treasury]
  <2>1. Amend(p)
    BY <1>6 DEF SetTreasury
  <2>2. WellFormed(p)
    BY <1>1, <2>1 DEF WellFormed, Policy
  <2>. QED
    BY <1>0, <2>1, <2>2, AmendInvariant
<1>7. ASSUME NEW position \in Positions, NEW settlement \in Settlements,
             SetSettlementConfiguration(sender, position, settlement)
      PROVE  Goal
  <2>. DEFINE p == [policy EXCEPT !.settlement[position] = settlement]
  <2>1. Amend(p)
    BY <1>7 DEF SetSettlementConfiguration
  <2>2. WellFormed(p)
    BY <1>1, <2>1 DEF WellFormed, Policy
  <2>. QED
    BY <1>0, <2>1, <2>2, AmendInvariant
<1>8. ASSUME AcceptGovernance(sender)
      PROVE  Goal
  <2>. DEFINE p == [policy EXCEPT !.governance = sender, !.pendingGovernance = Zero]
  <2>1. Amend(p)
    BY <1>8 DEF AcceptGovernance
  <2>2. WellFormed(p)
    BY <1>1, <2>1 DEF WellFormed, Policy
  <2>. QED
    BY <1>0, <2>1, <2>2, AmendInvariant
<1>9. ASSUME NEW token \in Tokens, NEW range \in WeightRanges,
             UpdateAssetBounds(sender, token, range)
      PROVE  Goal
  <2>. DEFINE bounds == [policy.bounds EXCEPT ![token] = range]
              p == [policy EXCEPT !.bounds = bounds]
  <2>1. /\ Amend(p) /\ token \in DOMAIN policy.bounds
        /\ ValidWeights(range) /\ ValidPortfolioTotals(bounds)
    BY <1>9 DEF UpdateAssetBounds
  <2>2. bounds \in Portfolios /\ DOMAIN bounds = DOMAIN policy.bounds
    <3>1. policy.bounds \in Portfolios
      BY <1>1 DEF WellFormed, Policy
    <3>2. bounds \in [DOMAIN policy.bounds -> WeightRanges]
      BY <3>1, PortfolioType
    <3>. QED
      BY <3>1, <3>2, PortfolioType
  <2>3. \A t \in DOMAIN bounds : ValidWeights(bounds[t])
    BY <1>1, <2>1, <2>2 DEF WellFormed
  <2>. HIDE DEF bounds
  <2>4. WellFormed(p)
    BY <1>1, <2>1, <2>2, <2>3 DEF WellFormed, Policy
  <2>. QED
    BY <1>0, <2>1, <2>4, AmendInvariant
<1>10. ASSUME NEW token \in Tokens, NEW range \in WeightRanges, AddAsset(sender, token, range)
       PROVE  Goal
  <2>. DEFINE bounds == [t \in DOMAIN policy.bounds \cup {token} |->
                           IF t = token THEN range ELSE policy.bounds[t]]
              p == [policy EXCEPT !.bounds = bounds]
  <2>1. /\ Amend(p) /\ token \notin DOMAIN policy.bounds
        /\ Cardinality(DOMAIN policy.bounds) < MaxAssets
        /\ ValidWeights(range) /\ ValidPortfolioTotals(bounds)
    BY <1>10 DEF AddAsset
  <2>2. bounds \in Portfolios /\ DOMAIN bounds = DOMAIN policy.bounds \cup {token}
    <3>1. policy.bounds \in Portfolios
      BY <1>1 DEF WellFormed, Policy
    <3>2. bounds \in [DOMAIN policy.bounds \cup {token} -> WeightRanges]
      BY <3>1, PortfolioType
    <3>. QED
      BY <3>1, <3>2, PortfolioType
  <2>3. \A t \in DOMAIN bounds : ValidWeights(bounds[t])
    BY <1>1, <2>1 DEF WellFormed
  <2>4. Cardinality(DOMAIN bounds) \in 2 .. MaxAssets
    <3>1. IsFiniteSet(DOMAIN policy.bounds)
      BY <1>1, FS_Subset, PortfolioType DEF WellFormed, Policy
    <3>2. Cardinality(DOMAIN bounds) = Cardinality(DOMAIN policy.bounds) + 1
      BY <2>1, <2>2, <3>1, FS_AddElement
    <3>. QED
      BY <1>1, <2>1, <3>2 DEF WellFormed
  <2>. HIDE DEF bounds
  <2>5. WellFormed(p)
    BY <1>1, <2>1, <2>2, <2>3, <2>4 DEF WellFormed, Policy
  <2>. QED
    BY <1>0, <2>1, <2>5, AmendInvariant
<1>. QED
  BY <1>2, <1>3, <1>4, <1>5, <1>6, <1>7, <1>8, <1>9, <1>10 DEF Govern

\* Creation, by governance itself or by the factory, establishes the invariant.
LEMMA CreateStep ==
    ASSUME PolicyInvariant, Create
    PROVE  PolicyInvariant' /\ policy'.nonce > policy.nonce
<1>. USE PolicyAssumption
<1>1. policy.nonce = 0
  BY DEF PolicyInvariant, PolicyTypeOK, Create
<1>2. PICK sender \in Accounts, treasury \in Accounts, bounds \in Portfolios,
           value \in TradeValues, fee \in Fees :
        \/ CreatePolicy(sender, treasury, bounds, value, fee)
        \/ \E governance \in Accounts, position \in Positions, settlement \in Settlements,
              protection \in PriceProtections :
              CreatePolicyFromFactory(sender, treasury, governance, bounds, value, fee,
                                      position, settlement, protection)
  BY DEF Create
<1>3. ASSUME NEW governance \in Accounts, Creatable(treasury, governance, bounds, value, fee)
      PROVE  LET p == NewPolicy(treasury, governance, bounds, value, fee)
             IN  WellFormed(p) /\ p.nonce = 1
  <2>1. NewPolicy(treasury, governance, bounds, value, fee) \in Policy
    BY NewPolicyType
  <2>2. ValidProtection(DefaultProtection)
    BY DEF ValidProtection
  <2>. QED
    BY <1>3, <2>1, <2>2 DEF NewPolicy, WellFormed, Creatable
<1>4. ASSUME WellFormed(policy'), policy'.nonce > 0, initialization' = initialization
      PROVE  PolicyInvariant' /\ policy'.nonce > policy.nonce
  BY <1>1, <1>4 DEF PolicyInvariant, PolicyTypeOK, PortfolioAlwaysFeasible, WellFormed
<1>5. CASE CreatePolicy(sender, treasury, bounds, value, fee)
  BY <1>3, <1>4, <1>5 DEF CreatePolicy
<1>6. ASSUME NEW governance \in Accounts, NEW position \in Positions,
             NEW settlement \in Settlements, NEW protection \in PriceProtections,
             CreatePolicyFromFactory(sender, treasury, governance, bounds, value, fee,
                                     position, settlement, protection)
      PROVE  PolicyInvariant' /\ policy'.nonce > policy.nonce
  <2>. DEFINE p == NewPolicy(treasury, governance, bounds, value, fee)
  <2>1. /\ policy' = [p EXCEPT !.settlement[position] = settlement, !.protection = protection,
                               !.nonce = 3]
        /\ WellFormed(p) /\ ValidProtection(protection) /\ initialization' = initialization
    BY <1>3, <1>6 DEF CreatePolicyFromFactory
  <2>. DEFINE settlements == [p.settlement EXCEPT ![position] = settlement]
  <2>. HIDE DEF p
  <2>2. /\ p \in Policy
        /\ settlements \in [Positions -> Settlements \cup {NoSettlement}]
        /\ protection \in PriceProtection /\ 3 \in 0 .. NonceBound
    BY <2>1 DEF WellFormed, Policy
  <2>3. policy' = [p EXCEPT !.settlement = settlements, !.protection = protection, !.nonce = 3]
    BY <2>1, <2>2 DEF Policy
  <2>. HIDE DEF settlements
  <2>4. /\ policy' \in Policy /\ policy'.nonce = 3 /\ policy'.exists = p.exists
        /\ policy'.treasury = p.treasury /\ policy'.governance = p.governance
        /\ policy'.maximumTransactionValue = p.maximumTransactionValue
        /\ policy'.fee = p.fee /\ policy'.bounds = p.bounds /\ policy'.protection = protection
    BY <2>2, <2>3 DEF Policy
  <2>5. WellFormed(policy') /\ policy'.nonce > 0
    BY <2>1, <2>4 DEF WellFormed
  <2>. QED
    BY <1>4, <2>1, <2>5
<1>. QED
  BY <1>2, <1>5, <1>6

\* Nomination and the factory hand-off change nothing that the nonce stands for.
LEMMA QuietStep ==
    ASSUME PolicyInvariant,
           \/ \E sender, factory \in Accounts : SetInitializationFactory(sender, factory)
           \/ \E sender, account \in Accounts : TransferGovernance(sender, account)
           \/ UNCHANGED policyVars
    PROVE  /\ PolicyInvariant'
           /\ policy'.nonce = policy.nonce
           /\ Binding(policy') = Binding(policy)
<1>1. ASSUME NEW sender \in Accounts, NEW factory \in Accounts,
             SetInitializationFactory(sender, factory)
      PROVE  /\ PolicyInvariant' /\ policy' = policy
  BY <1>1 DEF SetInitializationFactory, PolicyInvariant, PolicyTypeOK, PortfolioAlwaysFeasible
<1>2. ASSUME NEW sender \in Accounts, NEW account \in Accounts,
             TransferGovernance(sender, account)
      PROVE  /\ PolicyInvariant' /\ policy'.nonce = policy.nonce
             /\ Binding(policy') = Binding(policy)
  <2>1. /\ WellFormed(policy) /\ initialization' = initialization
        /\ policy' = [policy EXCEPT !.pendingGovernance = account]
    BY <1>2, InvariantWellFormed DEF TransferGovernance
  <2>2. WellFormed(policy') /\ policy'.nonce = policy.nonce
    BY <2>1 DEF WellFormed, Policy
  <2>3. Binding(policy') = Binding(policy)
    BY <2>1 DEF Binding, WellFormed, Policy
  <2>. QED
    BY <2>1, <2>2, <2>3
       DEF PolicyInvariant, PolicyTypeOK, PortfolioAlwaysFeasible, WellFormed
<1>3. CASE UNCHANGED policyVars
  BY <1>3 DEF policyVars, PolicyInvariant, PolicyTypeOK, PortfolioAlwaysFeasible
<1>. QED
  BY <1>1, <1>2, <1>3

\* Every step of the registry keeps its invariant, and a new binding a new nonce.
LEMMA PolicyStep ==
    ASSUME PolicyInvariant, [PolicyNext]_policyVars
    PROVE  /\ PolicyInvariant'
           /\ policy'.nonce >= policy.nonce
           /\ Binding(policy') # Binding(policy) => policy'.nonce > policy.nonce
<1>1. policy.nonce \in Nat
  BY DEF PolicyInvariant, PolicyTypeOK, Policy
<1>2. CASE Create
  BY <1>1, <1>2, CreateStep DEF PolicyInvariant, PolicyTypeOK, Policy
<1>3. CASE \E sender \in Accounts : Govern(sender)
  BY <1>1, <1>3, GovernStep
<1>4. CASE \/ \E sender, factory \in Accounts : SetInitializationFactory(sender, factory)
           \/ \E sender, account \in Accounts : TransferGovernance(sender, account)
           \/ UNCHANGED policyVars
  BY <1>1, <1>4, QuietStep
<1>. QED
  BY <1>2, <1>3, <1>4 DEF PolicyNext

\* The registry starts in its invariant.
LEMMA PolicyInitial == PolicyInit => PolicyInvariant
  BY NoPolicyType, PolicyAssumption
     DEF PolicyInit, PolicyInvariant, PolicyTypeOK, PortfolioAlwaysFeasible, NoPolicy

----------------------------------------------------------------------------
\* In every reachable state the policy is well typed, every stored configuration was
\* validated, and the portfolio bounds can be met.
THEOREM PolicySafe == PolicySpec => [](PolicyTypeOK /\ PortfolioAlwaysFeasible)
<1>1. PolicyInvariant /\ [PolicyNext]_policyVars => PolicyInvariant'
  BY PolicyStep
<1>. QED
  BY PolicyInitial, <1>1, PTL DEF PolicySpec, PolicyInvariant

\* A policy nonce, once read, names one policy for ever.
THEOREM PolicyNonceBinding == PolicySpec => NonceIdentifiesPolicy
<1>1. PolicyInvariant /\ [PolicyNext]_policyVars
        => PolicyInvariant' /\ [/\ policy'.nonce >= policy.nonce
                                /\ Binding(policy') # Binding(policy)
                                      => policy'.nonce > policy.nonce]_policyVars
  BY PolicyStep
<1>. QED
  BY PolicyInitial, <1>1, PTL DEF PolicySpec, NonceIdentifiesPolicy

----------------------------------------------------------------------------
(* Risk certificates.                                                      *)

Invariant == PolicyInvariant /\ RiskInvariant

\* A certificate in the set signed is a record of the right types.
LEMMA SignedType ==
    ASSUME RiskTypeOK, NEW c \in signed
    PROVE  /\ c.exists /\ c.watchtower \in Watchtowers
           /\ c.maximum \in Nat /\ c.issuedAt \in Int /\ c.expiresAt \in Int
           /\ c.readAt \in Nat /\ c.nonce \in Nat /\ c.epoch \in Nat /\ c.policyNonce \in Nat
           /\ \A t \in DOMAIN c.bounds : t \in Tokens /\ c.bounds[t] \in ActiveBound
  BY DEF RiskTypeOK

\* A step of the policy registry leaves certificates as they are and, when it advances
\* the nonce, leaves every one of them behind.
LEMMA PolicyPreserves ==
    ASSUME Invariant, [PolicyNext]_policyVars, UNCHANGED riskVars
    PROVE  Invariant'
<1>. USE DEF riskVars, watchtowerVars, certifiedVars
<1>1. /\ PolicyInvariant'
      /\ policy'.nonce >= policy.nonce
      /\ Binding(policy') # Binding(policy) => policy'.nonce > policy.nonce
  BY PolicyStep DEF Invariant
<1>2. policy.nonce \in Nat /\ policy'.nonce \in Nat /\ policy \in Policy /\ policy' \in Policy
  BY <1>1 DEF Invariant, PolicyInvariant, PolicyTypeOK, Policy
<1>3. RiskTypeOK'
  BY DEF Invariant, RiskInvariant, TypeOK, RiskTypeOK
<1>4. ASSUME NEW c \in signed
      PROVE  CertificateInvariant(c)'
  <2>1. c.policyNonce \in Nat
    BY SignedType DEF Invariant, RiskInvariant, TypeOK
  <2>. QED
    BY <1>1, <1>2, <2>1 DEF Invariant, RiskInvariant, CertificateInvariant
<1>5. StoredInvariant'
  <2>1. ASSUME activeRisk.exists, activeRisk.policyNonce = policy'.nonce
        PROVE  Tightens(activeRisk)'
    <3>1. activeRisk \in signed
      BY <2>1 DEF Invariant, RiskInvariant, TypeOK, RiskTypeOK, NoRisk
    <3>2. activeRisk.policyNonce <= policy.nonce /\ activeRisk.policyNonce \in Nat
      BY <3>1, SignedType DEF Invariant, RiskInvariant, CertificateInvariant, TypeOK
    <3>3. Binding(policy') = Binding(policy) /\ activeRisk.policyNonce = policy.nonce
      BY <1>1, <1>2, <2>1, <3>2
    <3>4. /\ policy'.bounds = policy.bounds
          /\ policy'.maximumTransactionValue = policy.maximumTransactionValue
      <4>1. /\ Binding(policy').bounds = policy'.bounds /\ Binding(policy).bounds = policy.bounds
            /\ Binding(policy').maximumTransactionValue = policy'.maximumTransactionValue
            /\ Binding(policy).maximumTransactionValue = policy.maximumTransactionValue
        BY <1>2 DEF Binding, Policy
      <4>. QED
        BY <3>3, <4>1
    <3>5. Tightens(activeRisk)
      BY <2>1, <3>3 DEF Invariant, RiskInvariant, StoredInvariant
    <3>. QED
      BY <3>4, <3>5 DEF Tightens
  <2>. QED
    BY <2>1 DEF Invariant, RiskInvariant, StoredInvariant
<1>. QED
  BY <1>1, <1>3, <1>4, <1>5 DEF Invariant, RiskInvariant, TypeOK, PolicyInvariant

\* Time keeps every certificate as it was signed.
LEMMA TickPreserves ==
    ASSUME Invariant, Tick
    PROVE  Invariant'
<1>. USE DEF Tick, policyVars, watchtowerVars, certifiedVars
<1>1. PolicyInvariant'
  BY DEF Invariant, PolicyInvariant, PolicyTypeOK, PortfolioAlwaysFeasible
<1>2. RiskTypeOK'
  BY RiskAssumption DEF Invariant, RiskInvariant, TypeOK, RiskTypeOK
<1>3. ASSUME NEW c \in signed
      PROVE  CertificateInvariant(c)'
  <2>1. now \in Nat /\ c.readAt \in Nat
    BY SignedType, RiskAssumption DEF Invariant, RiskInvariant, TypeOK, RiskTypeOK
  <2>. QED
    BY <2>1 DEF Invariant, RiskInvariant, CertificateInvariant
<1>4. StoredInvariant'
  BY DEF Invariant, RiskInvariant, StoredInvariant, Tightens
<1>. QED
  BY <1>1, <1>2, <1>3, <1>4 DEF Invariant, RiskInvariant, TypeOK, PolicyInvariant

\* An authorization epoch only grows, so that no signed certificate gets ahead of it.
LEMMA SetWatchtowerPreserves ==
    ASSUME Invariant, NEW sender \in Accounts, NEW w \in Watchtowers,
           NEW authorized \in BOOLEAN, SetWatchtower(sender, w, authorized)
    PROVE  /\ Invariant'
           /\ \A v \in Watchtowers :
                 \/ /\ isWatchtower'[v] = isWatchtower[v]
                    /\ watchtowerAuthorizationEpoch'[v] = watchtowerAuthorizationEpoch[v]
                 \/ watchtowerAuthorizationEpoch'[v] = watchtowerAuthorizationEpoch[v] + 1
<1>. USE DEF SetWatchtower, policyVars, certifiedVars
<1>1. /\ watchtowerAuthorizationEpoch \in [Watchtowers -> 0 .. EpochBound]
      /\ isWatchtower \in [Watchtowers -> BOOLEAN]
      /\ EpochBound \in Nat
  BY RiskAssumption DEF Invariant, RiskInvariant, TypeOK, RiskTypeOK
<1>2. \A v \in Watchtowers :
        \/ /\ isWatchtower'[v] = isWatchtower[v]
           /\ watchtowerAuthorizationEpoch'[v] = watchtowerAuthorizationEpoch[v]
        \/ watchtowerAuthorizationEpoch'[v] = watchtowerAuthorizationEpoch[v] + 1
  BY <1>1 DEF EpochAfter
<1>3. PolicyInvariant'
  BY DEF Invariant, PolicyInvariant, PolicyTypeOK, PortfolioAlwaysFeasible
<1>4. RiskTypeOK'
  <2>1. EpochAfter(w, authorized) \in 0 .. EpochBound
    BY <1>1 DEF EpochAfter
  <2>. QED
    BY <1>1, <2>1 DEF Invariant, RiskInvariant, TypeOK, RiskTypeOK
<1>5. ASSUME NEW c \in signed
      PROVE  CertificateInvariant(c)'
  <2>1. c.watchtower \in Watchtowers /\ c.epoch \in Nat
    BY SignedType DEF Invariant, RiskInvariant, TypeOK
  <2>2. watchtowerAuthorizationEpoch'[c.watchtower] >= watchtowerAuthorizationEpoch[c.watchtower]
    BY <1>1, <1>2, <2>1
  <2>3. watchtowerAuthorizationEpoch'[c.watchtower] \in Nat
    BY <1>4, <2>1 DEF RiskTypeOK
  <2>. QED
    BY <1>1, <2>1, <2>2, <2>3 DEF Invariant, RiskInvariant, CertificateInvariant
<1>6. StoredInvariant'
  BY DEF Invariant, RiskInvariant, StoredInvariant, Tightens
<1>. QED
  BY <1>2, <1>3, <1>4, <1>5, <1>6 DEF Invariant, RiskInvariant, TypeOK, PolicyInvariant

\* A certificate is signed against the state that its signer read.
LEMMA SignPreserves ==
    ASSUME Invariant, NEW w \in Watchtowers, NEW limits \in CertificateLimits,
           NEW lifetime \in Lifetimes, NEW lead \in ClockLeads,
           SignCertificate(w, limits, lifetime, lead)
    PROVE  Invariant'
<1>1. PICK c : /\ c = Certificate(w, limits, lifetime, lead)
               /\ signed' = signed \cup {c}
               /\ UNCHANGED <<policyVars, now, watchtowerVars, certifiedVars>>
  BY DEF SignCertificate
<1>. USE DEF policyVars, watchtowerVars, certifiedVars
<1>2. /\ now \in Nat /\ lastNonce \in Nat /\ policy.nonce \in Nat
      /\ watchtowerAuthorizationEpoch \in [Watchtowers -> 0 .. EpochBound]
      /\ lead \in Int /\ lifetime \in Nat
  BY RiskAssumption
     DEF Invariant, RiskInvariant, TypeOK, RiskTypeOK, PolicyInvariant, PolicyTypeOK, Policy
<1>3. PolicyInvariant'
  BY <1>1 DEF Invariant, PolicyInvariant, PolicyTypeOK, PortfolioAlwaysFeasible
<1>4. RiskTypeOK'
  <2>1. /\ c.exists /\ c.watchtower \in Watchtowers /\ c.mode \in RiskModes
        /\ {c.maximum, c.nonce, c.epoch, c.policyNonce, c.readAt} \subseteq Nat
        /\ {c.issuedAt, c.expiresAt} \subseteq Int
        /\ \A t \in DOMAIN c.bounds : t \in Tokens /\ c.bounds[t] \in ActiveBound
    BY <1>1, <1>2, RiskAssumption DEF Certificate
  <2>. QED
    BY <1>1, <2>1 DEF Invariant, RiskInvariant, TypeOK, RiskTypeOK
<1>5. CertificateInvariant(c)'
  <2>1. activeRisk.exists => activeRisk.readAt <= now /\ activeRisk.readAt \in Nat
    <3>1. ASSUME activeRisk.exists PROVE activeRisk \in signed
      BY <3>1 DEF Invariant, RiskInvariant, TypeOK, RiskTypeOK, NoRisk
    <3>. QED
      BY <3>1, SignedType DEF Invariant, RiskInvariant, CertificateInvariant, TypeOK
  <2>. QED
    BY <1>1, <1>2, <2>1 DEF CertificateInvariant, Certificate
<1>6. ASSUME NEW d \in signed PROVE CertificateInvariant(d)'
  BY <1>1 DEF Invariant, RiskInvariant, CertificateInvariant
<1>7. StoredInvariant'
  BY <1>1 DEF Invariant, RiskInvariant, StoredInvariant, Tightens
<1>. QED
  BY <1>1, <1>3, <1>4, <1>5, <1>6, <1>7 DEF Invariant, RiskInvariant, TypeOK, PolicyInvariant

\* An accepted certificate tightens the policy it was issued for.
LEMMA SubmitPreserves ==
    ASSUME Invariant, NEW c \in signed, SubmitRiskCertificate(c)
    PROVE  Invariant'
<1>. USE DEF SubmitRiskCertificate, policyVars, watchtowerVars
<1>0. /\ c.exists /\ c.watchtower \in Watchtowers
      /\ c.readAt \in Nat /\ c.nonce \in Nat /\ lastNonce \in Nat /\ now \in Nat
      /\ \A t \in DOMAIN c.bounds : t \in Tokens /\ c.bounds[t] \in ActiveBound
  BY SignedType, RiskAssumption DEF Invariant, RiskInvariant, TypeOK, RiskTypeOK
<1>1. c.nonce = lastNonce + 1 /\ lastNonce' = c.nonce /\ activeRisk' = c
  BY DEF Sequential
<1>2. PolicyInvariant'
  BY DEF Invariant, PolicyInvariant, PolicyTypeOK, PortfolioAlwaysFeasible
<1>3. RiskTypeOK'
  BY <1>0, <1>1 DEF Invariant, RiskInvariant, TypeOK, RiskTypeOK
<1>4. ASSUME NEW d \in signed PROVE CertificateInvariant(d)'
  <2>1. d.nonce \in Nat
    BY SignedType DEF Invariant, RiskInvariant, TypeOK
  <2>. QED
    BY <1>0, <1>1, <2>1 DEF Invariant, RiskInvariant, CertificateInvariant
<1>5. StoredInvariant'
  <2>1. Tightens(activeRisk)'
    BY <1>1 DEF Tightens
  <2>. QED
    BY <1>1, <2>1 DEF StoredInvariant
<1>. QED
  BY <1>2, <1>3, <1>4, <1>5 DEF Invariant, RiskInvariant, TypeOK, PolicyInvariant

\* The registries start in their invariant.
LEMMA Initially == Init => Invariant
  BY PolicyInitial, RiskAssumption
     DEF Init, RiskInit, Invariant, PolicyInvariant, RiskInvariant, TypeOK, RiskTypeOK,
         StoredInvariant, NoRisk

\* Every step of either registry keeps it.
LEMMA InvariantStep == Invariant /\ [Next]_vars => Invariant'
<1>. SUFFICES ASSUME Invariant, [Next]_vars PROVE Invariant'
  OBVIOUS
<1>1. CASE RiskNext
  BY <1>1, TickPreserves, SetWatchtowerPreserves, SignPreserves, SubmitPreserves DEF RiskNext
<1>2. CASE PolicyNext /\ UNCHANGED riskVars
  BY <1>2, PolicyPreserves
<1>3. CASE UNCHANGED vars
  BY <1>3, PolicyPreserves DEF vars
<1>. QED
  BY <1>1, <1>2, <1>3 DEF Next

\* The inductive invariant holds in every reachable state of the two registries.
THEOREM RiskSafe == Spec => []RiskInvariant
<1>1. Invariant => RiskInvariant
  BY DEF Invariant
<1>. QED
  BY Initially, InvariantStep, <1>1, PTL DEF Spec

----------------------------------------------------------------------------
(* Certificates never go back.                                             *)

\* The stored certificate is one that was signed, unless there is none.
LEMMA StoredType ==
    ASSUME Invariant, activeRisk.exists
    PROVE  /\ activeRisk \in signed /\ CertificateInvariant(activeRisk)
           /\ activeRisk.nonce = lastNonce
           /\ activeRisk.watchtower \in Watchtowers
           /\ activeRisk.expiresAt \in Int /\ activeRisk.readAt \in Nat
           /\ activeRisk.epoch \in Nat /\ activeRisk.policyNonce \in Nat
           /\ now \in Nat /\ lastNonce \in Nat /\ policy.nonce \in Nat
           /\ watchtowerAuthorizationEpoch[activeRisk.watchtower] \in Nat
<1>1. activeRisk \in signed
  BY DEF Invariant, RiskInvariant, TypeOK, RiskTypeOK, NoRisk
<1>2. /\ watchtowerAuthorizationEpoch \in [Watchtowers -> 0 .. EpochBound]
      /\ now \in Nat /\ lastNonce \in Nat /\ policy.nonce \in Nat
  BY RiskAssumption DEF Invariant, RiskInvariant, TypeOK, RiskTypeOK, PolicyTypeOK, Policy
<1>3. CertificateInvariant(activeRisk) /\ activeRisk.nonce = lastNonce
  BY <1>1 DEF Invariant, RiskInvariant, StoredInvariant
<1>4. /\ activeRisk.watchtower \in Watchtowers
      /\ activeRisk.expiresAt \in Int /\ activeRisk.readAt \in Nat
      /\ activeRisk.epoch \in Nat /\ activeRisk.policyNonce \in Nat
  BY <1>1, SignedType DEF Invariant, RiskInvariant, TypeOK
<1>. QED
  BY <1>1, <1>2, <1>3, <1>4

\* Only the acceptance of a certificate changes the stored one.
LEMMA OnlySubmitReplaces ==
    ASSUME [Next]_vars, activeRisk' # activeRisk
    PROVE  \E c \in signed : SubmitRiskCertificate(c)
  BY DEF Next, RiskNext, vars, riskVars, certifiedVars, Tick, SetWatchtower, SignCertificate

\* Whatever the clocks and delays, a certificate is replaced by one whose signer saw a
\* state of the chain that is not older.
THEOREM RiskNoReturn == Spec => NoReturnToOlderCertificate
<1>1. ASSUME Invariant, [Next]_vars, activeRisk.exists, activeRisk' # activeRisk
      PROVE  activeRisk'.readAt >= activeRisk.readAt /\ activeRisk'.nonce > activeRisk.nonce
  <2>1. PICK c \in signed : SubmitRiskCertificate(c)
    BY <1>1, OnlySubmitReplaces
  <2>2. activeRisk' = c /\ c.nonce = lastNonce + 1
    BY <2>1 DEF SubmitRiskCertificate, Sequential
  <2>3. c.readAt >= activeRisk.readAt
    BY <1>1, <2>2 DEF Invariant, RiskInvariant, CertificateInvariant
  <2>. QED
    BY <1>1, <2>2, <2>3, StoredType
<1>. QED
  BY Initially, InvariantStep, <1>1, PTL DEF Spec, NoReturnToOlderCertificate

\* A step that keeps an inert certificate keeps it inert.
LEMMA InertStep ==
    ASSUME Invariant, [Next]_vars, activeRisk' = activeRisk, ~IsActive
    PROVE  ~IsActive'
<1>. SUFFICES ASSUME activeRisk.exists, IsActive' PROVE FALSE
  BY DEF IsActive
<1>. DEFINE w0 == activeRisk.watchtower
<1>0. w0 \in Watchtowers /\ w0' = w0
  BY StoredType
<1>1. ASSUME watchtowerAuthorizationEpoch'[w0] = watchtowerAuthorizationEpoch[w0],
             isWatchtower'[w0] = isWatchtower[w0], now' >= now, now' \in Nat,
             policy'.nonce = policy.nonce
      PROVE  FALSE
  BY <1>1, StoredType DEF IsActive
<1>2. CASE Tick
  BY <1>1, <1>2, StoredType DEF Tick, policyVars, watchtowerVars
<1>3. ASSUME NEW sender \in Accounts, NEW w \in Watchtowers, NEW authorized \in BOOLEAN,
             SetWatchtower(sender, w, authorized)
      PROVE  FALSE
  <2>1. UNCHANGED <<policy, now>>
    BY <1>3 DEF SetWatchtower, policyVars
  <2>2. CASE /\ isWatchtower'[w0] = isWatchtower[w0]
             /\ watchtowerAuthorizationEpoch'[w0] = watchtowerAuthorizationEpoch[w0]
    BY <1>1, <2>1, <2>2, StoredType
  <2>3. CASE watchtowerAuthorizationEpoch'[w0] = watchtowerAuthorizationEpoch[w0] + 1
    BY <2>3, StoredType DEF IsActive, CertificateInvariant
  <2>. QED
    BY <1>0, <1>3, <2>2, <2>3, SetWatchtowerPreserves
<1>4. ASSUME NEW w \in Watchtowers, NEW limits \in CertificateLimits,
             NEW lifetime \in Lifetimes, NEW lead \in ClockLeads,
             SignCertificate(w, limits, lifetime, lead)
      PROVE  FALSE
  BY <1>1, <1>4, StoredType DEF SignCertificate, policyVars, watchtowerVars
<1>5. ASSUME NEW c \in signed, SubmitRiskCertificate(c)
      PROVE  FALSE
  BY <1>5, StoredType DEF SubmitRiskCertificate, Sequential
<1>6. CASE PolicyNext /\ UNCHANGED riskVars
  <2>1. policy'.nonce >= policy.nonce /\ policy'.nonce \in Nat
    BY <1>6, PolicyStep DEF Invariant, PolicyInvariant, PolicyTypeOK, Policy
  <2>2. policy'.nonce = policy.nonce
    BY <2>1, StoredType DEF IsActive, CertificateInvariant
  <2>. QED
    BY <1>1, <1>6, <2>2, StoredType DEF riskVars, watchtowerVars
<1>7. CASE UNCHANGED vars
  BY <1>1, <1>7, StoredType DEF vars, policyVars, riskVars, watchtowerVars
<1>. QED
  BY <1>2, <1>3, <1>4, <1>5, <1>6, <1>7 DEF Next, RiskNext

\* Expiry, revocation and governance are final for the certificate they hit, through
\* any number of later authorizations and governance calls.
THEOREM RiskInert == Spec => InertCertificateStaysInert
<1>1. Invariant /\ [Next]_vars => [activeRisk' = activeRisk /\ ~IsActive => ~IsActive']_vars
  BY InertStep
<1>. QED
  BY Initially, InvariantStep, <1>1, PTL DEF Spec, InertCertificateStaysInert

----------------------------------------------------------------------------
(* The limits that settlement reads.                                       *)

\* The limits that settlement reads are well-typed.
LEMMA LimitTypes ==
    ASSUME Invariant
    PROVE  /\ policy.maximumTransactionValue \in Nat
           /\ \A t \in DOMAIN policy.bounds : policy.bounds[t] \in WeightRange
           /\ \A t \in DOMAIN activeBounds : activeBounds[t] \in ActiveBound
           /\ activeRisk.exists => activeRisk.maximum \in Nat
<1>1. policy \in Policy
  BY DEF Invariant, PolicyInvariant, PolicyTypeOK
<1>2. \A t \in DOMAIN policy.bounds : policy.bounds[t] \in WeightRange
  <2>1. policy.bounds \in [DOMAIN policy.bounds -> WeightRanges]
    BY <1>1, PortfolioType DEF Policy
  <2>. QED
    BY <2>1, PolicyAssumption
<1>. QED
  BY <1>1, <1>2, StoredType, SignedType DEF Policy, Invariant, RiskInvariant, TypeOK, RiskTypeOK

\* The totals of a portfolio depend on the weights of its tokens only.
LEMMA TotalsOfWeights ==
    ASSUME NEW a, NEW b, DOMAIN a = DOMAIN b, ValidPortfolioTotals(b),
           \A t \in DOMAIN b : a[t].min = b[t].min /\ a[t].max = b[t].max
    PROVE  ValidPortfolioTotals(a)
<1>1. /\ [t \in DOMAIN a |-> a[t].min] = [t \in DOMAIN b |-> b[t].min]
      /\ [t \in DOMAIN a |-> a[t].max] = [t \in DOMAIN b |-> b[t].max]
  OBVIOUS
<1>. QED
  BY <1>1 DEF ValidPortfolioTotals, SumOfMinimums, SumOfMaximums

\* A certificate in force tightens the policy in force, so that clamping its bounds to
\* those of the policy leaves them as they were validated.
LEMMA ActiveBoundsStand ==
    ASSUME Invariant, IsActive
    PROVE  /\ Tightens(activeRisk)
           /\ \A t \in DOMAIN policy.bounds :
                 /\ EffectiveAssetBound(t).min = activeRisk.bounds[t].min
                 /\ EffectiveAssetBound(t).max = activeRisk.bounds[t].max
<1>1. Tightens(activeRisk) /\ activeRisk.exists
  BY DEF Invariant, RiskInvariant, StoredInvariant, IsActive
<1>2. ASSUME NEW t \in DOMAIN policy.bounds
      PROVE  /\ EffectiveAssetBound(t).min = activeRisk.bounds[t].min
             /\ EffectiveAssetBound(t).max = activeRisk.bounds[t].max
  <2>1. t \in DOMAIN activeRisk.bounds
    BY <1>1 DEF Tightens
  <2>2. t \in DOMAIN activeBounds /\ activeBounds[t] = activeRisk.bounds[t]
    BY <1>1, <2>1 DEF Invariant, RiskInvariant, StoredInvariant
  <2>3. /\ activeBounds[t].min \in Nat /\ activeBounds[t].max \in Nat
        /\ policy.bounds[t].min \in Nat /\ policy.bounds[t].max \in Nat
    BY <2>2, LimitTypes DEF ActiveBound, WeightRange
  <2>4. activeBounds[t].min >= policy.bounds[t].min /\ activeBounds[t].max <= policy.bounds[t].max
    BY <1>1, <2>1, <2>2 DEF Tightens
  <2>5. /\ Greater(activeBounds[t].min, policy.bounds[t].min) = activeBounds[t].min
        /\ Lesser(activeBounds[t].max, policy.bounds[t].max) = activeBounds[t].max
    BY <2>3, <2>4 DEF Greater, Lesser
  <2>. QED
    BY <2>2, <2>5 DEF EffectiveAssetBound
<1>. QED
  BY <1>1, <1>2

\* In an invariant state the effective bounds leave a portfolio.
LEMMA EffectiveFeasible == Invariant => EffectivePortfolioFeasible
<1>. SUFFICES ASSUME Invariant, policy.exists, CurrentRiskMode # "PAUSED"
              PROVE  /\ \A t \in DOMAIN EffectiveLimits.bounds :
                           EffectiveLimits.bounds[t].min <= EffectiveLimits.bounds[t].max
                     /\ ValidPortfolioTotals(EffectiveLimits.bounds)
  BY DEF EffectivePortfolioFeasible
<1>. DEFINE b == EffectiveLimits.bounds
<1>1. /\ DOMAIN b = DOMAIN policy.bounds
      /\ \A t \in DOMAIN b : b[t] = EffectiveAssetBound(t)
  BY DEF EffectiveLimits
<1>. HIDE DEF b
<1>2. CASE ~IsActive
  <2>1. \A t \in DOMAIN b : b[t].min = policy.bounds[t].min /\ b[t].max = policy.bounds[t].max
    <3>1. \A t \in DOMAIN b : b[t] = HardBound(t)
      BY <1>1, <1>2 DEF EffectiveAssetBound
    <3>. QED
      BY <3>1 DEF HardBound
  <2>2. /\ ValidPortfolioTotals(policy.bounds)
        /\ \A t \in DOMAIN policy.bounds : policy.bounds[t].min <= policy.bounds[t].max
    BY DEF Invariant, PolicyInvariant, PortfolioAlwaysFeasible, ValidWeights
  <2>. QED
    BY <1>1, <2>1, <2>2, TotalsOfWeights DEF b
<1>3. CASE IsActive
  <2>1. activeRisk.mode # "PAUSED"
    BY <1>3 DEF CurrentRiskMode
  <2>2. /\ DOMAIN b = DOMAIN activeRisk.bounds
        /\ \A t \in DOMAIN b : /\ b[t].min = activeRisk.bounds[t].min
                               /\ b[t].max = activeRisk.bounds[t].max
    BY <1>1, <1>3, ActiveBoundsStand DEF Tightens
  <2>3. /\ ValidPortfolioTotals(activeRisk.bounds)
        /\ \A t \in DOMAIN activeRisk.bounds : activeRisk.bounds[t].min <= activeRisk.bounds[t].max
    BY <1>3, <2>1, ActiveBoundsStand DEF Tightens
  <2>. QED
    BY <2>2, <2>3, TotalsOfWeights DEF b
<1>. QED
  BY <1>2, <1>3

\* Settlement never reads limits that no portfolio can meet, unless trading is paused.
THEOREM RiskFeasible == Spec => []EffectivePortfolioFeasible
  BY Initially, InvariantStep, EffectiveFeasible, PTL DEF Spec

----------------------------------------------------------------------------
(* The registries implement PolicyAuthority.                               *)

\* Without a certificate in force the limits are those of the hard policy.
LEMMA InertLimits == ~IsActive => EffectiveLimits = HardLimits
<1>. SUFFICES ASSUME ~IsActive PROVE EffectiveLimits = HardLimits
  OBVIOUS
<1>1. EffectiveMaximumTradeValue = IF policy.paused THEN 0 ELSE policy.maximumTransactionValue
  BY DEF EffectiveMaximumTradeValue, CurrentRiskMode
<1>2. [t \in DOMAIN policy.bounds |-> EffectiveAssetBound(t)]
        = [t \in DOMAIN policy.bounds |-> HardBound(t)]
  BY DEF EffectiveAssetBound
<1>. QED
  BY <1>1, <1>2 DEF EffectiveLimits, HardLimits

\* The limits are at least as tight as the hard policy.
LEMMA LimitsTighter == Invariant => Authority!Tighter(EffectiveLimits, HardLimits)
<1>. SUFFICES ASSUME Invariant PROVE Authority!Tighter(EffectiveLimits, HardLimits)
  OBVIOUS
<1>1. EffectiveMaximumTradeValue <= IF policy.paused THEN 0 ELSE policy.maximumTransactionValue
  <2>1. CASE ~IsActive
    BY <2>1, LimitTypes DEF EffectiveMaximumTradeValue, CurrentRiskMode
  <2>2. CASE IsActive
    <3>1. activeRisk.maximum \in Nat
      BY <2>2, LimitTypes DEF IsActive
    <3>. QED
      BY <2>2, <3>1, LimitTypes DEF EffectiveMaximumTradeValue, CurrentRiskMode, Lesser
  <2>. QED
    BY <2>1, <2>2
<1>2. ASSUME NEW t \in DOMAIN policy.bounds
      PROVE  /\ EffectiveAssetBound(t).min >= HardBound(t).min
             /\ EffectiveAssetBound(t).max <= HardBound(t).max
             /\ HardBound(t).paused => EffectiveAssetBound(t).paused
  <2>1. policy.bounds[t].min \in Nat /\ policy.bounds[t].max \in Nat
    BY LimitTypes DEF WeightRange
  <2>2. CASE ~IsActive \/ t \notin DOMAIN activeBounds
    BY <2>1, <2>2 DEF EffectiveAssetBound, HardBound
  <2>3. CASE IsActive /\ t \in DOMAIN activeBounds
    <3>1. activeBounds[t].min \in Nat /\ activeBounds[t].max \in Nat
      BY <2>3, LimitTypes DEF ActiveBound
    <3>2. /\ EffectiveAssetBound(t).min = Greater(activeBounds[t].min, policy.bounds[t].min)
          /\ EffectiveAssetBound(t).max = Lesser(activeBounds[t].max, policy.bounds[t].max)
      BY <2>3 DEF EffectiveAssetBound
    <3>3. HardBound(t).paused => EffectiveAssetBound(t).paused
      BY <2>3, Zenon DEF EffectiveAssetBound, HardBound
    <3>. QED
      BY <2>1, <3>1, <3>2, <3>3 DEF HardBound, Greater, Lesser
  <2>. QED
    BY <2>2, <2>3
<1>. QED
  BY <1>1, <1>2 DEF Authority!Tighter, EffectiveLimits, HardLimits

\* The same of the state after a step.
LEMMA LimitsAfter ==
    /\ (~IsActive)' => (EffectiveLimits = HardLimits)'
    /\ Invariant' => (Authority!Tighter(EffectiveLimits, HardLimits))'
  BY InertLimits, LimitsTighter, PTL

\* The limits are a function of what they are read from.
LEMMA SameLimits ==
    ASSUME policy'.bounds = policy.bounds, policy'.paused = policy.paused,
           policy'.maximumTransactionValue = policy.maximumTransactionValue,
           UNCHANGED <<activeRisk, activeBounds>>
    PROVE  /\ HardLimits' = HardLimits
           /\ (IsActive' <=> IsActive) => EffectiveLimits' = EffectiveLimits
<1>1. \A t : HardBound(t)' = HardBound(t)
  BY DEF HardBound
<1>2. HardLimits' = HardLimits
  BY <1>1 DEF HardLimits
<1>3. ASSUME IsActive' <=> IsActive
      PROVE  EffectiveLimits' = EffectiveLimits
  <2>1. CurrentRiskMode' = CurrentRiskMode
    BY <1>3 DEF CurrentRiskMode
  <2>2. EffectiveMaximumTradeValue' = EffectiveMaximumTradeValue
    BY <1>3, <2>1 DEF EffectiveMaximumTradeValue
  <2>3. \A t : EffectiveAssetBound(t)' = EffectiveAssetBound(t)
    BY <1>1, <1>3 DEF EffectiveAssetBound
  <2>. QED
    BY <2>2, <2>3 DEF EffectiveLimits
<1>. QED
  BY <1>2, <1>3

\* A step that keeps the policy's substance and the stored certificate is a stutter of
\* the abstract specification, or the moment the certificate lapses.
LEMMA LapseOrStutter ==
    ASSUME Invariant, [Next]_vars,
           policy'.bounds = policy.bounds, policy'.paused = policy.paused,
           policy'.maximumTransactionValue = policy.maximumTransactionValue,
           policy'.nonce = policy.nonce, UNCHANGED certifiedVars
    PROVE  [Authority!Next]_Authority!vars
<1>. USE DEF certifiedVars
<1>1. HardLimits' = HardLimits
  BY SameLimits
<1>2. CASE IsActive' <=> IsActive
  BY <1>1, <1>2, SameLimits DEF Authority!vars, CertificateInForce
<1>3. CASE ~(IsActive' <=> IsActive)
  <2>1. ~IsActive'
    BY <1>3, InertStep
  <2>2. EffectiveLimits' = HardLimits'
    BY <2>1, LimitsAfter
  <2>. QED
    BY <1>1, <2>1, <2>2 DEF Authority!Next, Authority!Lapse, CertificateInForce
<1>. QED
  BY <1>2, <1>3

\* Every step is a step of the abstract specification or a stutter.
LEMMA AuthorityStep ==
    ASSUME Invariant, [Next]_vars
    PROVE  [Authority!Next]_Authority!vars
<1>1. CASE Tick
  BY <1>1, LapseOrStutter DEF Tick, policyVars, certifiedVars
<1>2. ASSUME NEW sender \in Accounts, NEW w \in Watchtowers, NEW authorized \in BOOLEAN,
             SetWatchtower(sender, w, authorized)
      PROVE  [Authority!Next]_Authority!vars
  BY <1>2, LapseOrStutter DEF SetWatchtower, policyVars, certifiedVars
<1>3. ASSUME NEW w \in Watchtowers, NEW limits \in CertificateLimits,
             NEW lifetime \in Lifetimes, NEW lead \in ClockLeads,
             SignCertificate(w, limits, lifetime, lead)
      PROVE  [Authority!Next]_Authority!vars
  BY <1>3, LapseOrStutter DEF SignCertificate, policyVars, certifiedVars
<1>4. ASSUME NEW c \in signed, SubmitRiskCertificate(c)
      PROVE  [Authority!Next]_Authority!vars
  <2>1. policy' = policy /\ lastNonce' = lastNonce + 1
    BY <1>4 DEF SubmitRiskCertificate, Sequential, policyVars
  <2>2. HardLimits' = HardLimits
    BY <2>1 DEF HardLimits, HardBound
  <2>3. Invariant'
    BY InvariantStep
  <2>4. Authority!Tighter(EffectiveLimits', HardLimits')
    BY <2>3, LimitsAfter
  <2>5. IsActive'
    BY <1>4, SignedType DEF SubmitRiskCertificate, Timely, IsActive, policyVars, watchtowerVars,
                            Invariant, RiskInvariant, TypeOK
  <2>. QED
    BY <2>1, <2>2, <2>4, <2>5 DEF Authority!Next, Authority!Certify, CertificateInForce
<1>5. CASE PolicyNext /\ UNCHANGED riskVars
  <2>1. /\ policy'.nonce >= policy.nonce
        /\ Binding(policy') # Binding(policy) => policy'.nonce > policy.nonce
        /\ policy \in Policy /\ policy' \in Policy
        /\ policy'.nonce \in Nat /\ policy.nonce \in Nat
    BY <1>5, PolicyStep DEF Invariant, PolicyInvariant, PolicyTypeOK, Policy
  <2>2. CASE policy'.nonce = policy.nonce
    <3>1. Binding(policy') = Binding(policy)
      BY <2>1, <2>2
    <3>2. /\ policy'.bounds = policy.bounds /\ policy'.paused = policy.paused
          /\ policy'.maximumTransactionValue = policy.maximumTransactionValue
      <4>1. ASSUME NEW p \in Policy
            PROVE  /\ Binding(p).bounds = p.bounds /\ Binding(p).paused = p.paused
                   /\ Binding(p).maximumTransactionValue = p.maximumTransactionValue
        BY DEF Binding, Policy
      <4>. QED
        BY <2>1, <3>1, <4>1
    <3>. QED
      BY <1>5, <2>2, <3>2, LapseOrStutter DEF riskVars
  <2>3. CASE policy'.nonce > policy.nonce
    <3>1. ~IsActive'
      <4>. SUFFICES ASSUME IsActive' PROVE FALSE
        OBVIOUS
      <4>1. activeRisk' = activeRisk /\ activeRisk.exists /\ activeRisk.policyNonce = policy'.nonce
        BY <1>5 DEF IsActive, riskVars, certifiedVars
      <4>. QED
        BY <2>1, <2>3, <4>1, StoredType DEF CertificateInvariant
    <3>2. EffectiveLimits' = HardLimits'
      BY <3>1, LimitsAfter
    <3>. QED
      BY <1>5, <2>3, <3>1, <3>2
         DEF Authority!Next, Authority!Govern, riskVars, certifiedVars, CertificateInForce
  <2>. QED
    BY <2>1, <2>2, <2>3
<1>6. CASE UNCHANGED vars
  BY <1>6, LapseOrStutter DEF vars, policyVars, riskVars
<1>. QED
  BY <1>1, <1>2, <1>3, <1>4, <1>5, <1>6 DEF Next, RiskNext

\* Whatever governance, signers, delays and clocks do, settlement sees what
\* PolicyAuthority promises.
THEOREM RiskImplements == Spec => ImplementsPolicyAuthority
<1>1. Init => Authority!Init
  <2>1. ASSUME Init PROVE ~IsActive /\ policy.nonce = 0 /\ lastNonce = 0
    BY <2>1 DEF Init, RiskInit, PolicyInit, NoPolicy, NoRisk, IsActive
  <2>. QED
    BY <2>1, InertLimits DEF Authority!Init, CertificateInForce
<1>2. Invariant /\ [Next]_vars => [Authority!Next]_Authority!vars
  BY AuthorityStep
<1>. QED
  BY Initially, InvariantStep, <1>1, <1>2, PTL
     DEF Spec, ImplementsPolicyAuthority, Authority!Spec
=============================================================================
