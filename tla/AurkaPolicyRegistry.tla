------------------------ MODULE AurkaPolicyRegistry ------------------------
(***************************************************************************)
(* contracts/src/AurkaPolicyRegistry.sol: the hard policy of one Space.    *)
(*                                                                         *)
(* The contract keeps a mapping from policy ids to policies in which no    *)
(* call touches two entries, so one policy is modelled.  Every transaction *)
(* is atomic: a revert undoes the writes made before it, which is why the  *)
(* checks the code makes after a write (the portfolio totals) are guards   *)
(* on the value written.  Token decimals and events are left out.          *)
(***************************************************************************)
EXTENDS Integers, FiniteSets, Functions

CONSTANTS
    Accounts,           \* addresses that send transactions or are named in a policy
    Zero,               \* address(0) and bytes32(0)
    Tokens,             \* tokens a policy may manage
    Positions,          \* position id hashes, never zero
    Bps,                \* BASIS_POINTS, 10000 in the code
    MaxAssets,          \* MAX_ASSETS, 32 in the code
    MaxTotalFee,        \* MAXIMUM_TOTAL_FEE_BPS, 100 in the code
    MaxPriceAge,        \* 86400 seconds in the code
    DefaultProtection,  \* the price protection a new policy starts with
    WeightRanges,       \* inputs: weight bounds a call may pass, valid or not
    TradeValues,        \* inputs: maximum transaction values, zero among them
    Fees,               \* inputs: fee configurations, valid or not
    PriceProtections,   \* inputs: price protections, valid or not
    Settlements,        \* inputs: settlement configurations, valid or not
    NonceBound          \* bound of the model on the policy nonce

WeightRange     == [min : Nat, max : Nat]
FeeConfig       == [base : Nat, slope : Nat, maximum : Nat, treasuryBase : Nat,
                    solver : Nat, protocol : Nat,
                    treasuryFeeRecipient : Accounts \cup {Zero},
                    protocolFeeRecipient : Accounts \cup {Zero}]
PriceProtection == [maxAge : Nat, maxDeviation : Nat]

ASSUME PolicyAssumption ==
    /\ Zero \notin Accounts
    /\ IsFiniteSet(Tokens)
    /\ Bps \in Nat /\ MaxAssets \in Nat /\ MaxTotalFee \in Nat /\ MaxPriceAge \in Nat
    /\ NonceBound \in Nat /\ NonceBound >= 3
    /\ MaxPriceAge > 0
    /\ DefaultProtection \in [maxAge : 1 .. MaxPriceAge, maxDeviation : 0 .. Bps]
    /\ WeightRanges \subseteq WeightRange
    /\ TradeValues \subseteq Nat
    /\ Fees \subseteq FeeConfig
    /\ PriceProtections \subseteq PriceProtection
    /\ \A s \in Settlements : DOMAIN s = {"strategy", "oracle"}

\* The asset lists a call may pass: the weights of some set of tokens.
Portfolios == UNION {[S -> WeightRanges] : S \in SUBSET Tokens}

VARIABLES
    policy,           \* the Policy struct with its assets, bounds and settlement mappings
    initialization    \* initializationAuthority and initializationFactory

policyVars == <<policy, initialization>>

----------------------------------------------------------------------------
(* Validation.                                                             *)

ValidWeights(range) == range.min <= range.max /\ range.max <= Bps

SumOfMinimums(bounds) == SumFunction([t \in DOMAIN bounds |-> bounds[t].min])
SumOfMaximums(bounds) == SumFunction([t \in DOMAIN bounds |-> bounds[t].max])

\* A portfolio whose weights add up to 100% can satisfy all the bounds.
ValidPortfolioTotals(bounds) ==
    SumOfMinimums(bounds) <= Bps /\ Bps <= SumOfMaximums(bounds)

ValidFee(fee) ==
    /\ fee.base + fee.slope <= fee.maximum
    /\ fee.maximum <= MaxTotalFee
    /\ fee.treasuryBase + fee.solver + fee.protocol = fee.base
    /\ Zero \notin {fee.treasuryFeeRecipient, fee.protocolFeeRecipient}

ValidProtection(protection) ==
    /\ protection.maxAge \in 1 .. MaxPriceAge
    /\ protection.maxDeviation <= Bps

ValidSettlement(settlement) ==
    settlement.strategy # Zero /\ settlement.oracle # Zero

----------------------------------------------------------------------------
(* State.  A bounds function has the managed tokens as its domain.         *)

NoSettlement == [strategy |-> Zero, oracle |-> Zero]
NoFee == [base |-> 0, slope |-> 0, maximum |-> 0, treasuryBase |-> 0, solver |-> 0,
          protocol |-> 0, treasuryFeeRecipient |-> Zero, protocolFeeRecipient |-> Zero]

NoPolicy ==
    [exists |-> FALSE, treasury |-> Zero, governance |-> Zero, pendingGovernance |-> Zero,
     maximumTransactionValue |-> 0, nonce |-> 0,
     protection |-> [maxAge |-> 0, maxDeviation |-> 0], paused |-> FALSE, fee |-> NoFee,
     bounds |-> [t \in {} |-> [min |-> 0, max |-> 0]],
     settlement |-> [p \in Positions |-> NoSettlement]]

\* The deployer is the initialization authority.
PolicyInit ==
    /\ policy = NoPolicy
    /\ \E deployer \in Accounts :
          initialization = [authority |-> deployer, factory |-> Zero]

----------------------------------------------------------------------------
(* Operations.  Each takes the sender of the transaction first.            *)

SetInitializationFactory(sender, factory) ==
    /\ sender = initialization.authority
    /\ initialization.factory = Zero
    /\ factory # Zero
    /\ initialization' = [authority |-> Zero, factory |-> factory]
    /\ UNCHANGED policy

\* _createPolicy: the checks, and the policy it writes.
Creatable(treasury, governance, bounds, value, fee) ==
    /\ ~policy.exists
    /\ treasury # Zero /\ governance # Zero
    /\ Cardinality(DOMAIN bounds) \in 2 .. MaxAssets
    /\ value # 0
    /\ ValidFee(fee)
    /\ \A t \in DOMAIN bounds : ValidWeights(bounds[t])
    /\ ValidPortfolioTotals(bounds)

NewPolicy(treasury, governance, bounds, value, fee) ==
    [exists |-> TRUE, treasury |-> treasury, governance |-> governance,
     pendingGovernance |-> Zero, maximumTransactionValue |-> value, nonce |-> 1,
     protection |-> DefaultProtection, paused |-> FALSE, fee |-> fee, bounds |-> bounds,
     settlement |-> [p \in Positions |-> NoSettlement]]

CreatePolicy(sender, treasury, bounds, value, fee) ==
    /\ Creatable(treasury, sender, bounds, value, fee)
    /\ policy' = NewPolicy(treasury, sender, bounds, value, fee)
    /\ UNCHANGED initialization

\* One call of the factory creates the policy, binds a position and sets the
\* price protection; each of the last two advances the nonce.
CreatePolicyFromFactory(sender, treasury, governance, bounds, value, fee, position,
                        settlement, protection) ==
    /\ sender = initialization.factory
    /\ Creatable(treasury, governance, bounds, value, fee)
    /\ ValidSettlement(settlement)
    /\ ValidProtection(protection)
    /\ policy' = [NewPolicy(treasury, governance, bounds, value, fee) EXCEPT
                     !.settlement[position] = settlement,
                     !.protection = protection,
                     !.nonce = 3]
    /\ UNCHANGED initialization

\* onlyGovernance; NonceBound is a bound of the model, not of the code.
Governs(sender) ==
    /\ policy.exists
    /\ sender = policy.governance
    /\ policy.nonce < NonceBound

\* Every setter ends with ++nonce.
Amend(amended) ==
    /\ policy' = [amended EXCEPT !.nonce = policy.nonce + 1]
    /\ UNCHANGED initialization

\* Fault: the nonce stays, and with it every signature made before.
FaultyUpdateAssetBounds(sender, token, range) ==
    LET bounds == [policy.bounds EXCEPT ![token] = range]
    IN  /\ Governs(sender)
        /\ token \in DOMAIN policy.bounds
        /\ ValidWeights(range)
        /\ ValidPortfolioTotals(bounds)
        /\ policy' = [policy EXCEPT !.bounds = bounds]
        /\ UNCHANGED initialization

UpdateAssetBounds(sender, token, range) ==
    LET bounds == [policy.bounds EXCEPT ![token] = range]
    IN  /\ Governs(sender)
        /\ token \in DOMAIN policy.bounds
        /\ ValidWeights(range)
        /\ ValidPortfolioTotals(bounds)
        /\ Amend([policy EXCEPT !.bounds = bounds])

\* Fault: only the weights of the new asset are validated.
FaultyAddAsset(sender, token, range) ==
    /\ Governs(sender)
    /\ Cardinality(DOMAIN policy.bounds) < MaxAssets
    /\ token \notin DOMAIN policy.bounds
    /\ ValidWeights(range)
    /\ Amend([policy EXCEPT !.bounds = [t \in DOMAIN policy.bounds \cup {token} |->
                                          IF t = token THEN range ELSE policy.bounds[t]]])

AddAsset(sender, token, range) ==
    LET bounds == [t \in DOMAIN policy.bounds \cup {token} |->
                      IF t = token THEN range ELSE policy.bounds[t]]
    IN  /\ Governs(sender)
        /\ Cardinality(DOMAIN policy.bounds) < MaxAssets
        /\ token \notin DOMAIN policy.bounds
        /\ ValidWeights(range)
        /\ ValidPortfolioTotals(bounds)
        /\ Amend([policy EXCEPT !.bounds = bounds])

SetMaximumTransactionValue(sender, value) ==
    /\ Governs(sender)
    /\ value # 0
    /\ Amend([policy EXCEPT !.maximumTransactionValue = value])

\* Fault: the fee is stored as given.
FaultySetFeeConfiguration(sender, fee) ==
    /\ Governs(sender)
    /\ Amend([policy EXCEPT !.fee = fee])

SetFeeConfiguration(sender, fee) ==
    /\ Governs(sender)
    /\ ValidFee(fee)
    /\ Amend([policy EXCEPT !.fee = fee])

SetPaused(sender, paused) ==
    /\ Governs(sender)
    /\ Amend([policy EXCEPT !.paused = paused])

SetPriceProtection(sender, protection) ==
    /\ Governs(sender)
    /\ ValidProtection(protection)
    /\ Amend([policy EXCEPT !.protection = protection])

SetTreasury(sender, treasury) ==
    /\ Governs(sender)
    /\ treasury # Zero
    /\ Amend([policy EXCEPT !.treasury = treasury])

SetSettlementConfiguration(sender, position, settlement) ==
    /\ Governs(sender)
    /\ ValidSettlement(settlement)
    /\ Amend([policy EXCEPT !.settlement[position] = settlement])

\* Nomination alone leaves the nonce as it is.
TransferGovernance(sender, account) ==
    /\ policy.exists
    /\ sender = policy.governance
    /\ account # Zero
    /\ policy' = [policy EXCEPT !.pendingGovernance = account]
    /\ UNCHANGED initialization

AcceptGovernance(sender) ==
    /\ policy.exists
    /\ sender = policy.pendingGovernance
    /\ policy.nonce < NonceBound
    /\ Amend([policy EXCEPT !.governance = sender, !.pendingGovernance = Zero])

----------------------------------------------------------------------------
\* The first conjunct only spares TLC the inputs of calls that must revert.
Create ==
    /\ ~policy.exists
    /\ \E sender, treasury \in Accounts, bounds \in Portfolios, value \in TradeValues,
          fee \in Fees :
        \/ CreatePolicy(sender, treasury, bounds, value, fee)
        \/ \E governance \in Accounts, position \in Positions, settlement \in Settlements,
              protection \in PriceProtections :
              CreatePolicyFromFactory(sender, treasury, governance, bounds, value, fee,
                                      position, settlement, protection)

\* Everything governance may do to the policy that advances its nonce.
Govern(sender) ==
    \/ \E token \in Tokens, range \in WeightRanges : UpdateAssetBounds(sender, token, range)
    \/ \E token \in Tokens, range \in WeightRanges : AddAsset(sender, token, range)
    \/ \E value \in TradeValues : SetMaximumTransactionValue(sender, value)
    \/ \E fee \in Fees : SetFeeConfiguration(sender, fee)
    \/ \E paused \in BOOLEAN : SetPaused(sender, paused)
    \/ \E protection \in PriceProtections : SetPriceProtection(sender, protection)
    \/ \E treasury \in Accounts : SetTreasury(sender, treasury)
    \/ \E position \in Positions, settlement \in Settlements :
          SetSettlementConfiguration(sender, position, settlement)
    \/ AcceptGovernance(sender)

PolicyNext ==
    \/ \E sender, factory \in Accounts : SetInitializationFactory(sender, factory)
    \/ Create
    \/ \E sender \in Accounts : Govern(sender)
    \/ \E sender, account \in Accounts : TransferGovernance(sender, account)

PolicySpec == PolicyInit /\ [][PolicyNext]_policyVars

----------------------------------------------------------------------------
(* Properties.                                                             *)

Policy ==
    [exists : BOOLEAN, treasury : Accounts \cup {Zero}, governance : Accounts \cup {Zero},
     pendingGovernance : Accounts \cup {Zero}, maximumTransactionValue : Nat,
     nonce : 0 .. NonceBound, protection : PriceProtection, paused : BOOLEAN,
     fee : FeeConfig, bounds : Portfolios,
     settlement : [Positions -> Settlements \cup {NoSettlement}]]

\* The policy is a value of the contract's types, and one that exists holds only
\* configurations that passed validation, whichever call stored them; it is never
\* without a treasury or a governor.
PolicyTypeOK ==
    /\ policy \in Policy
    /\ policy.exists =>
          /\ {policy.treasury, policy.governance} \subseteq Accounts
          /\ policy.maximumTransactionValue # 0
          /\ ValidFee(policy.fee)
          /\ ValidProtection(policy.protection)
          /\ policy.nonce > 0
    /\ ~policy.exists => policy.nonce = 0
    /\ initialization \in [authority : Accounts \cup {Zero}, factory : Accounts \cup {Zero}]

\* Whatever governance adds or rebounds, in any order, some portfolio of weight
\* 100% satisfies all the bounds: no sequence of legal calls freezes the Space by
\* making its policy unsatisfiable.
PortfolioAlwaysFeasible ==
    policy.exists =>
        /\ Cardinality(DOMAIN policy.bounds) \in 2 .. MaxAssets
        /\ \A t \in DOMAIN policy.bounds : ValidWeights(policy.bounds[t])
        /\ ValidPortfolioTotals(policy.bounds)

\* What a signature over a policy nonce binds: all of the policy but the nominee.
Binding(p) == [p EXCEPT !.pendingGovernance = Zero, !.nonce = 0]

\* Proposals, certificates and capacity epochs name the policy by its nonce.  The
\* nonce never decreases, and nothing they rely on changes under the same nonce.
NonceIdentifiesPolicy ==
    [][/\ policy'.nonce >= policy.nonce
       /\ Binding(policy') # Binding(policy) => policy'.nonce > policy.nonce]_policyVars
=============================================================================
