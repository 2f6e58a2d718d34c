---------------------- MODULE AurkaSepoliaSwapVMRouter ----------------------
(***************************************************************************)
(* contracts/src/AurkaSepoliaSwapVMRouter.sol with the contracts it calls: *)
(* capacity epochs and the settlement of trades of one position of one     *)
(* policy.  AurkaSwapVMRouter.sol runs the same checks.                    *)
(*                                                                         *)
(* The registries are seen through PolicyAuthority: the policy nonce and   *)
(* the certificate in force name the limits.  Intents and proposals are    *)
(* signed off chain and anybody may hand in any of them at any time, in    *)
(* any order and any number of times; every signed message there could be  *)
(* is therefore present from the start.  Most fields of a proposal and of  *)
(* the epoch handed in must equal what the router reads or computes; what  *)
(* remains of a call is the intent and the amounts.  A hash is the record  *)
(* of what is hashed.  Treasury, oracle and clock move between any calls.  *)
(***************************************************************************)
EXTENDS DirectSettlement, FiniteSets, Sequences

CONSTANTS
    Tokens,              \* the managed assets
    Unit,                \* raw units in a token: a balance b is worth b * price / Unit
    Price,               \* Price[round][t]: the prices the oracle answers in a round
    Terms(_),            \* what else the policy of a nonce says: fee, feeToTreasury, maxAge
    HardPolicies,        \* inputs: limits governance may set
    CertifiedLimits,     \* inputs: limits a certificate may carry
    Fundings,            \* inputs: balances after a deposit, a withdrawal or another trade
    Claims,              \* inputs: balance snapshots an activation may claim
    Amounts,             \* inputs: raw amounts of a transfer
    Intents,             \* inputs: what traders may sign
    NonceBound,          \* bounds of the model: policy nonces,
    CertificateBound,    \* certificates,
    RoundBound,          \* oracle rounds
    TimeBound            \* and time

Directions == {d \in Tokens \X Tokens : d[1] # d[2]}
Balances   == [Tokens -> Nat]
Bound      == [min : Nat, max : Nat, paused : BOOLEAN]
Limits     == [maximum : Nat, bounds : [Tokens -> Bound]]

\* An intent id and the trader's nonce are each good for one trade.  A request that is
\* exactInput, or does not allow a partial fill, is whole.
Intent == [id : Nat, trader : Nat, nonce : Nat, direction : Directions,
           requested : Nat, minimum : Nat, whole : BOOLEAN, deadline : Nat]

ASSUME RouterAssumption ==
    /\ IsFiniteSet(Tokens) /\ Tokens # {}
    /\ Unit \in Nat \ {0}
    /\ NonceBound \in Nat /\ CertificateBound \in Nat
    /\ RoundBound \in Nat \ {0} /\ TimeBound \in Nat
    /\ Price \in [1 .. RoundBound -> [Tokens -> Nat \ {0}]]
    /\ \A n \in 1 .. NonceBound :
          /\ Terms(n).fee \in FeeConfig
          /\ ValidFeeConfig(Terms(n).fee)
          /\ Terms(n).feeToTreasury \in BOOLEAN
          /\ Terms(n).maxAge \in Nat
    /\ \A l \in HardPolicies \cup CertifiedLimits : l \in Limits
    /\ \A b \in Fundings \cup Claims : b \in Balances
    /\ Amounts \subseteq Nat
    /\ \A i \in Intents : i \in Intent

VARIABLES
    nonce, hard, limits, serial, certificate,    \* the registries
    now,                  \* block.timestamp
    oracle,               \* the latest round and the time of its oldest observation
    balances,             \* Aqua's raw balances of the treasury's strategy
    capacity,             \* _capacity, with the epoch in place of its id
    checkpoint,           \* _epochBalances
    usedIntentIds,
    usedIntentNonces,
    trades,               \* the TradeExecuted events so far
    opened                \* history: the limits an epoch was opened under

authorityVars == <<nonce, hard, limits, serial, certificate>>
worldVars     == <<now, oracle, balances>>
routerVars    == <<capacity, checkpoint, usedIntentIds, usedIntentNonces, trades, opened>>
vars          == <<authorityVars, worldVars, routerVars>>

Authority == INSTANCE PolicyAuthority

NoBalances == [t \in {} |-> 0]
NoLimits   == [maximum |-> 0, bounds |-> [t \in {} |-> [min |-> 0, max |-> 0]]]
NoEpoch    == [balances |-> NoBalances, round |-> 0, nonce |-> 0, certificate |-> 0,
               baseline |-> 0]

Init ==
    /\ hard = NoLimits /\ Authority!Init
    /\ now = 0 /\ oracle = [round |-> 1, observedAt |-> 0] /\ balances \in Fundings
    /\ capacity = [d \in Directions |-> [epoch |-> NoEpoch, consumed |-> 0]]
    /\ checkpoint = [d \in Directions |-> NoBalances]
    /\ usedIntentIds = {} /\ usedIntentNonces = {}
    /\ trades = <<>>
    /\ opened = [d \in Directions |-> NoLimits]

----------------------------------------------------------------------------
(* The registries, the oracle and the treasury.                            *)

Govern ==
    /\ \E n \in nonce + 1 .. NonceBound, h \in HardPolicies : nonce' = n /\ hard' = h
    /\ Authority!Govern
    /\ UNCHANGED <<worldVars, routerVars>>

Certify ==
    /\ serial < CertificateBound
    /\ \E l \in CertifiedLimits : limits' = l
    /\ Authority!Certify
    /\ UNCHANGED <<worldVars, routerVars>>

Lapse ==
    /\ certificate # 0
    /\ Authority!Lapse
    /\ UNCHANGED <<worldVars, routerVars>>

Tick ==
    /\ now < TimeBound
    /\ now' = now + 1
    /\ UNCHANGED <<authorityVars, oracle, balances, routerVars>>

\* A feed answers: the prices change, and perhaps the age of the oldest one.
AnswerPrice ==
    /\ oracle.round < RoundBound
    /\ \E at \in oracle.observedAt .. now :
          oracle' = [round |-> oracle.round + 1, observedAt |-> at]
    /\ UNCHANGED <<authorityVars, now, balances, routerVars>>

\* The treasury deposits or withdraws, or another strategy trades.
MoveFunds ==
    /\ balances' \in Fundings
    /\ UNCHANGED <<authorityVars, now, oracle, routerVars>>

----------------------------------------------------------------------------
(* AurkaSettlementAuthority.                                               *)

ValueUp(amount, price)   == CeilDiv(amount * price, Unit)
ValueDown(amount, price) == (amount * price) \div Unit

Values(held) == [t \in Tokens |-> ValueUp(held[t], Price[oracle.round][t])]

Fresh == now - oracle.observedAt <= Terms(nonce).maxAge

\* Where authoritativePortfolio answers.
PortfolioReadable ==
    /\ nonce > 0
    /\ Fresh
    /\ \A t \in Tokens : ~limits.bounds[t].paused

Search(direction, baseline, consumed) ==
    [values |-> Values(balances), bounds |-> limits.bounds,
     input |-> direction[1], output |-> direction[2],
     baseline |-> baseline, consumed |-> consumed, fee |-> Terms(nonce).fee]

\* deriveCapacityBaseline: the largest fill, within the limits in force, of an epoch
\* that has a trade of the maximum value for its capacity.
IsCapacityBaseline(direction, baseline) ==
    LET search == Search(direction, limits.maximum, 0)
    IN  /\ limits.maximum # 0
        /\ WithinBounds(search.values, search.bounds)
        /\ IsFill(search, limits.maximum, limits.maximum, baseline)

----------------------------------------------------------------------------
(* Capacity epochs.                                                        *)

EpochOver(held, baseline) ==
    [balances |-> held, round |-> oracle.round, nonce |-> nonce,
     certificate |-> certificate, baseline |-> baseline]

\* authorityHash: an epoch's commitments without its baseline.
AuthorityOf(epoch) == [epoch EXCEPT !.baseline = 0]

\* The new epoch differs from the present one, and by more than its baseline once
\* that one is consumed.
MayOpen(direction, epoch) ==
    /\ capacity[direction].epoch # epoch
    /\ ~( /\ capacity[direction].consumed # 0
          /\ AuthorityOf(capacity[direction].epoch) = AuthorityOf(epoch) )

\* _activateCapacityEpoch: the balances the epoch claims are not compared with those
\* of the strategy, the first fill does that.
OpenEpoch(direction, held) ==
    /\ PortfolioReadable
    /\ \E baseline \in 1 .. limits.maximum :
          LET epoch == EpochOver(held, baseline)
          IN  /\ MayOpen(direction, epoch)
              /\ IsCapacityBaseline(direction, baseline)
              /\ capacity' = [capacity EXCEPT ![direction] = [epoch |-> epoch, consumed |-> 0]]
    /\ opened' = [opened EXCEPT ![direction] = limits]
    /\ UNCHANGED <<authorityVars, worldVars, checkpoint, usedIntentIds, usedIntentNonces,
                   trades>>

\* By governance or the treasury.
ActivateCapacityEpoch(direction) == \E held \in Claims : OpenEpoch(direction, held)

\* By the factory, which commits the balances the strategy holds.
ActivateCapacityEpochFromFactory(direction) == OpenEpoch(direction, balances)

----------------------------------------------------------------------------
(* Settlement.                                                             *)

\* Fault: only the id of an intent is remembered.
FaultyUnused(intent) == intent.id \notin usedIntentIds

\* usedProposals adds nothing: a proposal names one intent by its hash.
Unused(intent) ==
    /\ intent.id \notin usedIntentIds
    /\ <<intent.trader, intent.nonce>> \notin usedIntentNonces

\* Fault: the risk certificate of the epoch is not compared.
FaultyEpochIsCurrent(epoch) ==
    /\ epoch.nonce = nonce
    /\ epoch.round = oracle.round

EpochIsCurrent(epoch) ==
    /\ epoch.nonce = nonce
    /\ epoch.certificate = certificate
    /\ epoch.round = oracle.round

\* Fault: the first fill of an epoch takes the balances as they are.
FaultyBalancesMatch(direction) ==
    capacity[direction].consumed # 0 => balances = checkpoint[direction]

\* The balances the epoch was opened over, or those its last fill left.
BalancesMatch(direction) ==
    IF capacity[direction].consumed = 0
    THEN balances = capacity[direction].epoch.balances
    ELSE balances = checkpoint[direction]

\* What the trader may pay in for a fill: its value is rounded down.
Receipts(token, fill) ==
    {a \in Amounts : ValueDown(a, Price[oracle.round][token]) = fill}

\* What the treasury may pay out: the amounts of trader, solver and protocol, each
\* rounded up, are worth their shares and together the gross output less the
\* treasury's fee.
WorthUp(token, value) == {a \in Amounts : ValueUp(a, Price[oracle.round][token]) = value}

Payments(token, fill, fees) ==
    {paid \in {a + b + c : a \in WorthUp(token, fill - fees.total),
                          b \in WorthUp(token, fees.solver),
                          c \in WorthUp(token, fees.protocol)} :
        paid > 0 /\ ValueUp(paid, Price[oracle.round][token]) = fill - fees.treasury}

\* The portfolio read back after the swap is the one the fill promised.
FinalPortfolio(search, fill, after) ==
    /\ Values(after) = PreviewFeeInclusiveTrade(search, fill)
    /\ WithinBounds(Values(after), search.bounds)

\* What every settlement checks before it looks at the amounts.
Settleable(intent, search) ==
    /\ now <= intent.deadline
    /\ Unused(intent)
    /\ PortfolioReadable
    /\ Terms(nonce).feeToTreasury
    /\ limits.maximum # 0
    /\ EpochIsCurrent(capacity[intent.direction].epoch)
    /\ BalancesMatch(intent.direction)
    /\ WithinBounds(search.values, search.bounds)

Acceptable(intent, search, fill) ==
    /\ IsFill(search, intent.requested, limits.maximum, fill)
    /\ intent.whole => fill = intent.requested
    /\ fill - FillFees(search, fill).total >= intent.minimum

Record(intent, direction, fill, after) ==
    /\ balances' = after
    /\ checkpoint' = [checkpoint EXCEPT ![direction] = after]
    /\ capacity' = [capacity EXCEPT ![direction].consumed = @ + fill]
    /\ usedIntentIds' = usedIntentIds \cup {intent.id}
    /\ usedIntentNonces' = usedIntentNonces \cup {<<intent.trader, intent.nonce>>}
    /\ trades' = Append(trades, [intent |-> intent, epoch |-> capacity[direction].epoch,
                                 consumedAfter |-> capacity[direction].consumed + fill])
    /\ UNCHANGED <<authorityVars, now, oracle, opened>>

\* executeWithSwapVM
ExecuteWithSwapVM(intent) ==
    LET direction == intent.direction
        input     == direction[1]
        output    == direction[2]
        search    == Search(direction, capacity[direction].epoch.baseline,
                            capacity[direction].consumed)
    IN  /\ Settleable(intent, search)
        /\ \E fill \in 1 .. intent.requested :
              /\ Acceptable(intent, search, fill)
              /\ \E received \in Receipts(input, fill),
                    paid \in Payments(output, fill, FillFees(search, fill)) :
                    LET after == [balances EXCEPT ![input] = @ + received,
                                                  ![output] = @ - paid]
                    IN  /\ paid <= balances[output]
                        /\ FinalPortfolio(search, fill, after)
                        /\ Record(intent, direction, fill, after)

----------------------------------------------------------------------------
RouterNext ==
    \/ \E direction \in Directions : ActivateCapacityEpoch(direction)
    \/ \E direction \in Directions : ActivateCapacityEpochFromFactory(direction)
    \/ \E intent \in Intents : ExecuteWithSwapVM(intent)

Next ==
    \/ Govern \/ Certify \/ Lapse
    \/ Tick \/ AnswerPrice \/ MoveFunds
    \/ RouterNext

Spec == Init /\ [][Next]_vars

----------------------------------------------------------------------------
(* Properties.                                                             *)

Epochs == [balances : Balances, round : 1 .. RoundBound, nonce : 1 .. NonceBound,
           certificate : 0 .. CertificateBound, baseline : Nat \ {0}]

Trade == [intent : Intents, epoch : Epochs, consumedAfter : Nat]

TypeOK ==
    /\ nonce \in 0 .. NonceBound
    /\ serial \in 0 .. CertificateBound
    /\ certificate \in 0 .. CertificateBound
    /\ {hard, limits} \subseteq IF nonce = 0 THEN {NoLimits} ELSE Limits
    /\ now \in 0 .. TimeBound
    /\ oracle \in [round : 1 .. RoundBound, observedAt : Nat]
    /\ balances \in Balances
    /\ capacity \in [Directions -> [epoch : Epochs \cup {NoEpoch}, consumed : Nat]]
    /\ checkpoint \in [Directions -> Balances \cup {NoBalances}]
    /\ trades \in Seq(Trade)
    /\ opened \in [Directions -> Limits \cup {NoLimits}]

\* No certificate means the hard limits, and a certificate in force is the last one.
AuthorityInvariant ==
    /\ certificate \in {0, serial}
    /\ certificate = 0 => limits = hard

\* An epoch of the present policy and certificate was opened under the present limits;
\* one whose certificate is past can never become current again.
EpochInvariant(direction) ==
    LET epoch == capacity[direction].epoch
    IN  /\ epoch.nonce <= nonce
        /\ epoch.certificate <= serial
        /\ epoch.nonce = nonce /\ epoch.certificate = 0 => opened[direction] = hard
        /\ epoch.nonce = nonce /\ epoch.certificate = certificate
              => opened[direction] = limits

\* All the fills of an epoch together stay within its baseline, and the baseline within
\* the maximum trade value in force when it was opened: one epoch never gives more
\* than one trade of the maximum value could take, into however many it is split.
CapacityInvariant(direction) ==
    /\ capacity[direction].consumed <= capacity[direction].epoch.baseline
    /\ capacity[direction].epoch.baseline <= opened[direction].maximum

RouterInvariant ==
    /\ TypeOK
    /\ AuthorityInvariant
    /\ \A d \in Directions : EpochInvariant(d) /\ CapacityInvariant(d)

\* The worth of a balance at the prices an epoch was opened at.
WorthAt(epoch, held, t) == ValueUp(held[t], Price[epoch.round][t])

\* What an epoch has consumed is exactly the value its fills brought in, to the unit:
\* from the balances it was opened over to its checkpoint the input token gained the
\* consumption, the output token lost no more, and no other token changed, whatever
\* moved between its fills.
CapacityMatchesFlow ==
    \A d \in Directions : capacity[d].consumed > 0 =>
        LET epoch     == capacity[d].epoch
            before(t) == WorthAt(epoch, epoch.balances, t)
            after(t)  == WorthAt(epoch, checkpoint[d], t)
        IN  /\ after(d[1]) = before(d[1]) + capacity[d].consumed
            /\ after(d[2]) \in before(d[2]) - capacity[d].consumed .. before(d[2])
            /\ \A t \in Tokens \ {d[1], d[2]} : checkpoint[d][t] = epoch.balances[t]

\* An intent trades at most once, whichever solvers propose it, however often it is
\* handed in, and in whichever epochs; so does a trader's nonce.
SettledOnce ==
    \A i, j \in DOMAIN trades :
        LET a == trades[i].intent
            b == trades[j].intent
        IN  a.id = b.id \/ <<a.trader, a.nonce>> = <<b.trader, b.nonce>> => i = j

\* A trade settles under the limits its epoch's baseline was derived from: when policy
\* or certificate moved since, even if they moved on and the certificate lapsed, the
\* baseline is not used again.
SettlesUnderLimitsOfItsEpoch ==
    [][\A d \in Directions :
          capacity'[d].consumed > capacity[d].consumed =>
              /\ opened[d] = limits
              /\ capacity[d].epoch.round = oracle.round]_vars

\* After a trade every weight is within the limits in force, and the portfolio is worth
\* at least what it was worth before, at the prices of the oracle.
SettlesSafely ==
    [][trades' # trades =>
          LET values == Values(balances)'
              nav    == Nav(values)
          IN  /\ nav >= Nav(Values(balances))
              /\ \A t \in Tokens :
                    /\ values[t] * Bps >= nav * limits.bounds[t].min
                    /\ values[t] * Bps <= nav * limits.bounds[t].max]_vars

\* AurkaSwapVMRouter.sol says of activateCapacityEpoch: "the same epoch ID can never be
\* reset to lower utilization".
EpochNeverResetToLowerUtilization ==
    \A i \in DOMAIN trades :
        LET held == capacity[trades[i].intent.direction]
        IN  held.epoch = trades[i].epoch => held.consumed >= trades[i].consumedAfter
=============================================================================
