-------------------------- MODULE DelegatedSession --------------------------
(***************************************************************************)
(* packages/services/src/agent/delegated.ts: one trading session of an     *)
(* agent wallet, over the tables of packages/services/src/db/repository.ts *)
(* and the wallet adapter of packages/wallet/src/delegated.ts.             *)
(*                                                                         *)
(* The requests of the owner and the ticks of the worker are operations    *)
(* that interleave at their awaits.  A step is the code between two        *)
(* awaits, and starts with the answer to the first.  Operations that use   *)
(* the wallet wait for one another in a queue (withWalletOperation), which *)
(* is in memory: a crash of the process empties it and ends every          *)
(* operation.  Calls of the wallet provider and of the chain fail at any   *)
(* time, and the answer of a call that was carried out may be lost.  Calls *)
(* of the database do not fail.                                            *)
(***************************************************************************)
EXTENDS Naturals, FiniteSets, Sequences, FiniteSetsExt

CONSTANTS
    Handlers,          \* operations in flight at one time
    None,
    Proposals,         \* proposals of the agent, each with its trade
    Recoveries,        \* recoveries the owner signed
    InputAmount,       \* the input of each proposal
    Budget, MaxTrades, \* cumulativeInputBudget and maxTradeCount of the plan
    GenerationBound    \* bound of the model: stops

ASSUME SessionAssumption ==
    /\ IsFiniteSet(Handlers) /\ IsFiniteSet(Proposals) /\ IsFiniteSet(Recoveries)
    /\ None \notin Handlers \cup Proposals \cup Recoveries
    /\ Proposals \cap Recoveries = {}
    /\ InputAmount \in [Proposals -> Nat]
    /\ {Budget, MaxTrades, GenerationBound} \subseteq Nat

VARIABLES
    session,           \* delegated_sessions
    trades,            \* delegated_trades: status, and whether it has a hash
    recoveries,        \* delegated_recoveries, likewise
    stopConfirmed,     \* the activity STOP_CONFIRMED is recorded
    operation,         \* what each operation is at
    walletOperations,  \* the queue of withWalletOperation; its head runs
    expired,           \* plan.expiresAt has passed
    revoked,           \* the signer is detached from the wallet
    requested,         \* trades and recoveries handed to the provider
    mined              \* the receipt the chain has of each

stores == <<session, trades, recoveries, stopConfirmed>>
world  == <<expired, revoked, requested, mined>>
vars   == <<stores, operation, walletOperations, world>>

Items == Proposals \cup Recoveries

\* seen is the session as it was read, todo what reconciliation has still to ask for,
\* item the trade or the recovery.
NoSession == [state |-> "NONE", generation |-> 0, consumed |-> 0, count |-> 0]
Ended     == [op |-> "none", at |-> "ended", seen |-> NoSession, todo |-> {}, item |-> None]
NoRow     == [status |-> "NONE", hash |-> FALSE]

Init ==
    /\ session = NoSession
    /\ trades = [p \in Proposals |-> NoRow]
    /\ recoveries = [r \in Recoveries |-> NoRow]
    /\ stopConfirmed = FALSE
    /\ operation = [h \in Handlers |-> Ended]
    /\ walletOperations = <<>>
    /\ expired = FALSE /\ revoked = FALSE
    /\ requested = {}
    /\ mined = [i \in Items |-> "none"]

----------------------------------------------------------------------------
(* Queries of the repository.                                              *)

InFlight == {"SIGNING", "SUBMITTED", "RECONCILIATION_REQUIRED"}
Pending  == {p \in Proposals : trades[p].status \in InFlight}

TradesToReconcile ==
    {p \in Proposals : trades[p].hash
                    /\ trades[p].status \in {"SUBMITTED", "RECONCILIATION_REQUIRED"}}
RecoveriesToReconcile ==
    {r \in Recoveries : recoveries[r].hash /\ recoveries[r].status = "SUBMITTED"}

AtLimit(s) == s.count >= MaxTrades \/ s.consumed >= Budget

\* updateDelegatedSessionIfGeneration
WithState(s, generation, state) ==
    IF s.generation = generation THEN [s EXCEPT !.state = state] ELSE s

\* stopDelegatedSession
Stopped(s) ==
    IF s.state = "STOPPED" THEN s
    ELSE [s EXCEPT !.state = "STOPPED", !.generation = @ + 1]

\* updateDelegatedTrade and updateDelegatedRecovery: a hash that is not given is erased.
Row(status, hash) == [status |-> status, hash |-> hash]

\* Fault: a release does not look at the status of the trade.
FaultyRelease(p) ==
    /\ trades' = [trades EXCEPT ![p] = Row("RELEASED", FALSE)]
    /\ session' = [session EXCEPT
                     !.consumed = IF @ >= InputAmount[p] THEN @ - InputAmount[p] ELSE 0,
                     !.count = IF @ > 0 THEN @ - 1 ELSE 0]

\* releaseDelegatedTrade
Release(p) ==
    IF trades[p].status = "SIGNING"
    THEN /\ trades' = [trades EXCEPT ![p].status = "RELEASED"]
         /\ session' = [session EXCEPT
                          !.consumed = IF @ >= InputAmount[p] THEN @ - InputAmount[p] ELSE 0,
                          !.count = IF @ > 0 THEN @ - 1 ELSE 0]
    ELSE UNCHANGED <<session, trades>>

----------------------------------------------------------------------------
(* Operations and the wallet's queue.                                      *)

Begin(h, op, at) ==
    /\ operation[h] = Ended
    /\ operation' = [operation EXCEPT ![h].op = op, ![h].at = at]

\* The same for an operation that keeps what it reads first.
BeginWith(h, op, at, todo) ==
    /\ operation[h] = Ended
    /\ operation' = [operation EXCEPT ![h] = [op |-> op, at |-> at, seen |-> session,
                                             todo |-> todo, item |-> None]]

At(h, op, at) == operation[h].op = op /\ operation[h].at = at
Go(h, at)     == operation' = [operation EXCEPT ![h].at = at]
End(h)        == operation' = [operation EXCEPT ![h] = Ended]

Queue(h) == walletOperations' = Append(walletOperations, h)

\* Fault: an operation does not wait for the one before it.
FaultyHasWallet(h) == walletOperations # <<>>

\* The operations before it on the wallet have released it.
HasWallet(h) == walletOperations # <<>> /\ Head(walletOperations) = h

\* Fault: an operation that ends does not release the wallet.
FaultyLeave == UNCHANGED walletOperations

\* The finally block releases the wallet whether the call failed or not.
Leave == walletOperations' = Tail(walletOperations)

\* isAuthorityCurrent
Current(h) ==
    /\ session.state = "ACTIVE"
    /\ session.generation = operation[h].seen.generation

----------------------------------------------------------------------------
(* authorize: restores a revoked signer, and stores the session once.      *)

Authorized ==
    IF session.state = "NONE" THEN [session EXCEPT !.state = "AUTHORIZED"] ELSE session

Authorize ==
    /\ ~expired /\ ~revoked /\ session.state = "NONE"
    /\ session' = Authorized
    /\ UNCHANGED <<trades, recoveries, stopConfirmed, operation, walletOperations, world>>

BeginRestore(h) ==
    /\ ~expired /\ revoked
    /\ Begin(h, "authorize", "restore")
    /\ Queue(h)
    /\ UNCHANGED <<stores, world>>

Restore(h) ==
    /\ At(h, "authorize", "restore") /\ HasWallet(h)
    /\ End(h) /\ Leave
    /\ \/ revoked' = FALSE /\ session' = Authorized
       \/ UNCHANGED <<revoked, session>>
    /\ UNCHANGED <<trades, recoveries, stopConfirmed, expired, requested, mined>>

----------------------------------------------------------------------------
(* reconcileInternal, which a refresh, a reconcile of the owner, a tick    *)
(* and a recovery start with.                                              *)

BeginReconcile(h, op) ==
    /\ session.state # "NONE"
    /\ BeginWith(h, op, "trades", TradesToReconcile)
    /\ UNCHANGED <<stores, walletOperations, world>>

\* The owner reads the session or has it reconciled.
Refresh(h) == BeginReconcile(h, "refresh")

\* The owner starts the session, in any state.
Start(h) == BeginReconcile(h, "tick")

\* DelegatedAgentWorker.tick.  Its lease ends on its own after three minutes, and the
\* owner's start takes none: ticks may overlap.
WorkerTick(h) == session.state = "ACTIVE" /\ BeginReconcile(h, "tick")

BeginRecover(h) == BeginReconcile(h, "recover")

\* Reconciliation goes on with what is left of its trades, then with the recoveries it
\* lists once they are done, and ends by noticing that the plan has expired; s is the
\* session after the step's writes.
Proceed(h, rest, s) ==
    LET o == operation[h] IN
    IF rest # {}
    THEN session' = s /\ operation' = [operation EXCEPT ![h].todo = rest]
    ELSE IF o.at = "trades" /\ RecoveriesToReconcile # {}
    THEN /\ session' = s
         /\ operation' = [operation EXCEPT ![h].at = "recoveries",
                                           ![h].todo = RecoveriesToReconcile]
    ELSE /\ session' = IF expired /\ o.seen.state = "ACTIVE"
                       THEN WithState(s, o.seen.generation, "EXPIRED") ELSE s
         /\ IF o.op = "refresh" THEN End(h)
            ELSE operation' = [operation EXCEPT ![h] = [Ended EXCEPT !.op = o.op, !.at = "reconciled"]]

ReconcileNoTrade(h) ==
    /\ operation[h].at = "trades" /\ operation[h].todo = {}
    /\ Proceed(h, {}, session)
    /\ UNCHANGED <<trades, recoveries, stopConfirmed, walletOperations, world>>

\* Fault: the status of a receipt is stored as it comes.
FaultyOutcome(receipt) == receipt

Outcome(receipt) == IF receipt = "success" THEN "CONFIRMED" ELSE "REVERTED"

StateAfter(receipt, seen) ==
    IF seen.state \in {"STOPPED", "REVOKE_PENDING"} THEN seen.state
    ELSE IF receipt = "success" /\ AtLimit(seen) THEN "EXHAUSTED" ELSE "ACTIVE"

\* What getReceipt answers: an error ends the operation before it writes anything.
ReconcileTrade(h) ==
    /\ operation[h].at = "trades"
    /\ \E p \in operation[h].todo :
          LET rest == operation[h].todo \ {p}
              seen == operation[h].seen
          IN \/ /\ mined[p] = "none"
                /\ Proceed(h, rest, session)
                /\ UNCHANGED trades
             \/ /\ mined[p] # "none"
                /\ trades' = [trades EXCEPT ![p] = Row(Outcome(mined[p]), TRUE)]
                /\ Proceed(h, rest, WithState(session, seen.generation,
                                              StateAfter(mined[p], seen)))
    /\ UNCHANGED <<recoveries, stopConfirmed, walletOperations, world>>

ReconcileRecovery(h) ==
    /\ operation[h].at = "recoveries"
    /\ \E r \in operation[h].todo :
          /\ IF mined[r] = "none" THEN UNCHANGED recoveries
             ELSE recoveries' = [recoveries EXCEPT ![r] = Row(Outcome(mined[r]), TRUE)]
          /\ Proceed(h, operation[h].todo \ {r}, session)
    /\ UNCHANGED <<trades, stopConfirmed, walletOperations, world>>

ReconcileFails(h) ==
    /\ operation[h].at \in {"trades", "recoveries"}
    /\ End(h)
    /\ UNCHANGED <<stores, walletOperations, world>>

----------------------------------------------------------------------------
(* A tick: runActiveTick.                                                  *)

Activated == IF session.state = "AUTHORIZED" THEN [session EXCEPT !.state = "ACTIVE"] ELSE session

\* The state in which the tick leaves the session when it does not go on.
TickRefused ==
    IF expired THEN "EXPIRED"
    ELSE IF Activated.state # "ACTIVE" THEN session.state
    ELSE IF Pending # {} THEN "RECONCILIATION_REQUIRED"
    ELSE IF AtLimit(session) THEN "EXHAUSTED"
    ELSE "none"

CheckTick(h) ==
    /\ At(h, "tick", "reconciled")
    /\ IF TickRefused # "none"
       THEN session' = [session EXCEPT !.state = TickRefused] /\ End(h)
       ELSE /\ session' = Activated
            /\ operation' = [operation EXCEPT ![h].at = "status", ![h].seen = Activated]
    /\ UNCHANGED <<trades, recoveries, stopConfirmed, walletOperations, world>>

\* The provider says that the signer is detached or its policy paused.
WalletDisabled(h) ==
    /\ At(h, "tick", "status")
    /\ session.generation < GenerationBound
    /\ session' = Stopped(session) /\ End(h)
    /\ UNCHANGED <<trades, recoveries, stopConfirmed, walletOperations, world>>

WalletChanged(h) ==
    /\ At(h, "tick", "status")
    /\ session' = WithState(session, operation[h].seen.generation, "RECONCILIATION_REQUIRED")
    /\ End(h)
    /\ UNCHANGED <<trades, recoveries, stopConfirmed, walletOperations, world>>

WalletReady(h) ==
    /\ At(h, "tick", "status") /\ ~revoked
    /\ Go(h, "proposal")
    /\ UNCHANGED <<stores, walletOperations, world>>

\* An error of the provider, or no proposal within the limits of the plan.
NoTrade(h) ==
    /\ operation[h].at \in {"status", "proposal"}
    /\ End(h)
    /\ UNCHANGED <<stores, walletOperations, world>>

\* Fault: the reservation trusts the check of the tick.
FaultyReservable(p) == trades[p].status = "NONE" /\ session.state = "ACTIVE" /\ ~expired

\* reserveDelegatedTrade reads the session in its own transaction.
Reservable(p) ==
    /\ trades[p].status = "NONE"
    /\ session.state = "ACTIVE" /\ ~expired
    /\ session.count < MaxTrades
    /\ session.consumed + InputAmount[p] <= Budget

\* reserveDelegatedTrade, claimDelegatedTradeForSigning, and the release when the
\* session was stopped since the tick read it.
Reserve(h, p) ==
    /\ At(h, "tick", "proposal") /\ Reservable(p)
    /\ IF session.generation = operation[h].seen.generation
       THEN /\ trades' = [trades EXCEPT ![p] = Row("SIGNING", FALSE)]
            /\ session' = [session EXCEPT !.consumed = @ + InputAmount[p], !.count = @ + 1]
            /\ operation' = [operation EXCEPT ![h].at = "preflight", ![h].item = p]
       ELSE /\ trades' = [trades EXCEPT ![p] = Row("RELEASED", FALSE)]
            /\ UNCHANGED session
            /\ End(h)
    /\ UNCHANGED <<recoveries, stopConfirmed, walletOperations, world>>

Preflighted(h) ==
    /\ At(h, "tick", "preflight") /\ Current(h)
    /\ Go(h, "sign") /\ Queue(h)
    /\ UNCHANGED <<stores, world>>

Sign(h) ==
    /\ At(h, "tick", "sign") /\ HasWallet(h) /\ Current(h)
    /\ Go(h, "signing")
    /\ UNCHANGED <<stores, walletOperations, world>>

Signed(h) ==
    /\ At(h, "tick", "signing") /\ ~revoked
    /\ Go(h, "executing") /\ Leave
    /\ UNCHANGED <<stores, world>>

\* service.execute built the router's calldata.
Executed(h) ==
    /\ At(h, "tick", "executing")
    /\ Go(h, "send") /\ Queue(h)
    /\ UNCHANGED <<stores, world>>

\* Fault: the broadcast relies on the check made before the signature.
FaultySend(h) ==
    /\ At(h, "tick", "send") /\ HasWallet(h)
    /\ Go(h, "sending")
    /\ UNCHANGED <<stores, walletOperations, world>>

Send(h) ==
    /\ At(h, "tick", "send") /\ HasWallet(h) /\ Current(h) /\ ~expired
    /\ Go(h, "sending")
    /\ UNCHANGED <<stores, walletOperations, world>>

\* The adapter's checks and its simulation passed: the provider has the transaction.
Request(h) ==
    /\ At(h, "tick", "sending") /\ ~revoked
    /\ requested' = requested \cup {operation[h].item}
    /\ Go(h, "sent")
    /\ UNCHANGED <<stores, walletOperations, expired, revoked, mined>>

Answered(h) ==
    /\ At(h, "tick", "sent")
    /\ trades' = [trades EXCEPT ![operation[h].item] = Row("SUBMITTED", TRUE)]
    /\ Go(h, "receipt") /\ Leave
    /\ UNCHANGED <<session, recoveries, stopConfirmed, world>>

\* DelegatedBroadcastUnknownError, from the provider or from a receipt that does not
\* fit: the hash, if the trade had one, is erased.
Unknown(h) ==
    /\ operation[h].op = "tick" /\ operation[h].at \in {"sending", "sent", "receipt"}
    /\ trades' = [trades EXCEPT ![operation[h].item] = Row("RECONCILIATION_REQUIRED", FALSE)]
    /\ session' = WithState(session, operation[h].seen.generation, "RECONCILIATION_REQUIRED")
    /\ End(h)
    /\ IF operation[h].at = "receipt" THEN UNCHANGED walletOperations ELSE Leave
    /\ UNCHANGED <<recoveries, stopConfirmed, world>>

\* Any other error, and a session stopped meanwhile: the trade is released if it can be.
\* Nothing but an unknown outcome is thrown once the provider has the transaction.
TradeFails(h) ==
    /\ operation[h].op = "tick"
    /\ \/ /\ operation[h].at \in {"preflight", "executing", "receipt"}
          /\ UNCHANGED walletOperations
       \/ /\ operation[h].at = "sign" \/ operation[h].at = "send"
          /\ HasWallet(h) /\ (~Current(h) \/ expired)
          /\ Leave
       \/ operation[h].at \in {"signing", "sending"} /\ Leave
    /\ Release(operation[h].item)
    /\ End(h)
    /\ UNCHANGED <<recoveries, stopConfirmed, world>>

Receipt(h) ==
    /\ At(h, "tick", "receipt")
    /\ LET p == operation[h].item
           seen == operation[h].seen
           after == [seen EXCEPT !.count = @ + 1, !.consumed = @ + InputAmount[p]]
           state == IF mined[p] = "success" /\ AtLimit(after) THEN "EXHAUSTED" ELSE "ACTIVE"
       IN IF mined[p] = "none" THEN UNCHANGED <<session, trades>>
          ELSE /\ trades' = [trades EXCEPT ![p] = Row(Outcome(mined[p]), TRUE)]
               /\ session' = WithState(session, seen.generation, state)
    /\ End(h)
    /\ UNCHANGED <<recoveries, stopConfirmed, walletOperations, world>>

----------------------------------------------------------------------------
(* approve, stop and recover.                                              *)

Approvable == session.state \in {"AUTHORIZED", "ACTIVE"}

BeginApprove(h) ==
    /\ Approvable
    /\ BeginWith(h, "approve", "checking", {})
    /\ UNCHANGED <<stores, walletOperations, world>>

\* The wallet's allowance is smaller than the budget that is left.
QueueApprove(h) ==
    /\ At(h, "approve", "checking")
    /\ Go(h, "approve") /\ Queue(h)
    /\ UNCHANGED <<stores, world>>

\* The session and the adapter still allow it: the approval is sent.
Approve(h) ==
    /\ At(h, "approve", "approve") /\ HasWallet(h)
    /\ Approvable /\ session.generation = operation[h].seen.generation
    /\ ~expired /\ ~revoked
    /\ Go(h, "approving")
    /\ UNCHANGED <<stores, walletOperations, world>>

EndApprove(h) ==
    /\ operation[h].at \in {"approve", "approving"} /\ HasWallet(h)
    /\ End(h) /\ Leave
    /\ UNCHANGED <<stores, world>>

\* Fault: the signer is revoked without waiting for the operation that has the wallet.
FaultyRevoke(h) ==
    /\ At(h, "stop", "revoke")
    /\ \/ revoked' = TRUE /\ stopConfirmed' = TRUE /\ UNCHANGED session
       \/ /\ session' = [session EXCEPT !.state = "REVOKE_PENDING"]
          /\ revoked' \in {revoked, TRUE}
          /\ UNCHANGED stopConfirmed
    /\ End(h)
    /\ walletOperations' = SelectSeq(walletOperations, LAMBDA w : w # h)
    /\ UNCHANGED <<trades, recoveries, expired, requested, mined>>

\* stop: the session is stopped at once, unless it is already.
BeginStop(h) ==
    /\ session.state \notin {"NONE", "STOPPED"}
    /\ session.generation < GenerationBound
    /\ Begin(h, "stop", "stopping")
    /\ session' = Stopped(session)
    /\ UNCHANGED <<trades, recoveries, stopConfirmed, walletOperations, world>>

QueueRevoke(h) ==
    /\ At(h, "stop", "stopping")
    /\ Go(h, "revoke") /\ Queue(h)
    /\ UNCHANGED <<stores, world>>

\* The adapter of the wallet cannot be had, or the allowance is large enough: the
\* request ends before it is in the queue, a stop without having revoked the signer.
NotQueued(h) ==
    /\ operation[h].at \in {"checking", "stopping"}
    /\ End(h)
    /\ UNCHANGED <<stores, walletOperations, world>>

\* The signer is detached, or the call fails, perhaps after it was carried out.
Revoke(h) ==
    /\ At(h, "stop", "revoke") /\ HasWallet(h)
    /\ \/ revoked' = TRUE /\ stopConfirmed' = TRUE /\ UNCHANGED session
       \/ /\ session' = [session EXCEPT !.state = "REVOKE_PENDING"]
          /\ revoked' \in {revoked, TRUE}
          /\ UNCHANGED stopConfirmed
    /\ End(h) /\ Leave
    /\ UNCHANGED <<trades, recoveries, expired, requested, mined>>

RecoveryInFlight ==
    \E r \in Recoveries : recoveries[r].hash /\ recoveries[r].status \in {"SUBMITTED", "UNKNOWN"}

\* Fault: a pending trade does not stop a recovery.
FaultyRecoverable ==
    /\ session.state \notin {"AUTHORIZED", "ACTIVE", "REVOKE_PENDING", "RECONCILIATION_REQUIRED"}
    /\ ~RecoveryInFlight

Recoverable ==
    /\ session.state \notin {"AUTHORIZED", "ACTIVE", "REVOKE_PENDING", "RECONCILIATION_REQUIRED"}
    /\ ~RecoveryInFlight
    /\ Pending = {}

CheckRecover(h) ==
    /\ At(h, "recover", "reconciled")
    /\ IF Recoverable
       THEN operation' = [operation EXCEPT ![h].at = "recoverable", ![h].seen = session]
       ELSE End(h)
    /\ UNCHANGED <<stores, walletOperations, world>>

\* Fault: a recovery that was claimed before is claimed again.
FaultyClaimRecovery(h, r) ==
    /\ At(h, "recover", "recoverable") /\ recoveries[r].status \in {"NONE", "UNKNOWN"}
    /\ recoveries' = [recoveries EXCEPT ![r] = Row("UNKNOWN", FALSE)]
    /\ operation' = [operation EXCEPT ![h].at = "transfer", ![h].item = r]
    /\ UNCHANGED <<session, trades, stopConfirmed, walletOperations, world>>

\* The wallet and the owner's signature were checked: reserveDelegatedRecovery and
\* claimDelegatedRecovery.
ClaimRecovery(h, r) ==
    /\ At(h, "recover", "recoverable") /\ recoveries[r].status = "NONE"
    /\ recoveries' = [recoveries EXCEPT ![r] = Row("UNKNOWN", FALSE)]
    /\ operation' = [operation EXCEPT ![h].at = "transfer", ![h].item = r]
    /\ UNCHANGED <<session, trades, stopConfirmed, walletOperations, world>>

Transfer(h) ==
    /\ At(h, "recover", "transfer")
    /\ requested' = requested \cup {operation[h].item}
    /\ Go(h, "transferred")
    /\ UNCHANGED <<stores, walletOperations, expired, revoked, mined>>

\* The hash was answered, and the receipt, if there is one.
Transferred(h) ==
    /\ At(h, "recover", "transferred")
    /\ LET r == operation[h].item
           status == IF mined[r] = "none" THEN "SUBMITTED" ELSE Outcome(mined[r])
       IN recoveries' = [recoveries EXCEPT ![r] = Row(status, TRUE)]
    /\ End(h)
    /\ UNCHANGED <<session, trades, stopConfirmed, walletOperations, world>>

\* The recovery is refused, or fails: once claimed it stays UNKNOWN, without its hash.
RecoverFails(h) ==
    /\ operation[h].op = "recover"
    /\ operation[h].at \in {"recoverable", "transfer", "transferred"}
    /\ End(h)
    /\ UNCHANGED <<stores, walletOperations, world>>

----------------------------------------------------------------------------
(* The world.                                                              *)

Expire ==
    /\ ~expired /\ expired' = TRUE
    /\ UNCHANGED <<stores, operation, walletOperations, revoked, requested, mined>>

Mine(i) ==
    /\ i \in requested /\ mined[i] = "none"
    /\ \E receipt \in {"success", "revert"} : mined' = [mined EXCEPT ![i] = receipt]
    /\ UNCHANGED <<stores, operation, walletOperations, expired, revoked, requested>>

Crash ==
    /\ \E h \in Handlers : operation[h] # Ended
    /\ operation' = [h \in Handlers |-> Ended]
    /\ walletOperations' = <<>>
    /\ UNCHANGED <<stores, world>>

\* Steps of an operation that was begun.
Step(h) ==
    \/ Restore(h)
    \/ ReconcileNoTrade(h) \/ ReconcileTrade(h) \/ ReconcileRecovery(h) \/ ReconcileFails(h)
    \/ CheckTick(h) \/ WalletDisabled(h) \/ WalletChanged(h) \/ WalletReady(h)
    \/ NoTrade(h) \/ \E p \in Proposals : Reserve(h, p)
    \/ Preflighted(h) \/ Sign(h) \/ Signed(h) \/ Executed(h) \/ Send(h)
    \/ Request(h) \/ Answered(h) \/ Unknown(h) \/ TradeFails(h) \/ Receipt(h)
    \/ QueueApprove(h) \/ Approve(h) \/ EndApprove(h)
    \/ QueueRevoke(h) \/ Revoke(h) \/ NotQueued(h)
    \/ CheckRecover(h) \/ \E r \in Recoveries : ClaimRecovery(h, r)
    \/ Transfer(h) \/ Transferred(h) \/ RecoverFails(h)

Next ==
    \/ Authorize
    \/ \E h \in Handlers :
          \/ BeginRestore(h) \/ Refresh(h) \/ Start(h) \/ WorkerTick(h)
          \/ BeginApprove(h) \/ BeginStop(h) \/ BeginRecover(h)
          \/ Step(h)
    \/ Expire
    \/ \E i \in Items : Mine(i)
    \/ Crash

Spec == Init /\ [][Next]_vars

----------------------------------------------------------------------------
(* Properties.                                                             *)

States == {"NONE", "AUTHORIZED", "ACTIVE", "STOPPED", "REVOKE_PENDING", "EXPIRED",
           "EXHAUSTED", "RECONCILIATION_REQUIRED"}
SessionType == [state : States, generation : 0 .. GenerationBound, consumed : Nat, count : Nat]
TradeType == [status : {"NONE", "RELEASED", "CONFIRMED", "REVERTED"} \cup InFlight,
              hash : BOOLEAN]
RecoveryType == [status : {"NONE", "UNKNOWN", "SUBMITTED", "CONFIRMED", "REVERTED"},
                 hash : BOOLEAN]
Places == {"ended", "restore", "trades", "recoveries", "reconciled", "status", "proposal",
           "preflight", "sign", "signing", "executing", "send", "sending", "sent", "receipt",
           "checking", "approve", "approving", "stopping", "revoke", "recoverable", "transfer",
           "transferred"}
OperationType ==
    [op : {"none", "authorize", "refresh", "tick", "recover", "approve", "stop"},
     at : Places, seen : SessionType, todo : SUBSET Items, item : Items \cup {None}]

\* Every variable has the values its table, queue or promise can hold.
TypeOK ==
    /\ session \in SessionType
    /\ trades \in [Proposals -> TradeType]
    /\ recoveries \in [Recoveries -> RecoveryType]
    /\ operation \in [Handlers -> OperationType]
    /\ walletOperations \in Seq(Handlers)
    /\ {stopConfirmed, expired, revoked} \subseteq BOOLEAN
    /\ requested \subseteq Items
    /\ mined \in [Items -> {"none", "success", "revert"}]

Unreleased == {p \in Proposals : trades[p].status \notin {"NONE", "RELEASED"}}

\* The input and the number the session has consumed are those of the trades that were
\* not released, whichever operations reserve, release and reconcile at once and
\* wherever the process crashed: the budget neither leaks nor is spent twice.
BudgetMatchesTrades ==
    /\ session.count = Cardinality(Unreleased)
    /\ session.consumed = MapThenSumSet(LAMBDA p : InputAmount[p], Unreleased)

\* A trade that the provider was asked to send is never written down as released:
\* the catch-all of the tick gives back only what was not sent.
SentIsAccounted ==
    \A p \in Proposals \cap requested : trades[p].status \notin {"NONE", "RELEASED"}

\* The wallet's signer is in use: a signature, a transaction or an approval is with the
\* provider, or will be without another look at the session.
UsesSigner(h) == operation[h].at \in {"signing", "sending", "sent", "approving"}

\* Once the owner has read STOP_CONFIRMED the signer of the wallet is not used for the
\* session again, not even by an operation that was under way or after the signer is
\* attached again.
StopIsFinal == stopConfirmed => \A h \in Handlers : ~UsesSigner(h)

\* Two operations never use the session's signer at once: nonces are read from the
\* pending count.  The transfer of a recovery is not counted: it is sent with the
\* owner's own authorization and outside the queue of the wallet.
OneUsesWallet ==
    \A g, h \in Handlers : UsesSigner(g) /\ UsesSigner(h) => g = h

\* The operation waits for the wallet or has it.
InQueue(h) ==
    operation[h].at \in {"restore", "sign", "signing", "send", "sending", "sent", "approve",
                         "approving", "revoke"}

\* Nobody waits for an operation that is gone: the queue of the wallet holds, once each,
\* exactly the operations that have the wallet or wait for it, so that its head always
\* has a step of its own left, at whose end the wallet passes to the next.
QueueIsLive ==
    /\ \A i, j \in DOMAIN walletOperations :
          walletOperations[i] = walletOperations[j] => i = j
    /\ \A h \in Handlers :
          InQueue(h) <=> \E i \in DOMAIN walletOperations : walletOperations[i] = h

\* After a stop the funds are not transferred to the owner while a trade is being sent.
NoTradeDuringRecovery ==
    \A g, h \in Handlers :
        ~(/\ operation[g].at \in {"transfer", "transferred"}
          /\ operation[g].seen.generation > 0
          /\ operation[h].at \in {"sending", "sent"})

\* An authorization of the owner is transferred once, whatever its retries.
RecoveredOnce ==
    \A g, h \in Handlers :
        /\ operation[h].at \in {"transfer", "transferred"} /\ operation[g].at = "transfer"
        /\ operation[g].item = operation[h].item
        => g = h /\ operation[g].item \notin requested

\* docs/privy-integration.md:73 says of a recovery: "It is blocked while a submitted or
\* ambiguous transaction still needs reconciliation."
AmbiguousRecoveryBlocks ==
    [][\A r, s \in Recoveries :
          (r \in requested /\ recoveries[r].status = "UNKNOWN")
             => ~(recoveries[s].status = "NONE" /\ recoveries'[s].status = "UNKNOWN")]_vars

Ledger == INSTANCE SessionBudget WITH
    held     <- Unreleased \ requested,
    sent     <- Proposals \cap requested,
    returned <- {p \in Proposals : trades[p].status = "RELEASED"}

\* The session keeps the promise of its limits.
KeepsBudget == Ledger!Spec
=============================================================================
