----------------------- MODULE DelegatedSessionProofs -----------------------
(***************************************************************************)
(* Theorems about DelegatedSession, for every number of operations,        *)
(* proposals and recoveries, every plan and any number of crashes.         *)
(*                                                                         *)
(* The argument: only the head of the queue uses the signer.  A stop       *)
(* raises the generation, and a tick that passed its check read generation *)
(* 0, because a session of a later generation is never active before its   *)
(* plan expires.  So once the generation is 1, which it is before the      *)
(* signer is revoked, no operation starts to use the signer; and since the *)
(* revocation waits for the wallet, none still uses it.  A trade belongs   *)
(* to the tick that reserved it until it has a hash.  So no step does more *)
(* to the ledger than reserve, send or release one trade, which is what    *)
(* SessionBudget allows.                                                   *)
(***************************************************************************)
EXTENDS DelegatedSession, FiniteSetTheorems, TLAPS

Closing == {"STOPPED", "REVOKE_PENDING"}
Untouched == {"NONE", "SIGNING", "RELEASED"}
Owned   == {"preflight", "sign", "signing", "executing", "send", "sending", "sent"}
Checked == Owned \cup {"status", "proposal", "receipt"}

\* Only the head of the queue uses the signer.
HoldersInv == \A h \in Handlers : UsesSigner(h) => HasWallet(h)

\* Generations: of the session, and of the snapshots operations work with.
GenerationInv ==
    /\ session.generation > 0 => session.state \in Closing \/ expired
    /\ stopConfirmed => session.generation > 0
    /\ \A h \in Handlers :
          /\ operation[h].seen.generation <= session.generation
          /\ operation[h].seen.generation > 0 => operation[h].seen.state \in Closing \/ expired
          /\ operation[h].at \in Checked => operation[h].seen.generation = 0
          /\ operation[h].at \in {"stopping", "revoke"} => session.generation > 0

\* What reconciliation has to do.
TodoInv ==
    /\ \A h \in Handlers :
          /\ operation[h].at = "trades" => operation[h].todo \subseteq Proposals
          /\ operation[h].at = "recoveries" => operation[h].todo \subseteq Recoveries
          /\ \A p \in operation[h].todo \cap Proposals : trades[p].status \notin Untouched
    /\ \A p \in Proposals : trades[p].hash => trades[p].status \notin Untouched

\* A tick's trade.
TradeInv ==
    /\ \A h \in Handlers :
          /\ operation[h].at \in Owned =>
                /\ operation[h].item \in Proposals
                /\ trades[operation[h].item].status = "SIGNING"
                /\ ~trades[operation[h].item].hash
                /\ operation[h].at # "sent" => operation[h].item \notin requested
          /\ operation[h].at = "receipt" =>
                /\ operation[h].item \in Proposals
                /\ trades[operation[h].item].status \notin Untouched
    /\ \A g, h \in Handlers :
          operation[g].at \in Owned /\ operation[h].at \in Owned
             /\ operation[g].item = operation[h].item => g = h
    /\ SentIsAccounted

\* A recovery that was claimed.
RecoveryInv ==
    /\ \A h \in Handlers :
          /\ operation[h].at \in {"transfer", "transferred"} =>
                /\ operation[h].item \in Recoveries
                /\ recoveries[operation[h].item].status # "NONE"
                /\ operation[h].at = "transfer" => operation[h].item \notin requested
          /\ operation[h].at \in {"recoverable", "transfer", "transferred"}
                /\ operation[h].seen.generation > 0
             => \A g \in Handlers : operation[g].at \notin {"sending", "sent"}
    /\ \A g, h \in Handlers :
          operation[g].at \in {"transfer", "transferred"}
             /\ operation[h].at \in {"transfer", "transferred"}
             /\ operation[g].item = operation[h].item => g = h
    /\ \A r \in Recoveries \cap requested : recoveries[r].status # "NONE"

Inv ==
    /\ TypeOK /\ HoldersInv /\ GenerationInv /\ TodoInv /\ TradeInv /\ RecoveryInv
    /\ StopIsFinal

----------------------------------------------------------------------------
(* Reconciliation, whichever of its steps.                                 *)

Reconciles(h) ==
    ReconcileNoTrade(h) \/ ReconcileTrade(h) \/ ReconcileRecovery(h) \/ ReconcileFails(h)

\* The operation after a step of reconciliation.
Continues(h, o) ==
    /\ o.at \in {"trades", "recoveries", "reconciled", "ended"}
    /\ o.seen \in {operation[h].seen, NoSession}
    /\ o.at = "trades" => operation[h].at = "trades" /\ o.todo \subseteq operation[h].todo
    /\ o.at = "recoveries" => o.todo \subseteq Recoveries
    /\ o.at \notin {"trades", "recoveries"} => o.todo = {}

\* The state reconciliation may write.
Writes(h, s) ==
    /\ s \in SessionType
    /\ s = [session EXCEPT !.state = s.state]
    /\ s # session =>
          /\ operation[h].seen.generation = session.generation
          /\ s.state = operation[h].seen.state
                \/ operation[h].seen.state \notin Closing \/ expired

LEMMA EndedType == NoSession \in SessionType /\ Ended \in OperationType
<1>1. NoSession \in SessionType
  BY SessionAssumption DEF NoSession, SessionType, States
<1> QED
  BY <1>1 DEF Ended, OperationType, Places

LEMMA ProceedOperation ==
    ASSUME TypeOK, TodoInv, NEW h \in Handlers, operation[h].at \in {"trades", "recoveries"},
           NEW rest \in SUBSET operation[h].todo, NEW s, Proceed(h, rest, s)
    PROVE  \E o \in OperationType :
              operation' = [operation EXCEPT ![h] = o] /\ Continues(h, o)
<1> DEFINE o1 == [operation[h] EXCEPT !.todo = rest]
           o2 == [operation[h] EXCEPT !.at = "recoveries", !.todo = RecoveriesToReconcile]
           o3 == [Ended EXCEPT !.op = operation[h].op, !.at = "reconciled"]
<1>1. operation[h] \in OperationType
  BY DEF TypeOK
<1>2. o1 \in OperationType /\ o2 \in OperationType
  BY <1>1 DEF OperationType, Places, Items, RecoveriesToReconcile
<1>a. Ended \in OperationType
  BY EndedType
<1>b. o3 \in OperationType
  BY <1>1, <1>a DEF OperationType, Places
<1>3. Continues(h, o1) /\ Continues(h, o2) /\ Continues(h, o3) /\ Continues(h, Ended)
  BY <1>1 DEF OperationType, Ended, Continues, TodoInv, RecoveriesToReconcile
<1>4. \/ operation' = [operation EXCEPT ![h] = o1]
      \/ operation' = [operation EXCEPT ![h] = o2]
      \/ operation' = [operation EXCEPT ![h] = o3]
      \/ operation' = [operation EXCEPT ![h] = Ended]
  BY <1>1 DEF Proceed, End, TypeOK, OperationType, Ended
<1> HIDE DEF o1, o2, o3
<1> QED
  BY <1>2, <1>a, <1>b, <1>3, <1>4

LEMMA ProceedSession ==
    ASSUME TypeOK, NEW h \in Handlers, operation[h].at \in {"trades", "recoveries"},
           NEW rest, NEW s, Writes(h, s), Proceed(h, rest, s)
    PROVE  Writes(h, session')
<1>1. operation[h].seen \in SessionType /\ session \in SessionType
  BY DEF TypeOK, OperationType
<1>2. CASE session' = s
  BY <1>2
<1>3. CASE /\ session' = WithState(s, operation[h].seen.generation, "EXPIRED")
           /\ expired
  BY <1>1, <1>3 DEF Writes, WithState, SessionType, States
<1> QED
  BY <1>2, <1>3 DEF Proceed

LEMMA ReconcileOperation ==
    ASSUME TypeOK, TodoInv, NEW h \in Handlers, Reconciles(h)
    PROVE  /\ operation[h].at \in {"trades", "recoveries"}
           /\ \E o \in OperationType :
                 operation' = [operation EXCEPT ![h] = o] /\ Continues(h, o)
<1>1. operation[h].at \in {"trades", "recoveries"}
  BY DEF Reconciles, ReconcileNoTrade, ReconcileTrade, ReconcileRecovery, ReconcileFails
<1>2. CASE ReconcileFails(h)
  BY <1>1, <1>2, EndedType DEF ReconcileFails, End, Continues, Ended
<1>3. CASE ReconcileNoTrade(h)
  <2>1. {} \in SUBSET operation[h].todo /\ Proceed(h, {}, session)
    BY <1>3 DEF ReconcileNoTrade
  <2> QED
    BY <1>1, <2>1, ProceedOperation
<1>4. CASE ReconcileTrade(h) \/ ReconcileRecovery(h)
  <2>1. PICK rest \in SUBSET operation[h].todo : \E s : Proceed(h, rest, s)
    BY <1>4 DEF ReconcileTrade, ReconcileRecovery
  <2>2. PICK s : Proceed(h, rest, s)
    BY <2>1
  <2> QED
    BY <1>1, <2>2, ProceedOperation
<1> QED
  BY <1>1, <1>2, <1>3, <1>4 DEF Reconciles

LEMMA ReconcileSession ==
    ASSUME TypeOK, NEW h \in Handlers, Reconciles(h)
    PROVE  Writes(h, session')
<1>1. operation[h].seen \in SessionType /\ session \in SessionType
  BY DEF TypeOK, OperationType
<1>2. operation[h].at \in {"trades", "recoveries"}
  BY DEF Reconciles, ReconcileNoTrade, ReconcileTrade, ReconcileRecovery, ReconcileFails
<1>3. Writes(h, session)
  BY <1>1 DEF Writes, SessionType
<1>4. ASSUME NEW receipt
      PROVE  Writes(h, WithState(session, operation[h].seen.generation,
                                 StateAfter(receipt, operation[h].seen)))
  BY <1>1 DEF Writes, WithState, StateAfter, Closing, SessionType, States
<1>5. CASE ReconcileFails(h)
  BY <1>3, <1>5 DEF ReconcileFails, stores
<1>6. CASE ~ReconcileFails(h)
  <2>1. \E rest, s : Writes(h, s) /\ Proceed(h, rest, s)
    BY <1>3, <1>4, <1>6
    DEF Reconciles, ReconcileNoTrade, ReconcileTrade, ReconcileRecovery
  <2> QED
    BY <1>2, <2>1, ProceedSession
<1> QED
  BY <1>5, <1>6

LEMMA ReconcileRows ==
    ASSUME TypeOK, TodoInv, NEW h \in Handlers, Reconciles(h)
    PROVE  /\ trades' \in [Proposals -> TradeType]
           /\ \A p \in Proposals :
                 \/ trades'[p] = trades[p]
                 \/ /\ trades[p].status \notin Untouched
                    /\ trades'[p].status \notin Untouched
           /\ recoveries' \in [Recoveries -> RecoveryType]
           /\ \A r \in Recoveries :
                 recoveries'[r] = recoveries[r] \/ recoveries'[r].status # "NONE"
           /\ UNCHANGED <<stopConfirmed, walletOperations, world>>
<1>1. CASE ReconcileNoTrade(h) \/ ReconcileFails(h)
  BY <1>1 DEF ReconcileNoTrade, ReconcileFails, TypeOK, stores
<1>2. CASE ReconcileTrade(h)
  <2>1. PICK p \in operation[h].todo :
           \/ UNCHANGED trades
           \/ trades' = [trades EXCEPT ![p] = Row(Outcome(mined[p]), TRUE)]
    BY <1>2 DEF ReconcileTrade
  <2>2. p \in Proposals /\ trades[p].status \notin Untouched
    BY <1>2 DEF ReconcileTrade, TodoInv
  <2>3. \A receipt : /\ Row(Outcome(receipt), TRUE) \in TradeType
                     /\ Row(Outcome(receipt), TRUE).status \notin Untouched
    BY DEF Row, Outcome, TradeType, Untouched
  <2>4. UNCHANGED <<recoveries, stopConfirmed, walletOperations, world>>
    BY <1>2 DEF ReconcileTrade
  <2>5. trades \in [Proposals -> TradeType] /\ recoveries \in [Recoveries -> RecoveryType]
    BY DEF TypeOK
  <2> QED
    BY <2>1, <2>2, <2>3, <2>4, <2>5
<1>3. CASE ReconcileRecovery(h)
  <2>1. PICK r \in operation[h].todo :
           \/ UNCHANGED recoveries
           \/ recoveries' = [recoveries EXCEPT ![r] = Row(Outcome(mined[r]), TRUE)]
    BY <1>3 DEF ReconcileRecovery
  <2>2. \A receipt : /\ Row(Outcome(receipt), TRUE) \in RecoveryType
                     /\ Row(Outcome(receipt), TRUE).status # "NONE"
    BY DEF Row, Outcome, RecoveryType
  <2>3. UNCHANGED <<trades, stopConfirmed, walletOperations, world>>
    BY <1>3 DEF ReconcileRecovery
  <2> QED
    BY <2>1, <2>2, <2>3 DEF TypeOK
<1> QED
  BY <1>1, <1>2, <1>3 DEF Reconciles

----------------------------------------------------------------------------
(* The invariant is preserved, part by part.                               *)

\* An operation starts to use the signer as the head of the queue, and leaves as its user.
LEMMA HoldersStep ==
    ASSUME Inv, [Next]_vars
    PROVE  HoldersInv'
<1> USE DEF Inv, HoldersInv, UsesSigner, HasWallet, TypeOK, OperationType, Ended, At, Go, End,
        Queue, Leave, stores
<1>1. CASE Authorize \/ Expire \/ (\E i \in Items : Mine(i)) \/ UNCHANGED vars
  BY <1>1 DEF Authorize, Authorized, Expire, Mine, vars, stores, world
<1>2. CASE Crash
  BY <1>2 DEF Crash
<1>3. ASSUME NEW h \in Handlers, Reconciles(h)
      PROVE  HoldersInv'
  BY <1>3, ReconcileOperation, ReconcileSession, ReconcileRows DEF Continues, Writes
<1>4. ASSUME NEW h \in Handlers, NEW p \in Proposals, Reserve(h, p)
      PROVE  HoldersInv'
  <2>1. CASE session.generation = operation[h].seen.generation
    BY <1>4, <2>1 DEF Reserve
  <2>2. CASE session.generation # operation[h].seen.generation
    BY <1>4, <2>2 DEF Reserve
  <2> QED
    BY <2>1, <2>2
<1>5. ASSUME NEW h \in Handlers, NEW r \in Recoveries, ClaimRecovery(h, r)
      PROVE  HoldersInv'
  BY <1>5 DEF ClaimRecovery, Row
<1>6. ASSUME NEW h \in Handlers, BeginRestore(h)
      PROVE  HoldersInv'
  BY <1>6 DEF BeginRestore, Begin
<1>7. ASSUME NEW h \in Handlers, Refresh(h)
      PROVE  HoldersInv'
  BY <1>7 DEF Refresh, BeginReconcile, BeginWith
<1>8. ASSUME NEW h \in Handlers, Start(h)
      PROVE  HoldersInv'
  BY <1>8 DEF Start, BeginReconcile, BeginWith
<1>9. ASSUME NEW h \in Handlers, WorkerTick(h)
      PROVE  HoldersInv'
  BY <1>9 DEF WorkerTick, BeginReconcile, BeginWith
<1>10. ASSUME NEW h \in Handlers, BeginApprove(h)
      PROVE  HoldersInv'
  BY <1>10 DEF BeginApprove, BeginWith
<1>11. ASSUME NEW h \in Handlers, BeginStop(h)
      PROVE  HoldersInv'
  BY <1>11 DEF BeginStop, Begin
<1>12. ASSUME NEW h \in Handlers, BeginRecover(h)
      PROVE  HoldersInv'
  BY <1>12 DEF BeginRecover, BeginReconcile, BeginWith
<1>13. ASSUME NEW h \in Handlers, Restore(h)
      PROVE  HoldersInv'
  BY <1>13 DEF Restore
<1>14. ASSUME NEW h \in Handlers, CheckTick(h)
      PROVE  HoldersInv'
  BY <1>14 DEF CheckTick
<1>15. ASSUME NEW h \in Handlers, WalletDisabled(h)
      PROVE  HoldersInv'
  BY <1>15 DEF WalletDisabled
<1>16. ASSUME NEW h \in Handlers, WalletChanged(h)
      PROVE  HoldersInv'
  BY <1>16 DEF WalletChanged
<1>17. ASSUME NEW h \in Handlers, WalletReady(h)
      PROVE  HoldersInv'
  BY <1>17 DEF WalletReady
<1>18. ASSUME NEW h \in Handlers, NoTrade(h)
      PROVE  HoldersInv'
  BY <1>18 DEF NoTrade
<1>19. ASSUME NEW h \in Handlers, Preflighted(h)
      PROVE  HoldersInv'
  BY <1>19 DEF Preflighted
<1>20. ASSUME NEW h \in Handlers, Sign(h)
      PROVE  HoldersInv'
  BY <1>20 DEF Sign
<1>21. ASSUME NEW h \in Handlers, Signed(h)
      PROVE  HoldersInv'
  BY <1>21 DEF Signed
<1>22. ASSUME NEW h \in Handlers, Executed(h)
      PROVE  HoldersInv'
  BY <1>22 DEF Executed
<1>23. ASSUME NEW h \in Handlers, Send(h)
      PROVE  HoldersInv'
  BY <1>23 DEF Send
<1>24. ASSUME NEW h \in Handlers, Request(h)
      PROVE  HoldersInv'
  BY <1>24 DEF Request
<1>25. ASSUME NEW h \in Handlers, Answered(h)
      PROVE  HoldersInv'
  BY <1>25 DEF Answered
<1>26. ASSUME NEW h \in Handlers, Unknown(h)
      PROVE  HoldersInv'
  BY <1>26 DEF Unknown
<1>27. ASSUME NEW h \in Handlers, TradeFails(h)
      PROVE  HoldersInv'
  BY <1>27 DEF TradeFails
<1>28. ASSUME NEW h \in Handlers, Receipt(h)
      PROVE  HoldersInv'
  BY <1>28 DEF Receipt
<1>29. ASSUME NEW h \in Handlers, QueueApprove(h)
      PROVE  HoldersInv'
  BY <1>29 DEF QueueApprove
<1>30. ASSUME NEW h \in Handlers, Approve(h)
      PROVE  HoldersInv'
  BY <1>30 DEF Approve
<1>31. ASSUME NEW h \in Handlers, EndApprove(h)
      PROVE  HoldersInv'
  BY <1>31 DEF EndApprove
<1>32. ASSUME NEW h \in Handlers, QueueRevoke(h)
      PROVE  HoldersInv'
  BY <1>32 DEF QueueRevoke
<1>33. ASSUME NEW h \in Handlers, Revoke(h)
      PROVE  HoldersInv'
  BY <1>33 DEF Revoke
<1>34. ASSUME NEW h \in Handlers, NotQueued(h)
      PROVE  HoldersInv'
  BY <1>34 DEF NotQueued
<1>35. ASSUME NEW h \in Handlers, CheckRecover(h)
      PROVE  HoldersInv'
  BY <1>35 DEF CheckRecover
<1>36. ASSUME NEW h \in Handlers, Transfer(h)
      PROVE  HoldersInv'
  BY <1>36 DEF Transfer
<1>37. ASSUME NEW h \in Handlers, Transferred(h)
      PROVE  HoldersInv'
  BY <1>37 DEF Transferred
<1>38. ASSUME NEW h \in Handlers, RecoverFails(h)
      PROVE  HoldersInv'
  BY <1>38 DEF RecoverFails
<1> QED
  BY <1>1, <1>2, <1>3, <1>4, <1>5, <1>6, <1>7, <1>8, <1>9, <1>10, <1>11, <1>12, <1>13,
     <1>14, <1>15, <1>16, <1>17, <1>18, <1>19, <1>20, <1>21, <1>22, <1>23, <1>24, <1>25,
     <1>26, <1>27, <1>28, <1>29, <1>30, <1>31, <1>32, <1>33, <1>34, <1>35, <1>36, <1>37,
     <1>38 DEF Next, Step, Reconciles

\* A generation after the first is active only when the plan has expired.
LEMMA GenerationStep ==
    ASSUME Inv, [Next]_vars
    PROVE  GenerationInv'
<1> USE DEF Inv, GenerationInv, Checked, Owned, Closing, TypeOK, SessionType, OperationType, Ended,
        NoSession, At, Go, End, stores, world
<1>1. CASE Authorize \/ Expire \/ (\E i \in Items : Mine(i)) \/ UNCHANGED vars
  <2>1. CASE Authorize
    BY <2>1, SessionAssumption DEF Authorize, Authorized
  <2>2. CASE Expire \/ (\E i \in Items : Mine(i)) \/ UNCHANGED vars
    BY <2>2, SessionAssumption DEF Expire, Mine, vars
  <2> QED
    BY <1>1, <2>1, <2>2
<1>2. CASE Crash
  BY <1>2, SessionAssumption DEF Crash
<1>3. ASSUME NEW h \in Handlers, Reconciles(h)
      PROVE  GenerationInv'
  <2>1. Writes(h, session')
    BY <1>3, ReconcileSession
  <2>2. PICK o \in OperationType : operation' = [operation EXCEPT ![h] = o] /\ Continues(h, o)
    BY <1>3, ReconcileOperation
  <2>3. expired' = expired /\ stopConfirmed' = stopConfirmed
    BY <1>3, ReconcileRows
  <2>4. session'.generation = session.generation
    BY <2>1 DEF Writes
  <2>5. session'.generation > 0 => session'.state \in Closing \/ expired
    BY <2>1, <2>4 DEF Writes
  <2>6. o.at \notin Checked \cup {"stopping", "revoke"} /\ o.seen \in {operation[h].seen, NoSession}
    BY <2>2 DEF Continues
  <2> QED
    BY <2>2, <2>3, <2>4, <2>5, <2>6, SessionAssumption
<1>4. ASSUME NEW h \in Handlers, NEW p \in Proposals, Reserve(h, p)
      PROVE  GenerationInv'
  <2>1. /\ session'.generation = session.generation /\ session'.state = session.state
        /\ expired' = expired /\ stopConfirmed' = stopConfirmed
    BY <1>4 DEF Reserve
  <2>2. \/ operation' = [operation EXCEPT ![h].at = "preflight", ![h].item = p]
        \/ operation' = [operation EXCEPT ![h] = Ended]
    BY <1>4 DEF Reserve
  <2>3. operation[h].seen.generation = 0
    BY <1>4 DEF Reserve
  <2>4. CASE operation' = [operation EXCEPT ![h].at = "preflight", ![h].item = p]
    BY <2>1, <2>3, <2>4
  <2>5. CASE operation' = [operation EXCEPT ![h] = Ended]
    BY <2>1, <2>5, SessionAssumption
  <2> QED
    BY <2>2, <2>4, <2>5
<1>5. ASSUME NEW h \in Handlers, NEW r \in Recoveries, ClaimRecovery(h, r)
      PROVE  GenerationInv'
  BY <1>5, SessionAssumption DEF ClaimRecovery, Row
<1>6. ASSUME NEW h \in Handlers, BeginRestore(h)
      PROVE  GenerationInv'
  BY <1>6, SessionAssumption DEF BeginRestore, Begin
<1>7. ASSUME NEW h \in Handlers, Refresh(h)
      PROVE  GenerationInv'
  BY <1>7, SessionAssumption DEF Refresh, BeginReconcile, BeginWith
<1>8. ASSUME NEW h \in Handlers, Start(h)
      PROVE  GenerationInv'
  BY <1>8, SessionAssumption DEF Start, BeginReconcile, BeginWith
<1>9. ASSUME NEW h \in Handlers, WorkerTick(h)
      PROVE  GenerationInv'
  BY <1>9, SessionAssumption DEF WorkerTick, BeginReconcile, BeginWith
<1>10. ASSUME NEW h \in Handlers, BeginApprove(h)
      PROVE  GenerationInv'
  BY <1>10, SessionAssumption DEF BeginApprove, BeginWith
<1>11. ASSUME NEW h \in Handlers, BeginStop(h)
      PROVE  GenerationInv'
  BY <1>11, SessionAssumption DEF BeginStop, Begin, Stopped
<1>12. ASSUME NEW h \in Handlers, BeginRecover(h)
      PROVE  GenerationInv'
  BY <1>12, SessionAssumption DEF BeginRecover, BeginReconcile, BeginWith
<1>13. ASSUME NEW h \in Handlers, Restore(h)
      PROVE  GenerationInv'
  <2>1. /\ session'.generation = session.generation
        /\ session'.state = session.state \/ session.state = "NONE"
    BY <1>13 DEF Restore, Authorized
  <2>2. /\ operation' = [operation EXCEPT ![h] = Ended]
        /\ expired' = expired /\ stopConfirmed' = stopConfirmed
    BY <1>13 DEF Restore
  <2> QED
    BY <2>1, <2>2, SessionAssumption
<1>14. ASSUME NEW h \in Handlers, CheckTick(h)
      PROVE  GenerationInv'
  <2>1. CASE TickRefused # "none"
    <3>1. /\ session' = [session EXCEPT !.state = TickRefused]
          /\ operation' = [operation EXCEPT ![h] = Ended]
          /\ expired' = expired /\ stopConfirmed' = stopConfirmed
      BY <1>14, <2>1 DEF CheckTick
    <3>2. TickRefused = session.state \/ expired
             \/ session.state \in {"AUTHORIZED", "ACTIVE"}
      BY DEF TickRefused, Activated
    <3> QED
      BY <3>1, <3>2, SessionAssumption
  <2>2. CASE TickRefused = "none"
    <3>1. /\ session' = Activated /\ expired' = expired /\ stopConfirmed' = stopConfirmed
          /\ operation' = [operation EXCEPT ![h].at = "status", ![h].seen = Activated]
      BY <1>14, <2>2 DEF CheckTick
    <3>2. ~expired /\ session.state \in {"AUTHORIZED", "ACTIVE"}
      BY <2>2 DEF TickRefused, Activated, States
    <3>3. Activated.generation = 0 /\ session.generation = 0
      BY <3>2, SessionAssumption DEF Activated
    <3> QED
      BY <3>1, <3>3
  <2> QED
    BY <2>1, <2>2
<1>15. ASSUME NEW h \in Handlers, WalletDisabled(h)
      PROVE  GenerationInv'
  BY <1>15, SessionAssumption DEF WalletDisabled, Stopped
<1>16. ASSUME NEW h \in Handlers, WalletChanged(h)
      PROVE  GenerationInv'
  BY <1>16, SessionAssumption DEF WalletChanged, WithState
<1>17. ASSUME NEW h \in Handlers, WalletReady(h)
      PROVE  GenerationInv'
  BY <1>17, SessionAssumption DEF WalletReady
<1>18. ASSUME NEW h \in Handlers, NoTrade(h)
      PROVE  GenerationInv'
  BY <1>18, SessionAssumption DEF NoTrade
<1>19. ASSUME NEW h \in Handlers, Preflighted(h)
      PROVE  GenerationInv'
  BY <1>19, SessionAssumption DEF Preflighted
<1>20. ASSUME NEW h \in Handlers, Sign(h)
      PROVE  GenerationInv'
  BY <1>20, SessionAssumption DEF Sign
<1>21. ASSUME NEW h \in Handlers, Signed(h)
      PROVE  GenerationInv'
  BY <1>21, SessionAssumption DEF Signed
<1>22. ASSUME NEW h \in Handlers, Executed(h)
      PROVE  GenerationInv'
  BY <1>22, SessionAssumption DEF Executed
<1>23. ASSUME NEW h \in Handlers, Send(h)
      PROVE  GenerationInv'
  BY <1>23, SessionAssumption DEF Send
<1>24. ASSUME NEW h \in Handlers, Request(h)
      PROVE  GenerationInv'
  BY <1>24, SessionAssumption DEF Request
<1>25. ASSUME NEW h \in Handlers, Answered(h)
      PROVE  GenerationInv'
  BY <1>25, SessionAssumption DEF Answered
<1>26. ASSUME NEW h \in Handlers, Unknown(h)
      PROVE  GenerationInv'
  BY <1>26, SessionAssumption DEF Unknown, WithState
<1>27. ASSUME NEW h \in Handlers, TradeFails(h)
      PROVE  GenerationInv'
  <2>1. session'.generation = session.generation /\ session'.state = session.state
    BY <1>27 DEF TradeFails, Release
  <2>2. /\ operation' = [operation EXCEPT ![h] = Ended]
        /\ expired' = expired /\ stopConfirmed' = stopConfirmed
    BY <1>27 DEF TradeFails
  <2> QED
    BY <2>1, <2>2, SessionAssumption
<1>28. ASSUME NEW h \in Handlers, Receipt(h)
      PROVE  GenerationInv'
  <2>1. operation[h].seen.generation = 0
    BY <1>28 DEF Receipt
  <2>2. /\ session'.generation = session.generation
        /\ session'.state = session.state \/ session.generation = 0
    BY <1>28, <2>1 DEF Receipt, WithState
  <2>3. /\ operation' = [operation EXCEPT ![h] = Ended]
        /\ expired' = expired /\ stopConfirmed' = stopConfirmed
    BY <1>28 DEF Receipt
  <2> QED
    BY <2>2, <2>3, SessionAssumption
<1>29. ASSUME NEW h \in Handlers, QueueApprove(h)
      PROVE  GenerationInv'
  BY <1>29, SessionAssumption DEF QueueApprove
<1>30. ASSUME NEW h \in Handlers, Approve(h)
      PROVE  GenerationInv'
  BY <1>30, SessionAssumption DEF Approve
<1>31. ASSUME NEW h \in Handlers, EndApprove(h)
      PROVE  GenerationInv'
  BY <1>31, SessionAssumption DEF EndApprove
<1>32. ASSUME NEW h \in Handlers, QueueRevoke(h)
      PROVE  GenerationInv'
  BY <1>32, SessionAssumption DEF QueueRevoke
<1>33. ASSUME NEW h \in Handlers, Revoke(h)
      PROVE  GenerationInv'
  <2>1. session.generation > 0
    BY <1>33 DEF Revoke
  <2>2. /\ session'.generation = session.generation
        /\ session'.state \in {session.state, "REVOKE_PENDING"}
        /\ operation' = [operation EXCEPT ![h] = Ended] /\ expired' = expired
    BY <1>33 DEF Revoke
  <2> QED
    BY <2>1, <2>2, SessionAssumption
<1>34. ASSUME NEW h \in Handlers, NotQueued(h)
      PROVE  GenerationInv'
  BY <1>34, SessionAssumption DEF NotQueued
<1>35. ASSUME NEW h \in Handlers, CheckRecover(h)
      PROVE  GenerationInv'
  <2>1. session' = session /\ expired' = expired /\ stopConfirmed' = stopConfirmed
    BY <1>35 DEF CheckRecover
  <2>2. \/ operation' = [operation EXCEPT ![h].at = "recoverable", ![h].seen = session]
        \/ operation' = [operation EXCEPT ![h] = Ended]
    BY <1>35 DEF CheckRecover
  <2>3. CASE operation' = [operation EXCEPT ![h].at = "recoverable", ![h].seen = session]
    BY <2>1, <2>3
  <2>4. CASE operation' = [operation EXCEPT ![h] = Ended]
    BY <2>1, <2>4, SessionAssumption
  <2> QED
    BY <2>2, <2>3, <2>4
<1>36. ASSUME NEW h \in Handlers, Transfer(h)
      PROVE  GenerationInv'
  BY <1>36, SessionAssumption DEF Transfer
<1>37. ASSUME NEW h \in Handlers, Transferred(h)
      PROVE  GenerationInv'
  BY <1>37, SessionAssumption DEF Transferred
<1>38. ASSUME NEW h \in Handlers, RecoverFails(h)
      PROVE  GenerationInv'
  BY <1>38, SessionAssumption DEF RecoverFails
<1> QED
  BY <1>1, <1>2, <1>3, <1>4, <1>5, <1>6, <1>7, <1>8, <1>9, <1>10, <1>11, <1>12, <1>13,
     <1>14, <1>15, <1>16, <1>17, <1>18, <1>19, <1>20, <1>21, <1>22, <1>23, <1>24, <1>25,
     <1>26, <1>27, <1>28, <1>29, <1>30, <1>31, <1>32, <1>33, <1>34, <1>35, <1>36, <1>37,
     <1>38 DEF Next, Step, Reconciles

\* A trade or a recovery that reconciliation asks for has been sent.
LEMMA TodoStep ==
    ASSUME Inv, [Next]_vars
    PROVE  TodoInv'
<1> USE DEF Inv, TodoInv, Untouched, TypeOK, OperationType, TradeType, Ended, NoSession, At, Go,
        End, stores, world
<1>1. CASE Authorize \/ Expire \/ (\E i \in Items : Mine(i)) \/ UNCHANGED vars
  BY <1>1 DEF Authorize, Authorized, Expire, Mine, vars, stores, world
<1>2. CASE Crash
  BY <1>2 DEF Crash
<1>3. ASSUME NEW h \in Handlers, Reconciles(h)
      PROVE  TodoInv'
  <2>1. PICK o \in OperationType : operation' = [operation EXCEPT ![h] = o] /\ Continues(h, o)
    BY <1>3, ReconcileOperation
  <2>2. \A p \in Proposals : trades[p].status \notin Untouched => trades'[p].status \notin Untouched
    BY <1>3, ReconcileRows
  <2>3. \A p \in Proposals : trades'[p].hash => trades'[p].status \notin Untouched
    BY <1>3, ReconcileRows
  <2>4. \A p \in o.todo \cap Proposals : trades[p].status \notin Untouched
    BY <2>1, SessionAssumption DEF Continues
  <2>5. /\ o.at = "trades" => o.todo \subseteq Proposals
        /\ o.at = "recoveries" => o.todo \subseteq Recoveries
    BY <2>1 DEF Continues
  <2> HIDE DEF Untouched
  <2> QED
    BY <2>1, <2>2, <2>3, <2>4, <2>5
<1>4. ASSUME NEW h \in Handlers, NEW p \in Proposals, Reserve(h, p)
      PROVE  TodoInv'
  <2>1. trades[p].status = "NONE"
    BY <1>4 DEF Reserve, Reservable
  <2>2. \/ trades' = [trades EXCEPT ![p] = Row("SIGNING", FALSE)]
        \/ trades' = [trades EXCEPT ![p] = Row("RELEASED", FALSE)]
    BY <1>4 DEF Reserve
  <2>3. ~trades'[p].hash /\ \A q \in Proposals : q # p => trades'[q] = trades[q]
    BY <2>2 DEF Row
  <2>4. CASE operation' = [operation EXCEPT ![h].at = "preflight", ![h].item = p]
    <3>1. \A g \in Handlers : operation'[g].todo = operation[g].todo
      BY <2>4
    <3>2. \A g \in Handlers : operation'[g].at \in {operation[g].at, "preflight"}
      BY <2>4
    <3> QED
      BY <2>1, <2>3, <3>1, <3>2
  <2>5. CASE operation' = [operation EXCEPT ![h] = Ended]
    BY <2>1, <2>3, <2>5
  <2> QED
    BY <1>4, <2>4, <2>5 DEF Reserve
<1>5. ASSUME NEW h \in Handlers, NEW r \in Recoveries, ClaimRecovery(h, r)
      PROVE  TodoInv'
  BY <1>5 DEF ClaimRecovery, Row
<1>6. ASSUME NEW h \in Handlers, BeginRestore(h)
      PROVE  TodoInv'
  BY <1>6 DEF BeginRestore, Begin
<1>7. ASSUME NEW h \in Handlers, Refresh(h)
      PROVE  TodoInv'
  BY <1>7 DEF Refresh, BeginReconcile, BeginWith, TradesToReconcile
<1>8. ASSUME NEW h \in Handlers, Start(h)
      PROVE  TodoInv'
  BY <1>8 DEF Start, BeginReconcile, BeginWith, TradesToReconcile
<1>9. ASSUME NEW h \in Handlers, WorkerTick(h)
      PROVE  TodoInv'
  BY <1>9 DEF WorkerTick, BeginReconcile, BeginWith, TradesToReconcile
<1>10. ASSUME NEW h \in Handlers, BeginApprove(h)
      PROVE  TodoInv'
  BY <1>10 DEF BeginApprove, BeginWith
<1>11. ASSUME NEW h \in Handlers, BeginStop(h)
      PROVE  TodoInv'
  BY <1>11 DEF BeginStop, Begin
<1>12. ASSUME NEW h \in Handlers, BeginRecover(h)
      PROVE  TodoInv'
  BY <1>12 DEF BeginRecover, BeginReconcile, BeginWith, TradesToReconcile
<1>13. ASSUME NEW h \in Handlers, Restore(h)
      PROVE  TodoInv'
  BY <1>13 DEF Restore
<1>14. ASSUME NEW h \in Handlers, CheckTick(h)
      PROVE  TodoInv'
  BY <1>14 DEF CheckTick
<1>15. ASSUME NEW h \in Handlers, WalletDisabled(h)
      PROVE  TodoInv'
  BY <1>15 DEF WalletDisabled
<1>16. ASSUME NEW h \in Handlers, WalletChanged(h)
      PROVE  TodoInv'
  BY <1>16 DEF WalletChanged
<1>17. ASSUME NEW h \in Handlers, WalletReady(h)
      PROVE  TodoInv'
  BY <1>17 DEF WalletReady
<1>18. ASSUME NEW h \in Handlers, NoTrade(h)
      PROVE  TodoInv'
  BY <1>18 DEF NoTrade
<1>19. ASSUME NEW h \in Handlers, Preflighted(h)
      PROVE  TodoInv'
  BY <1>19 DEF Preflighted
<1>20. ASSUME NEW h \in Handlers, Sign(h)
      PROVE  TodoInv'
  BY <1>20 DEF Sign
<1>21. ASSUME NEW h \in Handlers, Signed(h)
      PROVE  TodoInv'
  BY <1>21 DEF Signed
<1>22. ASSUME NEW h \in Handlers, Executed(h)
      PROVE  TodoInv'
  BY <1>22 DEF Executed
<1>23. ASSUME NEW h \in Handlers, Send(h)
      PROVE  TodoInv'
  BY <1>23 DEF Send
<1>24. ASSUME NEW h \in Handlers, Request(h)
      PROVE  TodoInv'
  BY <1>24 DEF Request
<1>25. ASSUME NEW h \in Handlers, Answered(h)
      PROVE  TodoInv'
  <2>1. operation[h].item \in Proposals
    BY <1>25 DEF Answered, TradeInv, Owned
  <2>2. trades' = [trades EXCEPT ![operation[h].item] = Row("SUBMITTED", TRUE)]
    BY <1>25 DEF Answered
  <2>3. operation[h].at \notin {"trades", "recoveries"}
    BY <1>25 DEF Answered
  <2> QED
    BY <1>25, <2>1, <2>2, <2>3 DEF Answered, Row
<1>26. ASSUME NEW h \in Handlers, Unknown(h)
      PROVE  TodoInv'
  <2>1. operation[h].item \in Proposals
    BY <1>26 DEF Unknown, TradeInv, Owned
  <2>2. trades' = [trades EXCEPT ![operation[h].item] = Row("RECONCILIATION_REQUIRED", FALSE)]
    BY <1>26 DEF Unknown
  <2>3. operation[h].at \notin {"trades", "recoveries"}
    BY <1>26 DEF Unknown
  <2> QED
    BY <1>26, <2>1, <2>2, <2>3 DEF Unknown, Row
<1>27. ASSUME NEW h \in Handlers, TradeFails(h)
      PROVE  TodoInv'
  <2>1. operation[h].item \in Proposals
    BY <1>27 DEF TradeFails, TradeInv, Owned
  <2>2. \/ trades' = trades
        \/ /\ trades[operation[h].item].status = "SIGNING"
           /\ trades' = [trades EXCEPT ![operation[h].item].status = "RELEASED"]
    BY <1>27 DEF TradeFails, Release
  <2>3. \A p \in Proposals : \/ trades'[p] = trades[p]
                           \/ (trades[p].status = "SIGNING" /\ trades'[p].hash = trades[p].hash)
    BY <2>1, <2>2
  <2>4. operation' = [operation EXCEPT ![h] = Ended]
    BY <1>27 DEF TradeFails
  <2> QED
    BY <2>3, <2>4
<1>28. ASSUME NEW h \in Handlers, Receipt(h)
      PROVE  TodoInv'
  <2>1. operation[h].item \in Proposals /\ trades[operation[h].item].status \notin Untouched
    BY <1>28 DEF Receipt, TradeInv
  <2>2. \/ trades' = trades
        \/ trades' = [trades EXCEPT ![operation[h].item] =
                                 Row(Outcome(mined[operation[h].item]), TRUE)]
    BY <1>28 DEF Receipt
  <2>3. \A p \in Proposals : trades'[p] = trades[p] \/ trades'[p].status \notin Untouched
    BY <2>1, <2>2 DEF Row, Outcome
  <2>4. operation' = [operation EXCEPT ![h] = Ended]
    BY <1>28 DEF Receipt
  <2> QED
    BY <2>3, <2>4
<1>29. ASSUME NEW h \in Handlers, QueueApprove(h)
      PROVE  TodoInv'
  BY <1>29 DEF QueueApprove
<1>30. ASSUME NEW h \in Handlers, Approve(h)
      PROVE  TodoInv'
  BY <1>30 DEF Approve
<1>31. ASSUME NEW h \in Handlers, EndApprove(h)
      PROVE  TodoInv'
  BY <1>31 DEF EndApprove
<1>32. ASSUME NEW h \in Handlers, QueueRevoke(h)
      PROVE  TodoInv'
  BY <1>32 DEF QueueRevoke
<1>33. ASSUME NEW h \in Handlers, Revoke(h)
      PROVE  TodoInv'
  BY <1>33 DEF Revoke
<1>34. ASSUME NEW h \in Handlers, NotQueued(h)
      PROVE  TodoInv'
  BY <1>34 DEF NotQueued
<1>35. ASSUME NEW h \in Handlers, CheckRecover(h)
      PROVE  TodoInv'
  <2>1. operation' \in {[operation EXCEPT ![h].at = "recoverable", ![h].seen = session],
                       [operation EXCEPT ![h] = Ended]}
    BY <1>35 DEF CheckRecover
  <2>2. \A g \in Handlers : /\ operation'[g].todo \in {operation[g].todo, {}}
                            /\ operation'[g].at \in {operation[g].at, "recoverable", "ended"}
    BY <2>1
  <2> QED
    BY <1>35, <2>2 DEF CheckRecover
<1>36. ASSUME NEW h \in Handlers, Transfer(h)
      PROVE  TodoInv'
  BY <1>36 DEF Transfer
<1>37. ASSUME NEW h \in Handlers, Transferred(h)
      PROVE  TodoInv'
  BY <1>37 DEF Transferred
<1>38. ASSUME NEW h \in Handlers, RecoverFails(h)
      PROVE  TodoInv'
  BY <1>38 DEF RecoverFails
<1> QED
  BY <1>1, <1>2, <1>3, <1>4, <1>5, <1>6, <1>7, <1>8, <1>9, <1>10, <1>11, <1>12, <1>13,
     <1>14, <1>15, <1>16, <1>17, <1>18, <1>19, <1>20, <1>21, <1>22, <1>23, <1>24, <1>25,
     <1>26, <1>27, <1>28, <1>29, <1>30, <1>31, <1>32, <1>33, <1>34, <1>35, <1>36, <1>37,
     <1>38 DEF Next, Step, Reconciles

LEMMA ReceiptTyped ==
    ASSUME NEW o \in OperationType
    PROVE  [o EXCEPT !.at = "receipt"] \in OperationType
BY DEF OperationType, Places

\* The end of a tick that had a trade, or its wait for the receipt.
LEMMA TradeEnds ==
    ASSUME Inv, NEW h \in Handlers, operation[h].at \in Owned \cup {"receipt"},
           NEW o \in OperationType, operation' = [operation EXCEPT ![h] = o],
           NEW t, t = operation[h].item,
           o.at \notin Owned,
           o.at = "receipt" => o.item = t /\ trades'[t].status \notin Untouched,
           requested' = requested,
           \A p \in Proposals : p # t => trades'[p] = trades[p],
           trades'[t].status = trades[t].status
              \/ trades'[t].status \notin Untouched \/ t \notin requested,
           trades[t].status \notin Untouched => trades'[t].status \notin Untouched
    PROVE  TradeInv'
<1> USE DEF Inv, TypeOK
<1>1. t \in Proposals
  BY DEF TradeInv
<1>2. ASSUME NEW g \in Handlers, g # h
      PROVE  /\ operation'[g] = operation[g]
             /\ operation[g].at \in Owned => operation[g].item # t
  BY <1>2 DEF TradeInv, Untouched
<1>3. operation'[h] = o
  OBVIOUS
<1>4. SentIsAccounted'
  BY <1>1 DEF TradeInv, SentIsAccounted, Untouched
<1>5. ASSUME NEW g \in Handlers, g # h, operation[g].at = "receipt"
      PROVE  /\ operation[g].item \in Proposals
             /\ trades'[operation[g].item].status \notin Untouched
  BY <1>5 DEF TradeInv
<1> HIDE DEF Owned, Untouched, Inv, TypeOK
<1>6. Inv /\ TradeInv
  BY DEF Inv
<1> QED
  BY <1>1, <1>2, <1>3, <1>4, <1>5, <1>6 DEF TradeInv

\* A trade is the tick's own until it has a hash, and is released only by it.
LEMMA TradeStep ==
    ASSUME Inv, [Next]_vars
    PROVE  TradeInv'
<1> USE DEF Inv, TradeInv, SentIsAccounted, Owned, Untouched, TypeOK, OperationType, TradeType,
        Ended, At, Go, End, stores, world
<1>1. CASE Authorize \/ Expire \/ (\E i \in Items : Mine(i)) \/ UNCHANGED vars
  BY <1>1, SessionAssumption DEF Authorize, Authorized, Expire, Mine, vars, stores, world
<1>2. CASE Crash
  BY <1>2 DEF Crash
<1>3. ASSUME NEW h \in Handlers, Reconciles(h)
      PROVE  TradeInv'
  <2>1. PICK o \in OperationType : operation' = [operation EXCEPT ![h] = o] /\ Continues(h, o)
    BY <1>3, ReconcileOperation
  <2>2. o.at \notin Owned \cup {"receipt"}
    BY <2>1 DEF Continues
  <2>3. /\ requested' = requested
        /\ \A p \in Proposals :
              \/ trades'[p] = trades[p]
              \/ trades[p].status \notin Untouched /\ trades'[p].status \notin Untouched
    BY <1>3, ReconcileRows
  <2> QED
    BY <2>1, <2>2, <2>3
<1>4. ASSUME NEW h \in Handlers, NEW p \in Proposals, Reserve(h, p)
      PROVE  TradeInv'
  <2>1. /\ trades[p].status = "NONE" /\ p \notin requested
        /\ operation[h].at = "proposal" /\ requested' = requested
    BY <1>4 DEF Reserve, Reservable
  <2>2. ASSUME NEW g \in Handlers, operation[g].at \in Owned \cup {"receipt"}
        PROVE  operation[g].item # p
    BY <2>1, <2>2
  <2>3. CASE /\ trades' = [trades EXCEPT ![p] = Row("SIGNING", FALSE)]
             /\ operation' = [operation EXCEPT ![h].at = "preflight", ![h].item = p]
    BY <2>1, <2>2, <2>3 DEF Row
  <2>4. CASE /\ trades' = [trades EXCEPT ![p] = Row("RELEASED", FALSE)]
             /\ operation' = [operation EXCEPT ![h] = Ended]
    BY <2>1, <2>2, <2>4 DEF Row
  <2> QED
    BY <1>4, <2>3, <2>4 DEF Reserve
<1>5. ASSUME NEW h \in Handlers, NEW r \in Recoveries, ClaimRecovery(h, r)
      PROVE  TradeInv'
  BY <1>5, SessionAssumption DEF ClaimRecovery, Row
<1>6. ASSUME NEW h \in Handlers, BeginRestore(h)
      PROVE  TradeInv'
  BY <1>6, SessionAssumption DEF BeginRestore, Begin
<1>7. ASSUME NEW h \in Handlers, Refresh(h)
      PROVE  TradeInv'
  BY <1>7, SessionAssumption DEF Refresh, BeginReconcile, BeginWith
<1>8. ASSUME NEW h \in Handlers, Start(h)
      PROVE  TradeInv'
  BY <1>8, SessionAssumption DEF Start, BeginReconcile, BeginWith
<1>9. ASSUME NEW h \in Handlers, WorkerTick(h)
      PROVE  TradeInv'
  BY <1>9, SessionAssumption DEF WorkerTick, BeginReconcile, BeginWith
<1>10. ASSUME NEW h \in Handlers, BeginApprove(h)
      PROVE  TradeInv'
  BY <1>10, SessionAssumption DEF BeginApprove, BeginWith
<1>11. ASSUME NEW h \in Handlers, BeginStop(h)
      PROVE  TradeInv'
  BY <1>11, SessionAssumption DEF BeginStop, Begin
<1>12. ASSUME NEW h \in Handlers, BeginRecover(h)
      PROVE  TradeInv'
  BY <1>12, SessionAssumption DEF BeginRecover, BeginReconcile, BeginWith
<1>13. ASSUME NEW h \in Handlers, Restore(h)
      PROVE  TradeInv'
  BY <1>13, SessionAssumption DEF Restore
<1>14. ASSUME NEW h \in Handlers, CheckTick(h)
      PROVE  TradeInv'
  <2>1. CASE operation' = [operation EXCEPT ![h].at = "status", ![h].seen = Activated]
    BY <1>14, <2>1 DEF CheckTick
  <2>2. CASE operation' = [operation EXCEPT ![h] = Ended]
    BY <1>14, <2>2 DEF CheckTick
  <2> QED
    BY <1>14, <2>1, <2>2 DEF CheckTick
<1>15. ASSUME NEW h \in Handlers, WalletDisabled(h)
      PROVE  TradeInv'
  BY <1>15, SessionAssumption DEF WalletDisabled
<1>16. ASSUME NEW h \in Handlers, WalletChanged(h)
      PROVE  TradeInv'
  BY <1>16, SessionAssumption DEF WalletChanged
<1>17. ASSUME NEW h \in Handlers, WalletReady(h)
      PROVE  TradeInv'
  BY <1>17, SessionAssumption DEF WalletReady
<1>18. ASSUME NEW h \in Handlers, NoTrade(h)
      PROVE  TradeInv'
  BY <1>18, SessionAssumption DEF NoTrade
<1>19. ASSUME NEW h \in Handlers, Preflighted(h)
      PROVE  TradeInv'
  BY <1>19, SessionAssumption DEF Preflighted
<1>20. ASSUME NEW h \in Handlers, Sign(h)
      PROVE  TradeInv'
  BY <1>20, SessionAssumption DEF Sign
<1>21. ASSUME NEW h \in Handlers, Signed(h)
      PROVE  TradeInv'
  BY <1>21, SessionAssumption DEF Signed
<1>22. ASSUME NEW h \in Handlers, Executed(h)
      PROVE  TradeInv'
  BY <1>22, SessionAssumption DEF Executed
<1>23. ASSUME NEW h \in Handlers, Send(h)
      PROVE  TradeInv'
  BY <1>23, SessionAssumption DEF Send
<1>24. ASSUME NEW h \in Handlers, Request(h)
      PROVE  TradeInv'
  BY <1>24, SessionAssumption DEF Request
<1>25. ASSUME NEW h \in Handlers, Answered(h)
      PROVE  TradeInv'
  <2>1. [operation[h] EXCEPT !.at = "receipt"] \in OperationType
    BY ReceiptTyped
  <2>2. operation' = [operation EXCEPT ![h] = [operation[h] EXCEPT !.at = "receipt"]]
    BY <1>25 DEF Answered
  <2>3. operation[h].item \in Proposals
    BY <1>25 DEF Answered
  <2>4. trades' = [trades EXCEPT ![operation[h].item] = Row("SUBMITTED", TRUE)]
    BY <1>25 DEF Answered
  <2> QED
    BY <1>25, <2>1, <2>2, <2>3, <2>4, TradeEnds DEF Answered, Row
<1>26. ASSUME NEW h \in Handlers, Unknown(h)
      PROVE  TradeInv'
  <2>1. operation[h].item \in Proposals
    BY <1>26 DEF Unknown
  <2>2. trades' = [trades EXCEPT ![operation[h].item] = Row("RECONCILIATION_REQUIRED", FALSE)]
    BY <1>26 DEF Unknown
  <2> QED
    BY <1>26, <2>1, <2>2, TradeEnds, EndedType DEF Unknown, Row
<1>27. ASSUME NEW h \in Handlers, TradeFails(h)
      PROVE  TradeInv'
  <2>1. operation[h].at \in (Owned \ {"sent"}) \cup {"receipt"} /\ operation[h].item \in Proposals
    BY <1>27 DEF TradeFails
  <2>2. \/ trades' = trades
        \/ /\ trades[operation[h].item].status = "SIGNING"
           /\ trades' = [trades EXCEPT ![operation[h].item].status = "RELEASED"]
    BY <1>27 DEF TradeFails, Release
  <2>3. operation[h].item \notin requested \/ trades' = trades
    BY <2>1, <2>2
  <2> QED
    BY <1>27, <2>1, <2>2, <2>3, TradeEnds, EndedType DEF TradeFails
<1>28. ASSUME NEW h \in Handlers, Receipt(h)
      PROVE  TradeInv'
  <2>1. operation[h].item \in Proposals /\ trades[operation[h].item].status \notin Untouched
    BY <1>28 DEF Receipt
  <2>2. \/ trades' = trades
        \/ trades' = [trades EXCEPT ![operation[h].item] =
                                 Row(Outcome(mined[operation[h].item]), TRUE)]
    BY <1>28 DEF Receipt
  <2>3. /\ trades'[operation[h].item].status \notin Untouched
        /\ \A p \in Proposals : p # operation[h].item => trades'[p] = trades[p]
    BY <2>1, <2>2 DEF Row, Outcome
  <2>4. /\ operation' = [operation EXCEPT ![h] = Ended] /\ requested' = requested
        /\ operation[h].at = "receipt"
    BY <1>28 DEF Receipt
  <2>5. Ended \in OperationType /\ Ended.at \notin Owned \cup {"receipt"}
    BY EndedType
  <2> HIDE DEF Inv, TradeInv, TypeOK, Ended, OperationType, Untouched
  <2> QED
    BY <2>1, <2>3, <2>4, <2>5, TradeEnds
<1>29. ASSUME NEW h \in Handlers, QueueApprove(h)
      PROVE  TradeInv'
  BY <1>29, SessionAssumption DEF QueueApprove
<1>30. ASSUME NEW h \in Handlers, Approve(h)
      PROVE  TradeInv'
  BY <1>30, SessionAssumption DEF Approve
<1>31. ASSUME NEW h \in Handlers, EndApprove(h)
      PROVE  TradeInv'
  BY <1>31, SessionAssumption DEF EndApprove
<1>32. ASSUME NEW h \in Handlers, QueueRevoke(h)
      PROVE  TradeInv'
  BY <1>32, SessionAssumption DEF QueueRevoke
<1>33. ASSUME NEW h \in Handlers, Revoke(h)
      PROVE  TradeInv'
  BY <1>33, SessionAssumption DEF Revoke
<1>34. ASSUME NEW h \in Handlers, NotQueued(h)
      PROVE  TradeInv'
  BY <1>34, SessionAssumption DEF NotQueued
<1>35. ASSUME NEW h \in Handlers, CheckRecover(h)
      PROVE  TradeInv'
  <2>1. CASE operation' = [operation EXCEPT ![h].at = "recoverable", ![h].seen = session]
    BY <1>35, <2>1 DEF CheckRecover
  <2>2. CASE operation' = [operation EXCEPT ![h] = Ended]
    BY <1>35, <2>2 DEF CheckRecover
  <2> QED
    BY <1>35, <2>1, <2>2 DEF CheckRecover
<1>36. ASSUME NEW h \in Handlers, Transfer(h)
      PROVE  TradeInv'
  <2>1. operation[h].item \notin Proposals
    BY <1>36, SessionAssumption DEF Transfer, RecoveryInv
  <2> QED
    BY <1>36, <2>1 DEF Transfer
<1>37. ASSUME NEW h \in Handlers, Transferred(h)
      PROVE  TradeInv'
  BY <1>37, SessionAssumption DEF Transferred
<1>38. ASSUME NEW h \in Handlers, RecoverFails(h)
      PROVE  TradeInv'
  BY <1>38, SessionAssumption DEF RecoverFails
<1> QED
  BY <1>1, <1>2, <1>3, <1>4, <1>5, <1>6, <1>7, <1>8, <1>9, <1>10, <1>11, <1>12, <1>13,
     <1>14, <1>15, <1>16, <1>17, <1>18, <1>19, <1>20, <1>21, <1>22, <1>23, <1>24, <1>25,
     <1>26, <1>27, <1>28, <1>29, <1>30, <1>31, <1>32, <1>33, <1>34, <1>35, <1>36, <1>37,
     <1>38 DEF Next, Step, Reconciles

\* A recovery belongs to the operation that claimed it, and after a stop no trade is sent.
LEMMA RecoveryStep ==
    ASSUME Inv, [Next]_vars
    PROVE  RecoveryInv'
<1> USE DEF Inv, RecoveryInv, TypeOK, OperationType, RecoveryType, Ended, NoSession, At, Go, End,
        stores, world
<1>1. CASE Authorize \/ Expire \/ (\E i \in Items : Mine(i)) \/ UNCHANGED vars
  BY <1>1, SessionAssumption DEF Authorize, Authorized, Expire, Mine, vars, stores, world
<1>2. CASE Crash
  BY <1>2 DEF Crash
<1>3. ASSUME NEW h \in Handlers, Reconciles(h)
      PROVE  RecoveryInv'
  <2>1. PICK o \in OperationType : operation' = [operation EXCEPT ![h] = o] /\ Continues(h, o)
    BY <1>3, ReconcileOperation
  <2>2. o.at \notin {"sending", "sent", "recoverable", "transfer", "transferred"}
    BY <2>1 DEF Continues
  <2>3. /\ requested' = requested
        /\ \A r \in Recoveries : recoveries'[r] = recoveries[r] \/ recoveries'[r].status # "NONE"
    BY <1>3, ReconcileRows
  <2> QED
    BY <2>1, <2>2, <2>3
<1>4. ASSUME NEW h \in Handlers, NEW p \in Proposals, Reserve(h, p)
      PROVE  RecoveryInv'
  <2>1. CASE operation' = [operation EXCEPT ![h].at = "preflight", ![h].item = p]
    BY <1>4, <2>1 DEF Reserve
  <2>2. CASE operation' = [operation EXCEPT ![h] = Ended]
    BY <1>4, <2>2 DEF Reserve
  <2> QED
    BY <1>4, <2>1, <2>2 DEF Reserve
<1>5. ASSUME NEW h \in Handlers, NEW r \in Recoveries, ClaimRecovery(h, r)
      PROVE  RecoveryInv'
  BY <1>5, SessionAssumption DEF ClaimRecovery, Row
<1>6. ASSUME NEW h \in Handlers, BeginRestore(h)
      PROVE  RecoveryInv'
  BY <1>6, SessionAssumption DEF BeginRestore, Begin
<1>7. ASSUME NEW h \in Handlers, Refresh(h)
      PROVE  RecoveryInv'
  BY <1>7, SessionAssumption DEF Refresh, BeginReconcile, BeginWith
<1>8. ASSUME NEW h \in Handlers, Start(h)
      PROVE  RecoveryInv'
  BY <1>8, SessionAssumption DEF Start, BeginReconcile, BeginWith
<1>9. ASSUME NEW h \in Handlers, WorkerTick(h)
      PROVE  RecoveryInv'
  BY <1>9, SessionAssumption DEF WorkerTick, BeginReconcile, BeginWith
<1>10. ASSUME NEW h \in Handlers, BeginApprove(h)
      PROVE  RecoveryInv'
  BY <1>10, SessionAssumption DEF BeginApprove, BeginWith
<1>11. ASSUME NEW h \in Handlers, BeginStop(h)
      PROVE  RecoveryInv'
  BY <1>11, SessionAssumption DEF BeginStop, Begin
<1>12. ASSUME NEW h \in Handlers, BeginRecover(h)
      PROVE  RecoveryInv'
  BY <1>12, SessionAssumption DEF BeginRecover, BeginReconcile, BeginWith
<1>13. ASSUME NEW h \in Handlers, Restore(h)
      PROVE  RecoveryInv'
  BY <1>13, SessionAssumption DEF Restore
<1>14. ASSUME NEW h \in Handlers, CheckTick(h)
      PROVE  RecoveryInv'
  <2>1. CASE operation' = [operation EXCEPT ![h].at = "status", ![h].seen = Activated]
    BY <1>14, <2>1 DEF CheckTick
  <2>2. CASE operation' = [operation EXCEPT ![h] = Ended]
    BY <1>14, <2>2 DEF CheckTick
  <2> QED
    BY <1>14, <2>1, <2>2 DEF CheckTick
<1>15. ASSUME NEW h \in Handlers, WalletDisabled(h)
      PROVE  RecoveryInv'
  BY <1>15, SessionAssumption DEF WalletDisabled
<1>16. ASSUME NEW h \in Handlers, WalletChanged(h)
      PROVE  RecoveryInv'
  BY <1>16, SessionAssumption DEF WalletChanged
<1>17. ASSUME NEW h \in Handlers, WalletReady(h)
      PROVE  RecoveryInv'
  BY <1>17, SessionAssumption DEF WalletReady
<1>18. ASSUME NEW h \in Handlers, NoTrade(h)
      PROVE  RecoveryInv'
  BY <1>18, SessionAssumption DEF NoTrade
<1>19. ASSUME NEW h \in Handlers, Preflighted(h)
      PROVE  RecoveryInv'
  BY <1>19, SessionAssumption DEF Preflighted
<1>20. ASSUME NEW h \in Handlers, Sign(h)
      PROVE  RecoveryInv'
  BY <1>20, SessionAssumption DEF Sign
<1>21. ASSUME NEW h \in Handlers, Signed(h)
      PROVE  RecoveryInv'
  BY <1>21, SessionAssumption DEF Signed
<1>22. ASSUME NEW h \in Handlers, Executed(h)
      PROVE  RecoveryInv'
  BY <1>22, SessionAssumption DEF Executed
<1>23. ASSUME NEW h \in Handlers, Send(h)
      PROVE  RecoveryInv'
  <2>1. session.generation = 0
    BY <1>23 DEF Send, Current, GenerationInv, Checked, Owned
  <2>2. \A g \in Handlers : operation[g].seen.generation = 0
    BY <2>1 DEF GenerationInv, SessionType
  <2> QED
    BY <1>23, <2>2 DEF Send
<1>24. ASSUME NEW h \in Handlers, Request(h)
      PROVE  RecoveryInv'
  <2>1. operation[h].item \notin Recoveries
    BY <1>24, SessionAssumption DEF Request, TradeInv, Owned
  <2> QED
    BY <1>24, <2>1 DEF Request
<1>25. ASSUME NEW h \in Handlers, Answered(h)
      PROVE  RecoveryInv'
  BY <1>25, SessionAssumption DEF Answered
<1>26. ASSUME NEW h \in Handlers, Unknown(h)
      PROVE  RecoveryInv'
  BY <1>26, SessionAssumption DEF Unknown
<1>27. ASSUME NEW h \in Handlers, TradeFails(h)
      PROVE  RecoveryInv'
  BY <1>27, SessionAssumption DEF TradeFails
<1>28. ASSUME NEW h \in Handlers, Receipt(h)
      PROVE  RecoveryInv'
  BY <1>28, SessionAssumption DEF Receipt
<1>29. ASSUME NEW h \in Handlers, QueueApprove(h)
      PROVE  RecoveryInv'
  BY <1>29, SessionAssumption DEF QueueApprove
<1>30. ASSUME NEW h \in Handlers, Approve(h)
      PROVE  RecoveryInv'
  BY <1>30, SessionAssumption DEF Approve
<1>31. ASSUME NEW h \in Handlers, EndApprove(h)
      PROVE  RecoveryInv'
  BY <1>31, SessionAssumption DEF EndApprove
<1>32. ASSUME NEW h \in Handlers, QueueRevoke(h)
      PROVE  RecoveryInv'
  BY <1>32, SessionAssumption DEF QueueRevoke
<1>33. ASSUME NEW h \in Handlers, Revoke(h)
      PROVE  RecoveryInv'
  BY <1>33, SessionAssumption DEF Revoke
<1>34. ASSUME NEW h \in Handlers, NotQueued(h)
      PROVE  RecoveryInv'
  BY <1>34, SessionAssumption DEF NotQueued
<1>35. ASSUME NEW h \in Handlers, CheckRecover(h)
      PROVE  RecoveryInv'
  <2>1. CASE Recoverable /\ operation' = [operation EXCEPT ![h].at = "recoverable", ![h].seen = session]
    <3>1. Pending = {}
      BY <2>1 DEF Recoverable
    <3>2. \A g \in Handlers : operation[g].at \notin {"sending", "sent"}
      BY <3>1 DEF Pending, InFlight, TradeInv, Owned
    <3> QED
      BY <1>35, <2>1, <3>2 DEF CheckRecover
  <2>2. CASE operation' = [operation EXCEPT ![h] = Ended]
    BY <1>35, <2>2 DEF CheckRecover
  <2> QED
    BY <1>35, <2>1, <2>2 DEF CheckRecover
<1>36. ASSUME NEW h \in Handlers, Transfer(h)
      PROVE  RecoveryInv'
  BY <1>36, SessionAssumption DEF Transfer
<1>37. ASSUME NEW h \in Handlers, Transferred(h)
      PROVE  RecoveryInv'
  <2>1. operation[h].item \in Recoveries
    BY <1>37 DEF Transferred
  <2>2. \E status \in {"SUBMITTED", "CONFIRMED", "REVERTED"} :
           recoveries' = [recoveries EXCEPT ![operation[h].item] = Row(status, TRUE)]
    BY <1>37 DEF Transferred, Outcome
  <2>3. \A r \in Recoveries : recoveries'[r] = recoveries[r] \/ recoveries'[r].status # "NONE"
    BY <2>1, <2>2 DEF Row
  <2>4. operation' = [operation EXCEPT ![h] = Ended] /\ requested' = requested
    BY <1>37 DEF Transferred
  <2> QED
    BY <2>3, <2>4
<1>38. ASSUME NEW h \in Handlers, RecoverFails(h)
      PROVE  RecoveryInv'
  BY <1>38, SessionAssumption DEF RecoverFails
<1> QED
  BY <1>1, <1>2, <1>3, <1>4, <1>5, <1>6, <1>7, <1>8, <1>9, <1>10, <1>11, <1>12, <1>13,
     <1>14, <1>15, <1>16, <1>17, <1>18, <1>19, <1>20, <1>21, <1>22, <1>23, <1>24, <1>25,
     <1>26, <1>27, <1>28, <1>29, <1>30, <1>31, <1>32, <1>33, <1>34, <1>35, <1>36, <1>37,
     <1>38 DEF Next, Step, Reconciles

\* The signer is revoked by the head of the queue; afterwards a check of the session refuses to use it.
LEMMA StopStep ==
    ASSUME Inv, [Next]_vars
    PROVE  StopIsFinal'
<1> USE DEF Inv, StopIsFinal, UsesSigner, TypeOK, OperationType, Ended, At, Go, End, stores, world
<1>1. CASE Authorize \/ Expire \/ (\E i \in Items : Mine(i)) \/ UNCHANGED vars
  BY <1>1 DEF Authorize, Authorized, Expire, Mine, vars, stores, world
<1>2. CASE Crash
  BY <1>2 DEF Crash
<1>3. ASSUME NEW h \in Handlers, Reconciles(h)
      PROVE  StopIsFinal'
  BY <1>3, ReconcileOperation, ReconcileRows DEF Continues, Writes
<1>4. ASSUME NEW h \in Handlers, NEW p \in Proposals, Reserve(h, p)
      PROVE  StopIsFinal'
  <2>1. CASE operation' = [operation EXCEPT ![h].at = "preflight", ![h].item = p]
    BY <1>4, <2>1 DEF Reserve
  <2>2. CASE operation' = [operation EXCEPT ![h] = Ended]
    BY <1>4, <2>2 DEF Reserve
  <2> QED
    BY <1>4, <2>1, <2>2 DEF Reserve
<1>5. ASSUME NEW h \in Handlers, NEW r \in Recoveries, ClaimRecovery(h, r)
      PROVE  StopIsFinal'
  BY <1>5 DEF ClaimRecovery, Row
<1>6. ASSUME NEW h \in Handlers, BeginRestore(h)
      PROVE  StopIsFinal'
  BY <1>6 DEF BeginRestore, Begin
<1>7. ASSUME NEW h \in Handlers, Refresh(h)
      PROVE  StopIsFinal'
  BY <1>7 DEF Refresh, BeginReconcile, BeginWith
<1>8. ASSUME NEW h \in Handlers, Start(h)
      PROVE  StopIsFinal'
  BY <1>8 DEF Start, BeginReconcile, BeginWith
<1>9. ASSUME NEW h \in Handlers, WorkerTick(h)
      PROVE  StopIsFinal'
  BY <1>9 DEF WorkerTick, BeginReconcile, BeginWith
<1>10. ASSUME NEW h \in Handlers, BeginApprove(h)
      PROVE  StopIsFinal'
  BY <1>10 DEF BeginApprove, BeginWith
<1>11. ASSUME NEW h \in Handlers, BeginStop(h)
      PROVE  StopIsFinal'
  BY <1>11 DEF BeginStop, Begin
<1>12. ASSUME NEW h \in Handlers, BeginRecover(h)
      PROVE  StopIsFinal'
  BY <1>12 DEF BeginRecover, BeginReconcile, BeginWith
<1>13. ASSUME NEW h \in Handlers, Restore(h)
      PROVE  StopIsFinal'
  BY <1>13 DEF Restore
<1>14. ASSUME NEW h \in Handlers, CheckTick(h)
      PROVE  StopIsFinal'
  <2>1. CASE operation' = [operation EXCEPT ![h].at = "status", ![h].seen = Activated]
    BY <1>14, <2>1 DEF CheckTick
  <2>2. CASE operation' = [operation EXCEPT ![h] = Ended]
    BY <1>14, <2>2 DEF CheckTick
  <2> QED
    BY <1>14, <2>1, <2>2 DEF CheckTick
<1>15. ASSUME NEW h \in Handlers, WalletDisabled(h)
      PROVE  StopIsFinal'
  BY <1>15 DEF WalletDisabled
<1>16. ASSUME NEW h \in Handlers, WalletChanged(h)
      PROVE  StopIsFinal'
  BY <1>16 DEF WalletChanged
<1>17. ASSUME NEW h \in Handlers, WalletReady(h)
      PROVE  StopIsFinal'
  BY <1>17 DEF WalletReady
<1>18. ASSUME NEW h \in Handlers, NoTrade(h)
      PROVE  StopIsFinal'
  BY <1>18 DEF NoTrade
<1>19. ASSUME NEW h \in Handlers, Preflighted(h)
      PROVE  StopIsFinal'
  BY <1>19 DEF Preflighted
<1>20. ASSUME NEW h \in Handlers, Sign(h)
      PROVE  StopIsFinal'
  <2>1. ~stopConfirmed
    BY <1>20 DEF Sign, Current, GenerationInv, Checked, Owned
  <2> QED
    BY <1>20, <2>1 DEF Sign
<1>21. ASSUME NEW h \in Handlers, Signed(h)
      PROVE  StopIsFinal'
  BY <1>21 DEF Signed
<1>22. ASSUME NEW h \in Handlers, Executed(h)
      PROVE  StopIsFinal'
  BY <1>22 DEF Executed
<1>23. ASSUME NEW h \in Handlers, Send(h)
      PROVE  StopIsFinal'
  <2>1. ~stopConfirmed
    BY <1>23 DEF Send, Current, GenerationInv, Checked, Owned
  <2> QED
    BY <1>23, <2>1 DEF Send
<1>24. ASSUME NEW h \in Handlers, Request(h)
      PROVE  StopIsFinal'
  BY <1>24 DEF Request
<1>25. ASSUME NEW h \in Handlers, Answered(h)
      PROVE  StopIsFinal'
  BY <1>25 DEF Answered
<1>26. ASSUME NEW h \in Handlers, Unknown(h)
      PROVE  StopIsFinal'
  BY <1>26 DEF Unknown
<1>27. ASSUME NEW h \in Handlers, TradeFails(h)
      PROVE  StopIsFinal'
  BY <1>27 DEF TradeFails
<1>28. ASSUME NEW h \in Handlers, Receipt(h)
      PROVE  StopIsFinal'
  BY <1>28 DEF Receipt
<1>29. ASSUME NEW h \in Handlers, QueueApprove(h)
      PROVE  StopIsFinal'
  BY <1>29 DEF QueueApprove
<1>30. ASSUME NEW h \in Handlers, Approve(h)
      PROVE  StopIsFinal'
  <2>1. ~stopConfirmed
    BY <1>30 DEF Approve, Approvable, GenerationInv, Closing
  <2> QED
    BY <1>30, <2>1 DEF Approve
<1>31. ASSUME NEW h \in Handlers, EndApprove(h)
      PROVE  StopIsFinal'
  BY <1>31 DEF EndApprove
<1>32. ASSUME NEW h \in Handlers, QueueRevoke(h)
      PROVE  StopIsFinal'
  BY <1>32 DEF QueueRevoke
<1>33. ASSUME NEW h \in Handlers, Revoke(h)
      PROVE  StopIsFinal'
  <2>1. \A g \in Handlers : UsesSigner(g) => g = h
    BY <1>33 DEF Revoke, HoldersInv, HasWallet
  <2> QED
    BY <1>33, <2>1 DEF Revoke
<1>34. ASSUME NEW h \in Handlers, NotQueued(h)
      PROVE  StopIsFinal'
  BY <1>34 DEF NotQueued
<1>35. ASSUME NEW h \in Handlers, CheckRecover(h)
      PROVE  StopIsFinal'
  <2>1. CASE operation' = [operation EXCEPT ![h].at = "recoverable", ![h].seen = session]
    BY <1>35, <2>1 DEF CheckRecover
  <2>2. CASE operation' = [operation EXCEPT ![h] = Ended]
    BY <1>35, <2>2 DEF CheckRecover
  <2> QED
    BY <1>35, <2>1, <2>2 DEF CheckRecover
<1>36. ASSUME NEW h \in Handlers, Transfer(h)
      PROVE  StopIsFinal'
  BY <1>36 DEF Transfer
<1>37. ASSUME NEW h \in Handlers, Transferred(h)
      PROVE  StopIsFinal'
  BY <1>37 DEF Transferred
<1>38. ASSUME NEW h \in Handlers, RecoverFails(h)
      PROVE  StopIsFinal'
  BY <1>38 DEF RecoverFails
<1> QED
  BY <1>1, <1>2, <1>3, <1>4, <1>5, <1>6, <1>7, <1>8, <1>9, <1>10, <1>11, <1>12, <1>13,
     <1>14, <1>15, <1>16, <1>17, <1>18, <1>19, <1>20, <1>21, <1>22, <1>23, <1>24, <1>25,
     <1>26, <1>27, <1>28, <1>29, <1>30, <1>31, <1>32, <1>33, <1>34, <1>35, <1>36, <1>37,
     <1>38 DEF Next, Step, Reconciles

RowsTyped ==
    /\ trades \in [Proposals -> TradeType]
    /\ recoveries \in [Recoveries -> RecoveryType]
    /\ requested \subseteq Items
    /\ mined \in [Items -> {"none", "success", "revert"}]

QueueTyped ==
    walletOperations \in Seq(Handlers) /\ {stopConfirmed, expired, revoked} \subseteq BOOLEAN

LEMMA StateTyped ==
    ASSUME NEW s \in SessionType, NEW state \in States
    PROVE  [s EXCEPT !.state = state] \in SessionType
BY DEF SessionType

LEMMA QueueTail ==
    ASSUME TypeOK, HoldersInv, NEW h \in Handlers, HasWallet(h) \/ UsesSigner(h)
    PROVE  Tail(walletOperations) \in Seq(Handlers)
<1>1. walletOperations # <<>> /\ walletOperations \in Seq(Handlers)
  BY DEF TypeOK, HoldersInv, HasWallet
<1> QED
  BY <1>1

\* The session has its type.
LEMMA SessionTypeStep ==
    ASSUME Inv, [Next]_vars
    PROVE  session' \in SessionType
<1> USE DEF Inv, TypeOK, SessionType, States, At, Go, End, stores, world
<1>1. CASE Authorize \/ Expire \/ (\E i \in Items : Mine(i)) \/ UNCHANGED vars
  BY <1>1, SessionAssumption DEF Authorize, Authorized, Expire, Mine, vars, stores, world
<1>2. CASE Crash
  BY <1>2, SessionAssumption DEF Crash
<1>3. ASSUME NEW h \in Handlers, Reconciles(h)
      PROVE  session' \in SessionType
  BY <1>3, ReconcileSession, SessionAssumption DEF Continues, Writes
<1>4. ASSUME NEW h \in Handlers, NEW p \in Proposals, Reserve(h, p)
      PROVE  session' \in SessionType
  <2>1. session.consumed + InputAmount[p] \in Nat /\ session.count + 1 \in Nat
    BY SessionAssumption
  <2>2. CASE session.generation = operation[h].seen.generation
    <3>1. session' = [session EXCEPT !.consumed = session.consumed + InputAmount[p],
                                     !.count = session.count + 1]
      BY <1>4, <2>2 DEF Reserve
    <3> QED
      BY <2>1, <3>1
  <2>3. CASE session.generation # operation[h].seen.generation
    BY <1>4, <2>3 DEF Reserve
  <2> QED
    BY <2>2, <2>3
<1>5. ASSUME NEW h \in Handlers, NEW r \in Recoveries, ClaimRecovery(h, r)
      PROVE  session' \in SessionType
  BY <1>5, SessionAssumption DEF ClaimRecovery, Row
<1>6. ASSUME NEW h \in Handlers, BeginRestore(h)
      PROVE  session' \in SessionType
  BY <1>6, SessionAssumption DEF BeginRestore, Begin
<1>7. ASSUME NEW h \in Handlers, Refresh(h)
      PROVE  session' \in SessionType
  BY <1>7, SessionAssumption DEF Refresh, BeginReconcile, BeginWith
<1>8. ASSUME NEW h \in Handlers, Start(h)
      PROVE  session' \in SessionType
  BY <1>8, SessionAssumption DEF Start, BeginReconcile, BeginWith
<1>9. ASSUME NEW h \in Handlers, WorkerTick(h)
      PROVE  session' \in SessionType
  BY <1>9, SessionAssumption DEF WorkerTick, BeginReconcile, BeginWith
<1>10. ASSUME NEW h \in Handlers, BeginApprove(h)
      PROVE  session' \in SessionType
  BY <1>10, SessionAssumption DEF BeginApprove, BeginWith
<1>11. ASSUME NEW h \in Handlers, BeginStop(h)
      PROVE  session' \in SessionType
  <2>1. session \in SessionType /\ session.generation \in Nat
    BY SessionAssumption
  <2>2. session.generation + 1 \in 0 .. GenerationBound
    BY <1>11, <2>1, SessionAssumption DEF BeginStop
  <2>3. Stopped(session) \in SessionType
    BY <2>1, <2>2 DEF Stopped
  <2> QED
    BY <1>11, <2>3 DEF BeginStop
<1>12. ASSUME NEW h \in Handlers, BeginRecover(h)
      PROVE  session' \in SessionType
  BY <1>12, SessionAssumption DEF BeginRecover, BeginReconcile, BeginWith
<1>13. ASSUME NEW h \in Handlers, Restore(h)
      PROVE  session' \in SessionType
  <2>1. \E state \in States : session' = session \/ session' = [session EXCEPT !.state = state]
    BY <1>13 DEF Restore, Authorized, SessionType
  <2> QED
    BY <2>1
<1>14. ASSUME NEW h \in Handlers, CheckTick(h)
      PROVE  session' \in SessionType
  <2>1. TickRefused # "none" => TickRefused \in States
    BY DEF TickRefused, Activated
  <2>2. Activated \in SessionType
    BY DEF Activated
  <2> QED
    BY <1>14, <2>1, <2>2 DEF CheckTick
<1>15. ASSUME NEW h \in Handlers, WalletDisabled(h)
      PROVE  session' \in SessionType
  <2>1. session \in SessionType /\ session.generation \in Nat
    BY SessionAssumption
  <2>2. session.generation + 1 \in 0 .. GenerationBound
    BY <1>15, <2>1, SessionAssumption DEF WalletDisabled
  <2>3. Stopped(session) \in SessionType
    BY <2>1, <2>2 DEF Stopped
  <2> QED
    BY <1>15, <2>3 DEF WalletDisabled
<1>16. ASSUME NEW h \in Handlers, WalletChanged(h)
      PROVE  session' \in SessionType
  <2>1. session' \in {session, [session EXCEPT !.state = "RECONCILIATION_REQUIRED"]}
    BY <1>16 DEF WalletChanged, WithState
  <2> QED
    BY <2>1
<1>17. ASSUME NEW h \in Handlers, WalletReady(h)
      PROVE  session' \in SessionType
  BY <1>17, SessionAssumption DEF WalletReady
<1>18. ASSUME NEW h \in Handlers, NoTrade(h)
      PROVE  session' \in SessionType
  BY <1>18, SessionAssumption DEF NoTrade
<1>19. ASSUME NEW h \in Handlers, Preflighted(h)
      PROVE  session' \in SessionType
  BY <1>19, SessionAssumption DEF Preflighted
<1>20. ASSUME NEW h \in Handlers, Sign(h)
      PROVE  session' \in SessionType
  BY <1>20, SessionAssumption DEF Sign
<1>21. ASSUME NEW h \in Handlers, Signed(h)
      PROVE  session' \in SessionType
  BY <1>21, SessionAssumption DEF Signed
<1>22. ASSUME NEW h \in Handlers, Executed(h)
      PROVE  session' \in SessionType
  BY <1>22, SessionAssumption DEF Executed
<1>23. ASSUME NEW h \in Handlers, Send(h)
      PROVE  session' \in SessionType
  BY <1>23, SessionAssumption DEF Send
<1>24. ASSUME NEW h \in Handlers, Request(h)
      PROVE  session' \in SessionType
  BY <1>24, SessionAssumption DEF Request
<1>25. ASSUME NEW h \in Handlers, Answered(h)
      PROVE  session' \in SessionType
  BY <1>25, SessionAssumption DEF Answered
<1>26. ASSUME NEW h \in Handlers, Unknown(h)
      PROVE  session' \in SessionType
  <2>1. session' \in {session, [session EXCEPT !.state = "RECONCILIATION_REQUIRED"]}
    BY <1>26 DEF Unknown, WithState
  <2> QED
    BY <2>1
<1>27. ASSUME NEW h \in Handlers, TradeFails(h)
      PROVE  session' \in SessionType
  <2>1. operation[h].item \in Proposals
    BY <1>27 DEF TradeFails, TradeInv, Owned
  <2>2. InputAmount[operation[h].item] \in Nat /\ session.consumed \in Nat /\ session.count \in Nat
    BY <2>1, SessionAssumption
  <2>3. PICK c \in Nat, n \in Nat :
           session' = session \/ session' = [session EXCEPT !.consumed = c, !.count = n]
    <3>1. CASE trades[operation[h].item].status = "SIGNING"
      <4> DEFINE i == InputAmount[operation[h].item]
                 c == IF session.consumed >= i THEN session.consumed - i ELSE 0
                 n == IF session.count > 0 THEN session.count - 1 ELSE 0
      <4>1. c \in Nat /\ n \in Nat
        BY <2>2
      <4>2. session' = [session EXCEPT !.consumed = c, !.count = n]
        BY <1>27, <3>1 DEF TradeFails, Release
      <4> QED
        BY <4>1, <4>2
    <3>2. CASE trades[operation[h].item].status # "SIGNING"
      BY <1>27, <2>2, <3>2 DEF TradeFails, Release
    <3> QED
      BY <3>1, <3>2
  <2> QED
    BY <2>3
<1>28. ASSUME NEW h \in Handlers, Receipt(h)
      PROVE  session' \in SessionType
  <2>1. \E state \in {"EXHAUSTED", "ACTIVE"} :
           session' \in {session, [session EXCEPT !.state = state]}
    BY <1>28 DEF Receipt, WithState
  <2> QED
    BY <2>1
<1>29. ASSUME NEW h \in Handlers, QueueApprove(h)
      PROVE  session' \in SessionType
  BY <1>29, SessionAssumption DEF QueueApprove
<1>30. ASSUME NEW h \in Handlers, Approve(h)
      PROVE  session' \in SessionType
  BY <1>30, SessionAssumption DEF Approve
<1>31. ASSUME NEW h \in Handlers, EndApprove(h)
      PROVE  session' \in SessionType
  BY <1>31, SessionAssumption DEF EndApprove
<1>32. ASSUME NEW h \in Handlers, QueueRevoke(h)
      PROVE  session' \in SessionType
  BY <1>32, SessionAssumption DEF QueueRevoke
<1>33. ASSUME NEW h \in Handlers, Revoke(h)
      PROVE  session' \in SessionType
  BY <1>33, SessionAssumption DEF Revoke
<1>34. ASSUME NEW h \in Handlers, NotQueued(h)
      PROVE  session' \in SessionType
  BY <1>34, SessionAssumption DEF NotQueued
<1>35. ASSUME NEW h \in Handlers, CheckRecover(h)
      PROVE  session' \in SessionType
  BY <1>35, SessionAssumption DEF CheckRecover
<1>36. ASSUME NEW h \in Handlers, Transfer(h)
      PROVE  session' \in SessionType
  BY <1>36, SessionAssumption DEF Transfer
<1>37. ASSUME NEW h \in Handlers, Transferred(h)
      PROVE  session' \in SessionType
  BY <1>37, SessionAssumption DEF Transferred
<1>38. ASSUME NEW h \in Handlers, RecoverFails(h)
      PROVE  session' \in SessionType
  BY <1>38, SessionAssumption DEF RecoverFails
<1> QED
  BY <1>1, <1>2, <1>3, <1>4, <1>5, <1>6, <1>7, <1>8, <1>9, <1>10, <1>11, <1>12, <1>13,
     <1>14, <1>15, <1>16, <1>17, <1>18, <1>19, <1>20, <1>21, <1>22, <1>23, <1>24, <1>25,
     <1>26, <1>27, <1>28, <1>29, <1>30, <1>31, <1>32, <1>33, <1>34, <1>35, <1>36, <1>37,
     <1>38 DEF Next, Step, Reconciles

\* A step that only moves on keeps the type of the operations.
LEMMA GoTyped ==
    ASSUME TypeOK, NEW h \in Handlers, NEW at \in Places, Go(h, at)
    PROVE  operation' \in [Handlers -> OperationType]
<1>1. [operation[h] EXCEPT !.at = at] \in OperationType
  BY DEF TypeOK, OperationType
<1> QED
  BY <1>1 DEF TypeOK, Go

\* Operations have their type.
LEMMA OperationTypeStep ==
    ASSUME Inv, [Next]_vars
    PROVE  operation' \in [Handlers -> OperationType]
<1> USE DEF Inv, TypeOK, OperationType, Places, At, Go, End, stores, world
<1>1. CASE Authorize \/ Expire \/ (\E i \in Items : Mine(i)) \/ UNCHANGED vars
  BY <1>1, EndedType DEF Authorize, Authorized, Expire, Mine, vars, stores, world
<1>2. CASE Crash
  BY <1>2, EndedType DEF Crash
<1>3. ASSUME NEW h \in Handlers, Reconciles(h)
      PROVE  operation' \in [Handlers -> OperationType]
  BY <1>3, ReconcileOperation, EndedType DEF Continues, Writes
<1>4. ASSUME NEW h \in Handlers, NEW p \in Proposals, Reserve(h, p)
      PROVE  operation' \in [Handlers -> OperationType]
  <2>1. [operation[h] EXCEPT !.at = "preflight", !.item = p] \in OperationType
    BY DEF Items
  <2>2. \/ operation' = [operation EXCEPT ![h] = [operation[h] EXCEPT !.at = "preflight", !.item = p]]
        \/ operation' = [operation EXCEPT ![h] = Ended]
    BY <1>4 DEF Reserve
  <2> QED
    BY <2>1, <2>2, EndedType
<1>5. ASSUME NEW h \in Handlers, NEW r \in Recoveries, ClaimRecovery(h, r)
      PROVE  operation' \in [Handlers -> OperationType]
  <2>1. [operation[h] EXCEPT !.at = "transfer", !.item = r] \in OperationType
    BY DEF Items
  <2>2. \/ operation' = [operation EXCEPT ![h] = [operation[h] EXCEPT !.at = "transfer", !.item = r]]
        \/ operation' = [operation EXCEPT ![h] = Ended]
    BY <1>5 DEF ClaimRecovery
  <2> QED
    BY <2>1, <2>2, EndedType
<1>6. ASSUME NEW h \in Handlers, BeginRestore(h)
      PROVE  operation' \in [Handlers -> OperationType]
  BY <1>6, EndedType DEF BeginRestore, Begin
<1>7. ASSUME NEW h \in Handlers, Refresh(h)
      PROVE  operation' \in [Handlers -> OperationType]
  <2>1. [op |-> operation'[h].op, at |-> "trades", seen |-> session,
         todo |-> TradesToReconcile, item |-> None] \in OperationType
    BY <1>7 DEF Refresh, BeginReconcile, BeginWith, TradesToReconcile, Items
  <2> QED
    BY <1>7, <2>1 DEF Refresh, BeginReconcile, BeginWith
<1>8. ASSUME NEW h \in Handlers, Start(h)
      PROVE  operation' \in [Handlers -> OperationType]
  <2>1. [op |-> operation'[h].op, at |-> "trades", seen |-> session,
         todo |-> TradesToReconcile, item |-> None] \in OperationType
    BY <1>8 DEF Start, BeginReconcile, BeginWith, TradesToReconcile, Items
  <2> QED
    BY <1>8, <2>1 DEF Start, BeginReconcile, BeginWith
<1>9. ASSUME NEW h \in Handlers, WorkerTick(h)
      PROVE  operation' \in [Handlers -> OperationType]
  <2>1. [op |-> operation'[h].op, at |-> "trades", seen |-> session,
         todo |-> TradesToReconcile, item |-> None] \in OperationType
    BY <1>9 DEF WorkerTick, BeginReconcile, BeginWith, TradesToReconcile, Items
  <2> QED
    BY <1>9, <2>1 DEF WorkerTick, BeginReconcile, BeginWith
<1>10. ASSUME NEW h \in Handlers, BeginApprove(h)
      PROVE  operation' \in [Handlers -> OperationType]
  BY <1>10, EndedType DEF BeginApprove, BeginWith
<1>11. ASSUME NEW h \in Handlers, BeginStop(h)
      PROVE  operation' \in [Handlers -> OperationType]
  BY <1>11, EndedType DEF BeginStop, Begin
<1>12. ASSUME NEW h \in Handlers, BeginRecover(h)
      PROVE  operation' \in [Handlers -> OperationType]
  <2>1. [op |-> operation'[h].op, at |-> "trades", seen |-> session,
         todo |-> TradesToReconcile, item |-> None] \in OperationType
    BY <1>12 DEF BeginRecover, BeginReconcile, BeginWith, TradesToReconcile, Items
  <2> QED
    BY <1>12, <2>1 DEF BeginRecover, BeginReconcile, BeginWith
<1>13. ASSUME NEW h \in Handlers, Restore(h)
      PROVE  operation' \in [Handlers -> OperationType]
  BY <1>13, EndedType DEF Restore
<1>14. ASSUME NEW h \in Handlers, CheckTick(h)
      PROVE  operation' \in [Handlers -> OperationType]
  BY <1>14, EndedType DEF CheckTick
<1>15. ASSUME NEW h \in Handlers, WalletDisabled(h)
      PROVE  operation' \in [Handlers -> OperationType]
  BY <1>15, EndedType DEF WalletDisabled
<1>16. ASSUME NEW h \in Handlers, WalletChanged(h)
      PROVE  operation' \in [Handlers -> OperationType]
  BY <1>16, EndedType DEF WalletChanged
<1>17. ASSUME NEW h \in Handlers, WalletReady(h)
      PROVE  operation' \in [Handlers -> OperationType]
  BY <1>17, GoTyped DEF WalletReady
<1>18. ASSUME NEW h \in Handlers, NoTrade(h)
      PROVE  operation' \in [Handlers -> OperationType]
  BY <1>18, EndedType DEF NoTrade
<1>19. ASSUME NEW h \in Handlers, Preflighted(h)
      PROVE  operation' \in [Handlers -> OperationType]
  BY <1>19, GoTyped DEF Preflighted
<1>20. ASSUME NEW h \in Handlers, Sign(h)
      PROVE  operation' \in [Handlers -> OperationType]
  BY <1>20, GoTyped DEF Sign
<1>21. ASSUME NEW h \in Handlers, Signed(h)
      PROVE  operation' \in [Handlers -> OperationType]
  BY <1>21, GoTyped DEF Signed
<1>22. ASSUME NEW h \in Handlers, Executed(h)
      PROVE  operation' \in [Handlers -> OperationType]
  BY <1>22, GoTyped DEF Executed
<1>23. ASSUME NEW h \in Handlers, Send(h)
      PROVE  operation' \in [Handlers -> OperationType]
  BY <1>23, GoTyped DEF Send
<1>24. ASSUME NEW h \in Handlers, Request(h)
      PROVE  operation' \in [Handlers -> OperationType]
  BY <1>24, GoTyped DEF Request
<1>25. ASSUME NEW h \in Handlers, Answered(h)
      PROVE  operation' \in [Handlers -> OperationType]
  BY <1>25, GoTyped DEF Answered
<1>26. ASSUME NEW h \in Handlers, Unknown(h)
      PROVE  operation' \in [Handlers -> OperationType]
  BY <1>26, EndedType DEF Unknown
<1>27. ASSUME NEW h \in Handlers, TradeFails(h)
      PROVE  operation' \in [Handlers -> OperationType]
  BY <1>27, EndedType DEF TradeFails
<1>28. ASSUME NEW h \in Handlers, Receipt(h)
      PROVE  operation' \in [Handlers -> OperationType]
  BY <1>28, EndedType DEF Receipt
<1>29. ASSUME NEW h \in Handlers, QueueApprove(h)
      PROVE  operation' \in [Handlers -> OperationType]
  BY <1>29, GoTyped DEF QueueApprove
<1>30. ASSUME NEW h \in Handlers, Approve(h)
      PROVE  operation' \in [Handlers -> OperationType]
  BY <1>30, GoTyped DEF Approve
<1>31. ASSUME NEW h \in Handlers, EndApprove(h)
      PROVE  operation' \in [Handlers -> OperationType]
  BY <1>31, EndedType DEF EndApprove
<1>32. ASSUME NEW h \in Handlers, QueueRevoke(h)
      PROVE  operation' \in [Handlers -> OperationType]
  BY <1>32, GoTyped DEF QueueRevoke
<1>33. ASSUME NEW h \in Handlers, Revoke(h)
      PROVE  operation' \in [Handlers -> OperationType]
  BY <1>33, EndedType DEF Revoke
<1>34. ASSUME NEW h \in Handlers, NotQueued(h)
      PROVE  operation' \in [Handlers -> OperationType]
  BY <1>34, EndedType DEF NotQueued
<1>35. ASSUME NEW h \in Handlers, CheckRecover(h)
      PROVE  operation' \in [Handlers -> OperationType]
  <2>1. [operation[h] EXCEPT !.at = "recoverable", !.seen = session] \in OperationType
    BY DEF Items
  <2>2. \/ operation' = [operation EXCEPT ![h] = [operation[h] EXCEPT !.at = "recoverable", !.seen = session]]
        \/ operation' = [operation EXCEPT ![h] = Ended]
    BY <1>35 DEF CheckRecover
  <2> QED
    BY <2>1, <2>2, EndedType
<1>36. ASSUME NEW h \in Handlers, Transfer(h)
      PROVE  operation' \in [Handlers -> OperationType]
  BY <1>36, GoTyped DEF Transfer
<1>37. ASSUME NEW h \in Handlers, Transferred(h)
      PROVE  operation' \in [Handlers -> OperationType]
  BY <1>37, EndedType DEF Transferred
<1>38. ASSUME NEW h \in Handlers, RecoverFails(h)
      PROVE  operation' \in [Handlers -> OperationType]
  BY <1>38, EndedType DEF RecoverFails
<1> QED
  BY <1>1, <1>2, <1>3, <1>4, <1>5, <1>6, <1>7, <1>8, <1>9, <1>10, <1>11, <1>12, <1>13,
     <1>14, <1>15, <1>16, <1>17, <1>18, <1>19, <1>20, <1>21, <1>22, <1>23, <1>24, <1>25,
     <1>26, <1>27, <1>28, <1>29, <1>30, <1>31, <1>32, <1>33, <1>34, <1>35, <1>36, <1>37,
     <1>38 DEF Next, Step, Reconciles

\* Trades, recoveries, requests and receipts have their types.
LEMMA RowsTypeStep ==
    ASSUME Inv, [Next]_vars
    PROVE  RowsTyped'
<1> USE DEF Inv, TypeOK, RowsTyped, TradeType, RecoveryType, InFlight, Row, At, Go, End, stores,
        world
<1>1. CASE Authorize \/ Expire \/ (\E i \in Items : Mine(i)) \/ UNCHANGED vars
  BY <1>1 DEF Authorize, Authorized, Expire, Mine, vars, stores, world
<1>2. CASE Crash
  BY <1>2 DEF Crash
<1>3. ASSUME NEW h \in Handlers, Reconciles(h)
      PROVE  RowsTyped'
  BY <1>3, ReconcileRows DEF Continues, Writes
<1>4. ASSUME NEW h \in Handlers, NEW p \in Proposals, Reserve(h, p)
      PROVE  RowsTyped'
  <2>1. \E t \in TradeType : trades' = [trades EXCEPT ![p] = t]
    BY <1>4 DEF Reserve
  <2> QED
    BY <1>4, <2>1 DEF Reserve
<1>5. ASSUME NEW h \in Handlers, NEW r \in Recoveries, ClaimRecovery(h, r)
      PROVE  RowsTyped'
  BY <1>5 DEF ClaimRecovery, Row
<1>6. ASSUME NEW h \in Handlers, BeginRestore(h)
      PROVE  RowsTyped'
  BY <1>6 DEF BeginRestore, Begin
<1>7. ASSUME NEW h \in Handlers, Refresh(h)
      PROVE  RowsTyped'
  BY <1>7 DEF Refresh, BeginReconcile, BeginWith
<1>8. ASSUME NEW h \in Handlers, Start(h)
      PROVE  RowsTyped'
  BY <1>8 DEF Start, BeginReconcile, BeginWith
<1>9. ASSUME NEW h \in Handlers, WorkerTick(h)
      PROVE  RowsTyped'
  BY <1>9 DEF WorkerTick, BeginReconcile, BeginWith
<1>10. ASSUME NEW h \in Handlers, BeginApprove(h)
      PROVE  RowsTyped'
  BY <1>10 DEF BeginApprove, BeginWith
<1>11. ASSUME NEW h \in Handlers, BeginStop(h)
      PROVE  RowsTyped'
  BY <1>11 DEF BeginStop, Begin
<1>12. ASSUME NEW h \in Handlers, BeginRecover(h)
      PROVE  RowsTyped'
  BY <1>12 DEF BeginRecover, BeginReconcile, BeginWith
<1>13. ASSUME NEW h \in Handlers, Restore(h)
      PROVE  RowsTyped'
  BY <1>13 DEF Restore
<1>14. ASSUME NEW h \in Handlers, CheckTick(h)
      PROVE  RowsTyped'
  BY <1>14 DEF CheckTick
<1>15. ASSUME NEW h \in Handlers, WalletDisabled(h)
      PROVE  RowsTyped'
  BY <1>15 DEF WalletDisabled
<1>16. ASSUME NEW h \in Handlers, WalletChanged(h)
      PROVE  RowsTyped'
  BY <1>16 DEF WalletChanged
<1>17. ASSUME NEW h \in Handlers, WalletReady(h)
      PROVE  RowsTyped'
  BY <1>17 DEF WalletReady
<1>18. ASSUME NEW h \in Handlers, NoTrade(h)
      PROVE  RowsTyped'
  BY <1>18 DEF NoTrade
<1>19. ASSUME NEW h \in Handlers, Preflighted(h)
      PROVE  RowsTyped'
  BY <1>19 DEF Preflighted
<1>20. ASSUME NEW h \in Handlers, Sign(h)
      PROVE  RowsTyped'
  BY <1>20 DEF Sign
<1>21. ASSUME NEW h \in Handlers, Signed(h)
      PROVE  RowsTyped'
  BY <1>21 DEF Signed
<1>22. ASSUME NEW h \in Handlers, Executed(h)
      PROVE  RowsTyped'
  BY <1>22 DEF Executed
<1>23. ASSUME NEW h \in Handlers, Send(h)
      PROVE  RowsTyped'
  BY <1>23 DEF Send
<1>24. ASSUME NEW h \in Handlers, Request(h)
      PROVE  RowsTyped'
  <2>1. operation[h].item \in Items
    BY <1>24 DEF Request, TradeInv, Owned, Items
  <2> QED
    BY <1>24, <2>1 DEF Request
<1>25. ASSUME NEW h \in Handlers, Answered(h)
      PROVE  RowsTyped'
  BY <1>25 DEF Answered
<1>26. ASSUME NEW h \in Handlers, Unknown(h)
      PROVE  RowsTyped'
  BY <1>26 DEF Unknown
<1>27. ASSUME NEW h \in Handlers, TradeFails(h)
      PROVE  RowsTyped'
  <2>1. \/ trades' = trades
        \/ trades' = [trades EXCEPT ![operation[h].item].status = "RELEASED"]
    BY <1>27 DEF TradeFails, Release
  <2> QED
    BY <1>27, <2>1 DEF TradeFails
<1>28. ASSUME NEW h \in Handlers, Receipt(h)
      PROVE  RowsTyped'
  <2>1. Row(Outcome(mined[operation[h].item]), TRUE) \in TradeType
    BY DEF Outcome
  <2>2. \/ trades' = trades
        \/ trades' = [trades EXCEPT ![operation[h].item] =
                                 Row(Outcome(mined[operation[h].item]), TRUE)]
    BY <1>28 DEF Receipt
  <2> QED
    BY <1>28, <2>1, <2>2 DEF Receipt
<1>29. ASSUME NEW h \in Handlers, QueueApprove(h)
      PROVE  RowsTyped'
  BY <1>29 DEF QueueApprove
<1>30. ASSUME NEW h \in Handlers, Approve(h)
      PROVE  RowsTyped'
  BY <1>30 DEF Approve
<1>31. ASSUME NEW h \in Handlers, EndApprove(h)
      PROVE  RowsTyped'
  BY <1>31 DEF EndApprove
<1>32. ASSUME NEW h \in Handlers, QueueRevoke(h)
      PROVE  RowsTyped'
  BY <1>32 DEF QueueRevoke
<1>33. ASSUME NEW h \in Handlers, Revoke(h)
      PROVE  RowsTyped'
  BY <1>33 DEF Revoke
<1>34. ASSUME NEW h \in Handlers, NotQueued(h)
      PROVE  RowsTyped'
  BY <1>34 DEF NotQueued
<1>35. ASSUME NEW h \in Handlers, CheckRecover(h)
      PROVE  RowsTyped'
  BY <1>35 DEF CheckRecover
<1>36. ASSUME NEW h \in Handlers, Transfer(h)
      PROVE  RowsTyped'
  <2>1. operation[h].item \in Items
    BY <1>36 DEF Transfer, RecoveryInv, Items
  <2> QED
    BY <1>36, <2>1 DEF Transfer
<1>37. ASSUME NEW h \in Handlers, Transferred(h)
      PROVE  RowsTyped'
  <2>1. \E status \in {"SUBMITTED", "CONFIRMED", "REVERTED"} :
           recoveries' = [recoveries EXCEPT ![operation[h].item] = Row(status, TRUE)]
    BY <1>37 DEF Transferred, Outcome
  <2> QED
    BY <1>37, <2>1 DEF Transferred
<1>38. ASSUME NEW h \in Handlers, RecoverFails(h)
      PROVE  RowsTyped'
  BY <1>38 DEF RecoverFails
<1> QED
  BY <1>1, <1>2, <1>3, <1>4, <1>5, <1>6, <1>7, <1>8, <1>9, <1>10, <1>11, <1>12, <1>13,
     <1>14, <1>15, <1>16, <1>17, <1>18, <1>19, <1>20, <1>21, <1>22, <1>23, <1>24, <1>25,
     <1>26, <1>27, <1>28, <1>29, <1>30, <1>31, <1>32, <1>33, <1>34, <1>35, <1>36, <1>37,
     <1>38 DEF Next, Step, Reconciles

\* The queue and the flags have their types.
LEMMA QueueTypeStep ==
    ASSUME Inv, [Next]_vars
    PROVE  QueueTyped'
<1> USE DEF Inv, TypeOK, QueueTyped, At, Go, End, Queue, Leave, stores, world
<1>1. CASE Authorize \/ Expire \/ (\E i \in Items : Mine(i)) \/ UNCHANGED vars
  BY <1>1 DEF Authorize, Authorized, Expire, Mine, vars, stores, world
<1>2. CASE Crash
  BY <1>2 DEF Crash
<1>3. ASSUME NEW h \in Handlers, Reconciles(h)
      PROVE  QueueTyped'
  BY <1>3, ReconcileRows DEF Continues, Writes
<1>4. ASSUME NEW h \in Handlers, NEW p \in Proposals, Reserve(h, p)
      PROVE  QueueTyped'
  BY <1>4 DEF Reserve, Reservable, Row
<1>5. ASSUME NEW h \in Handlers, NEW r \in Recoveries, ClaimRecovery(h, r)
      PROVE  QueueTyped'
  BY <1>5 DEF ClaimRecovery, Row
<1>6. ASSUME NEW h \in Handlers, BeginRestore(h)
      PROVE  QueueTyped'
  BY <1>6 DEF BeginRestore, Begin
<1>7. ASSUME NEW h \in Handlers, Refresh(h)
      PROVE  QueueTyped'
  BY <1>7 DEF Refresh, BeginReconcile, BeginWith
<1>8. ASSUME NEW h \in Handlers, Start(h)
      PROVE  QueueTyped'
  BY <1>8 DEF Start, BeginReconcile, BeginWith
<1>9. ASSUME NEW h \in Handlers, WorkerTick(h)
      PROVE  QueueTyped'
  BY <1>9 DEF WorkerTick, BeginReconcile, BeginWith
<1>10. ASSUME NEW h \in Handlers, BeginApprove(h)
      PROVE  QueueTyped'
  BY <1>10 DEF BeginApprove, BeginWith
<1>11. ASSUME NEW h \in Handlers, BeginStop(h)
      PROVE  QueueTyped'
  BY <1>11 DEF BeginStop, Begin
<1>12. ASSUME NEW h \in Handlers, BeginRecover(h)
      PROVE  QueueTyped'
  BY <1>12 DEF BeginRecover, BeginReconcile, BeginWith
<1>13. ASSUME NEW h \in Handlers, Restore(h)
      PROVE  QueueTyped'
  <2>1. Tail(walletOperations) \in Seq(Handlers)
    BY <1>13, QueueTail DEF Restore, UsesSigner
  <2>2. stopConfirmed \in BOOLEAN /\ expired \in BOOLEAN /\ revoked \in BOOLEAN
    OBVIOUS
  <2> QED
    BY <1>13, <2>1, <2>2 DEF Restore
<1>14. ASSUME NEW h \in Handlers, CheckTick(h)
      PROVE  QueueTyped'
  BY <1>14 DEF CheckTick
<1>15. ASSUME NEW h \in Handlers, WalletDisabled(h)
      PROVE  QueueTyped'
  BY <1>15 DEF WalletDisabled
<1>16. ASSUME NEW h \in Handlers, WalletChanged(h)
      PROVE  QueueTyped'
  BY <1>16 DEF WalletChanged
<1>17. ASSUME NEW h \in Handlers, WalletReady(h)
      PROVE  QueueTyped'
  BY <1>17 DEF WalletReady
<1>18. ASSUME NEW h \in Handlers, NoTrade(h)
      PROVE  QueueTyped'
  BY <1>18 DEF NoTrade
<1>19. ASSUME NEW h \in Handlers, Preflighted(h)
      PROVE  QueueTyped'
  BY <1>19 DEF Preflighted
<1>20. ASSUME NEW h \in Handlers, Sign(h)
      PROVE  QueueTyped'
  BY <1>20 DEF Sign
<1>21. ASSUME NEW h \in Handlers, Signed(h)
      PROVE  QueueTyped'
  <2>1. Tail(walletOperations) \in Seq(Handlers)
    BY <1>21, QueueTail DEF Signed, UsesSigner
  <2>2. stopConfirmed \in BOOLEAN /\ expired \in BOOLEAN /\ revoked \in BOOLEAN
    OBVIOUS
  <2> QED
    BY <1>21, <2>1, <2>2 DEF Signed
<1>22. ASSUME NEW h \in Handlers, Executed(h)
      PROVE  QueueTyped'
  BY <1>22 DEF Executed
<1>23. ASSUME NEW h \in Handlers, Send(h)
      PROVE  QueueTyped'
  BY <1>23 DEF Send
<1>24. ASSUME NEW h \in Handlers, Request(h)
      PROVE  QueueTyped'
  BY <1>24 DEF Request
<1>25. ASSUME NEW h \in Handlers, Answered(h)
      PROVE  QueueTyped'
  <2>1. Tail(walletOperations) \in Seq(Handlers)
    BY <1>25, QueueTail DEF Answered, UsesSigner
  <2>2. stopConfirmed \in BOOLEAN /\ expired \in BOOLEAN /\ revoked \in BOOLEAN
    OBVIOUS
  <2> QED
    BY <1>25, <2>1, <2>2 DEF Answered
<1>26. ASSUME NEW h \in Handlers, Unknown(h)
      PROVE  QueueTyped'
  <2>1. CASE operation[h].at = "receipt"
    BY <1>26, <2>1 DEF Unknown
  <2>2. CASE operation[h].at \in {"sending", "sent"}
    BY <1>26, <2>2, QueueTail DEF Unknown, UsesSigner
  <2> QED
    BY <1>26, <2>1, <2>2 DEF Unknown
<1>27. ASSUME NEW h \in Handlers, TradeFails(h)
      PROVE  QueueTyped'
  <2>1. CASE operation[h].at \in {"preflight", "executing", "receipt"}
    BY <1>27, <2>1 DEF TradeFails
  <2>2. CASE operation[h].at \in {"sign", "send"}
    BY <1>27, <2>2, QueueTail DEF TradeFails
  <2>3. CASE operation[h].at \in {"signing", "sending"}
    BY <1>27, <2>3, QueueTail DEF TradeFails, UsesSigner
  <2> QED
    BY <1>27, <2>1, <2>2, <2>3 DEF TradeFails
<1>28. ASSUME NEW h \in Handlers, Receipt(h)
      PROVE  QueueTyped'
  BY <1>28 DEF Receipt
<1>29. ASSUME NEW h \in Handlers, QueueApprove(h)
      PROVE  QueueTyped'
  BY <1>29 DEF QueueApprove
<1>30. ASSUME NEW h \in Handlers, Approve(h)
      PROVE  QueueTyped'
  BY <1>30 DEF Approve
<1>31. ASSUME NEW h \in Handlers, EndApprove(h)
      PROVE  QueueTyped'
  <2>1. Tail(walletOperations) \in Seq(Handlers)
    BY <1>31, QueueTail DEF EndApprove, UsesSigner
  <2>2. stopConfirmed \in BOOLEAN /\ expired \in BOOLEAN /\ revoked \in BOOLEAN
    OBVIOUS
  <2> QED
    BY <1>31, <2>1, <2>2 DEF EndApprove
<1>32. ASSUME NEW h \in Handlers, QueueRevoke(h)
      PROVE  QueueTyped'
  BY <1>32 DEF QueueRevoke
<1>33. ASSUME NEW h \in Handlers, Revoke(h)
      PROVE  QueueTyped'
  <2>1. Tail(walletOperations) \in Seq(Handlers)
    BY <1>33, QueueTail DEF Revoke, UsesSigner
  <2>2. stopConfirmed \in BOOLEAN /\ expired \in BOOLEAN /\ revoked \in BOOLEAN
    OBVIOUS
  <2> QED
    BY <1>33, <2>1, <2>2 DEF Revoke
<1>34. ASSUME NEW h \in Handlers, NotQueued(h)
      PROVE  QueueTyped'
  BY <1>34 DEF NotQueued
<1>35. ASSUME NEW h \in Handlers, CheckRecover(h)
      PROVE  QueueTyped'
  BY <1>35 DEF CheckRecover
<1>36. ASSUME NEW h \in Handlers, Transfer(h)
      PROVE  QueueTyped'
  BY <1>36 DEF Transfer
<1>37. ASSUME NEW h \in Handlers, Transferred(h)
      PROVE  QueueTyped'
  BY <1>37 DEF Transferred
<1>38. ASSUME NEW h \in Handlers, RecoverFails(h)
      PROVE  QueueTyped'
  BY <1>38 DEF RecoverFails
<1> QED
  BY <1>1, <1>2, <1>3, <1>4, <1>5, <1>6, <1>7, <1>8, <1>9, <1>10, <1>11, <1>12, <1>13,
     <1>14, <1>15, <1>16, <1>17, <1>18, <1>19, <1>20, <1>21, <1>22, <1>23, <1>24, <1>25,
     <1>26, <1>27, <1>28, <1>29, <1>30, <1>31, <1>32, <1>33, <1>34, <1>35, <1>36, <1>37,
     <1>38 DEF Next, Step, Reconciles

LEMMA InvInit == Init => Inv
<1> SUFFICES ASSUME Init PROVE Inv
  OBVIOUS
<1> USE SessionAssumption DEF Init, Ended, NoRow, NoSession
<1>1. TypeOK
  <2>1. session \in SessionType /\ operation \in [Handlers -> OperationType]
    BY EndedType
  <2>2. trades \in [Proposals -> TradeType] /\ recoveries \in [Recoveries -> RecoveryType]
    BY DEF TradeType, RecoveryType, InFlight
  <2>3. walletOperations \in Seq(Handlers)
    OBVIOUS
  <2> QED
    BY <2>1, <2>2, <2>3 DEF TypeOK
<1>2. HoldersInv /\ GenerationInv /\ TodoInv
  BY DEF HoldersInv, UsesSigner, GenerationInv, Checked, Owned, TodoInv, Untouched
<1>3. TradeInv /\ RecoveryInv /\ StopIsFinal
  BY DEF TradeInv, Owned, SentIsAccounted, RecoveryInv, StopIsFinal
<1> QED
  BY <1>1, <1>2, <1>3 DEF Inv

LEMMA InvStep == Inv /\ [Next]_vars => Inv'
<1> SUFFICES ASSUME Inv, [Next]_vars PROVE Inv'
  OBVIOUS
<1>1. TypeOK'
  BY SessionTypeStep, OperationTypeStep, RowsTypeStep, QueueTypeStep
  DEF TypeOK, RowsTyped, QueueTyped
<1> QED
  BY <1>1, HoldersStep, GenerationStep, TodoStep, TradeStep, RecoveryStep, StopStep DEF Inv

\* The invariant holds in every reachable state.
THEOREM SessionInvariant == Spec => []Inv
<1> QED
  BY InvInit, InvStep, PTL DEF Spec

\* Every variable has the values its table, queue or promise can hold.
THEOREM TypeCorrect == Spec => []TypeOK
<1>1. Inv => TypeOK
  BY DEF Inv
<1> QED
  BY <1>1, SessionInvariant, PTL

\* Once the owner has read STOP_CONFIRMED the signer is not used for the session again,
\* whatever was in flight, wherever the process crashed, and when it is attached again.
THEOREM StopFinal == Spec => []StopIsFinal
<1>1. Inv => StopIsFinal
  BY DEF Inv
<1> QED
  BY <1>1, SessionInvariant, PTL

\* A trade that the provider was asked to send is never written down as released.
THEOREM SentAccounted == Spec => []SentIsAccounted
<1>1. Inv => SentIsAccounted
  BY DEF Inv, TradeInv
<1> QED
  BY <1>1, SessionInvariant, PTL

\* Two operations never use the session's signer at once; a recovery's transfer, which
\* the owner authorizes outside the queue, is none of these uses.
THEOREM WalletExclusive == Spec => []OneUsesWallet
<1>1. Inv => OneUsesWallet
  BY DEF Inv, HoldersInv, HasWallet, OneUsesWallet
<1> QED
  BY <1>1, SessionInvariant, PTL

\* After a stop the funds are not transferred while a trade is being sent.
THEOREM RecoveryAlone == Spec => []NoTradeDuringRecovery
<1>1. Inv => NoTradeDuringRecovery
  BY DEF Inv, RecoveryInv, NoTradeDuringRecovery
<1> QED
  BY <1>1, SessionInvariant, PTL

\* An authorization to recover is transferred once, whatever its retries.
THEOREM RecoveryOnce == Spec => []RecoveredOnce
<1>1. Inv => RecoveredOnce
  BY DEF Inv, RecoveryInv, RecoveredOnce
<1> QED
  BY <1>1, SessionInvariant, PTL

----------------------------------------------------------------------------
(* The queue of the wallet.                                                *)

\* A step of operation h keeps its place in the queue, joins it or, as the head, leaves.
Moves(h) ==
    /\ \A g \in Handlers \ {h} : operation'[g] = operation[g]
    /\ \/ walletOperations' = walletOperations /\ (InQueue(h)' <=> InQueue(h))
       \/ walletOperations' = Append(walletOperations, h) /\ ~InQueue(h) /\ InQueue(h)'
       \/ /\ walletOperations' = Tail(walletOperations)
          /\ HasWallet(h) /\ InQueue(h) /\ ~InQueue(h)'

\* Without its head, a queue that holds each once holds all but the head.
LEMMA TailOf ==
    ASSUME NEW S, NEW q \in Seq(S), q # <<>>,
           \A i, j \in DOMAIN q : q[i] = q[j] => i = j
    PROVE  /\ \A i, j \in DOMAIN Tail(q) : Tail(q)[i] = Tail(q)[j] => i = j
           /\ \A g : (\E i \in DOMAIN Tail(q) : Tail(q)[i] = g)
                      <=> g # Head(q) /\ \E i \in DOMAIN q : q[i] = g
<1> DEFINE n == Len(q)
           r == Tail(q)
<1>1. n \in Nat /\ n # 0 /\ DOMAIN q = 1 .. n
  OBVIOUS
<1>2. Head(q) = q[1]
  OBVIOUS
<1>3. r \in Seq(S) /\ Len(r) = n - 1
  BY <1>1
<1>4. DOMAIN r = 1 .. n - 1
  BY <1>3
<1>5. \A i \in 1 .. n - 1 : r[i] = q[i + 1]
  BY <1>1
<1> HIDE DEF n, r
<1>6. \A i, j \in DOMAIN r : r[i] = r[j] => i = j
  BY <1>1, <1>4, <1>5
<1>7. ASSUME NEW i \in DOMAIN r
      PROVE  i + 1 \in DOMAIN q /\ q[i + 1] = r[i] /\ q[i + 1] # q[1]
  BY <1>1, <1>4, <1>5
<1>8. ASSUME NEW i \in DOMAIN q, q[i] # q[1]
      PROVE  i - 1 \in DOMAIN r /\ r[i - 1] = q[i]
  BY <1>1, <1>4, <1>5, <1>8
<1>9. ASSUME NEW g
      PROVE  (\E i \in DOMAIN r : r[i] = g)
                <=> g # Head(q) /\ \E i \in DOMAIN q : q[i] = g
  BY <1>2, <1>7, <1>8
<1> QED
  BY <1>6, <1>9 DEF r

LEMMA MovesKeepQueue ==
    ASSUME TypeOK, QueueIsLive, NEW h \in Handlers, Moves(h)
    PROVE  QueueIsLive'
<1> USE DEF Moves, InQueue, QueueIsLive
<1>1. walletOperations \in Seq(Handlers)
  BY DEF TypeOK
<1>2. CASE walletOperations' = walletOperations
  BY <1>1, <1>2
<1>3. CASE /\ walletOperations' = Append(walletOperations, h)
           /\ ~InQueue(h) /\ InQueue(h)'
  BY <1>1, <1>3
<1>4. CASE /\ walletOperations' = Tail(walletOperations)
           /\ HasWallet(h) /\ InQueue(h) /\ ~InQueue(h)'
  <2>1. walletOperations # <<>> /\ Head(walletOperations) = h
    BY <1>4 DEF HasWallet
  <2>2. \A i, j \in DOMAIN walletOperations' :
           walletOperations'[i] = walletOperations'[j] => i = j
    BY <1>1, <1>4, <2>1, TailOf
  <2>3. ASSUME NEW g \in Handlers
        PROVE  (\E i \in DOMAIN walletOperations' : walletOperations'[i] = g)
                  <=> g # h /\ \E i \in DOMAIN walletOperations : walletOperations[i] = g
    <3>1. \A i, j \in DOMAIN walletOperations :
             walletOperations[i] = walletOperations[j] => i = j
      OBVIOUS
    <3>2. (\E i \in DOMAIN Tail(walletOperations) : Tail(walletOperations)[i] = g)
             <=> g # Head(walletOperations)
                  /\ \E i \in DOMAIN walletOperations : walletOperations[i] = g
      <4> HIDE DEF QueueIsLive, InQueue, Moves
      <4> QED
        BY <1>1, <2>1, <3>1, TailOf, Zenon
    <3> QED
      BY <1>4, <2>1, <3>2, Zenon
  <2>4. \A g \in Handlers \ {h} : InQueue(g)' <=> InQueue(g)
    OBVIOUS
  <2> HIDE DEF InQueue, Moves
  <2> QED
    BY <1>4, <2>2, <2>3, <2>4
<1> QED
  BY <1>2, <1>3, <1>4

LEMMA QueueStep ==
    ASSUME Inv, QueueIsLive, [Next]_vars
    PROVE  QueueIsLive'
<1> USE DEF Inv, HoldersInv, UsesSigner, HasWallet, InQueue, TypeOK, OperationType, Ended, At,
        Go, End, Queue, Leave, stores, Moves
<1>1. CASE Authorize \/ Expire \/ (\E i \in Items : Mine(i)) \/ UNCHANGED vars
  BY <1>1 DEF Authorize, Authorized, Expire, Mine, vars, stores, world, QueueIsLive
<1>2. CASE Crash
  BY <1>2 DEF Crash, QueueIsLive
<1>3. ASSUME NEW h \in Handlers, Reconciles(h)
      PROVE  Moves(h)
  BY <1>3, ReconcileOperation, ReconcileSession, ReconcileRows DEF Continues, Writes
<1>4. ASSUME NEW h \in Handlers, NEW p \in Proposals, Reserve(h, p)
      PROVE  Moves(h)
  <2>1. CASE session.generation = operation[h].seen.generation
    BY <1>4, <2>1 DEF Reserve
  <2>2. CASE session.generation # operation[h].seen.generation
    BY <1>4, <2>2 DEF Reserve
  <2> QED
    BY <2>1, <2>2
<1>5. ASSUME NEW h \in Handlers, NEW r \in Recoveries, ClaimRecovery(h, r)
      PROVE  Moves(h)
  BY <1>5 DEF ClaimRecovery, Row
<1>6. ASSUME NEW h \in Handlers, BeginRestore(h)
      PROVE  Moves(h)
  BY <1>6 DEF BeginRestore, Begin
<1>7. ASSUME NEW h \in Handlers, Refresh(h)
      PROVE  Moves(h)
  BY <1>7 DEF Refresh, BeginReconcile, BeginWith
<1>8. ASSUME NEW h \in Handlers, Start(h)
      PROVE  Moves(h)
  BY <1>8 DEF Start, BeginReconcile, BeginWith
<1>9. ASSUME NEW h \in Handlers, WorkerTick(h)
      PROVE  Moves(h)
  BY <1>9 DEF WorkerTick, BeginReconcile, BeginWith
<1>10. ASSUME NEW h \in Handlers, BeginApprove(h)
      PROVE  Moves(h)
  BY <1>10 DEF BeginApprove, BeginWith
<1>11. ASSUME NEW h \in Handlers, BeginStop(h)
      PROVE  Moves(h)
  BY <1>11 DEF BeginStop, Begin
<1>12. ASSUME NEW h \in Handlers, BeginRecover(h)
      PROVE  Moves(h)
  BY <1>12 DEF BeginRecover, BeginReconcile, BeginWith
<1>13. ASSUME NEW h \in Handlers, Restore(h)
      PROVE  Moves(h)
  BY <1>13 DEF Restore
<1>14. ASSUME NEW h \in Handlers, CheckTick(h)
      PROVE  Moves(h)
  BY <1>14 DEF CheckTick
<1>15. ASSUME NEW h \in Handlers, WalletDisabled(h)
      PROVE  Moves(h)
  BY <1>15 DEF WalletDisabled
<1>16. ASSUME NEW h \in Handlers, WalletChanged(h)
      PROVE  Moves(h)
  BY <1>16 DEF WalletChanged
<1>17. ASSUME NEW h \in Handlers, WalletReady(h)
      PROVE  Moves(h)
  BY <1>17 DEF WalletReady
<1>18. ASSUME NEW h \in Handlers, NoTrade(h)
      PROVE  Moves(h)
  BY <1>18 DEF NoTrade
<1>19. ASSUME NEW h \in Handlers, Preflighted(h)
      PROVE  Moves(h)
  BY <1>19 DEF Preflighted
<1>20. ASSUME NEW h \in Handlers, Sign(h)
      PROVE  Moves(h)
  BY <1>20 DEF Sign
<1>21. ASSUME NEW h \in Handlers, Signed(h)
      PROVE  Moves(h)
  BY <1>21 DEF Signed
<1>22. ASSUME NEW h \in Handlers, Executed(h)
      PROVE  Moves(h)
  BY <1>22 DEF Executed
<1>23. ASSUME NEW h \in Handlers, Send(h)
      PROVE  Moves(h)
  BY <1>23 DEF Send
<1>24. ASSUME NEW h \in Handlers, Request(h)
      PROVE  Moves(h)
  BY <1>24 DEF Request
<1>25. ASSUME NEW h \in Handlers, Answered(h)
      PROVE  Moves(h)
  BY <1>25 DEF Answered
<1>26. ASSUME NEW h \in Handlers, Unknown(h)
      PROVE  Moves(h)
  BY <1>26 DEF Unknown
<1>27. ASSUME NEW h \in Handlers, TradeFails(h)
      PROVE  Moves(h)
  BY <1>27 DEF TradeFails
<1>28. ASSUME NEW h \in Handlers, Receipt(h)
      PROVE  Moves(h)
  BY <1>28 DEF Receipt
<1>29. ASSUME NEW h \in Handlers, QueueApprove(h)
      PROVE  Moves(h)
  BY <1>29 DEF QueueApprove
<1>30. ASSUME NEW h \in Handlers, Approve(h)
      PROVE  Moves(h)
  BY <1>30 DEF Approve
<1>31. ASSUME NEW h \in Handlers, EndApprove(h)
      PROVE  Moves(h)
  BY <1>31 DEF EndApprove
<1>32. ASSUME NEW h \in Handlers, QueueRevoke(h)
      PROVE  Moves(h)
  BY <1>32 DEF QueueRevoke
<1>33. ASSUME NEW h \in Handlers, Revoke(h)
      PROVE  Moves(h)
  BY <1>33 DEF Revoke
<1>34. ASSUME NEW h \in Handlers, NotQueued(h)
      PROVE  Moves(h)
  BY <1>34 DEF NotQueued
<1>35. ASSUME NEW h \in Handlers, CheckRecover(h)
      PROVE  Moves(h)
  BY <1>35 DEF CheckRecover
<1>36. ASSUME NEW h \in Handlers, Transfer(h)
      PROVE  Moves(h)
  BY <1>36 DEF Transfer
<1>37. ASSUME NEW h \in Handlers, Transferred(h)
      PROVE  Moves(h)
  BY <1>37 DEF Transferred
<1>38. ASSUME NEW h \in Handlers, RecoverFails(h)
      PROVE  Moves(h)
  BY <1>38 DEF RecoverFails
<1>39. CASE \E h \in Handlers : Moves(h)
  BY <1>39, MovesKeepQueue DEF Inv
<1> QED
  BY <1>1, <1>2, <1>3, <1>4, <1>5, <1>6, <1>7, <1>8, <1>9, <1>10, <1>11, <1>12, <1>13,
     <1>14, <1>15, <1>16, <1>17, <1>18, <1>19, <1>20, <1>21, <1>22, <1>23, <1>24, <1>25,
     <1>26, <1>27, <1>28, <1>29, <1>30, <1>31, <1>32, <1>33, <1>34, <1>35, <1>36, <1>37,
     <1>38, <1>39 DEF Next, Step, Reconciles

\* Nobody waits for the wallet behind an operation that is gone.
THEOREM QueueLive == Spec => []QueueIsLive
<1>1. Init => QueueIsLive
  BY DEF Init, Ended, QueueIsLive, InQueue
<1>2. Inv /\ QueueIsLive /\ [Next]_vars => QueueIsLive'
  BY QueueStep
<1> QED
  BY <1>1, <1>2, SessionInvariant, PTL DEF Spec

----------------------------------------------------------------------------
(* Sums over finite sets.                                                  *)
(*                                                                         *)
(* What MapThenSumSet returns is shown without induction over sets: of the *)
(* subsets for which a statement fails one is least, and it holds there.   *)

\* A set of subsets of a finite set has a least one.
LEMMA LeastSubset ==
    ASSUME NEW S, IsFiniteSet(S), NEW B, B \subseteq SUBSET S, B # {}
    PROVE  \E T \in B : \A U \in B : U \subseteq T => U = T
<1> DEFINE R == StrictSubsetOrdering(S)
<1>1. IsWellFoundedOn(R, FiniteSubsetsOf(S)) /\ FiniteSubsetsOf(S) = SUBSET S
  BY FS_StrictSubsetOrderingWellFounded, FS_FiniteSubsetsOfFinite, Zenon
<1>2. IsWellFoundedOn(R, SUBSET S)
  BY <1>1, Zenon
<1> HIDE DEF R
<1>3. PICK T \in B : \A U \in B : ~(<<U, T>> \in R)
  BY <1>2, WFMin, Zenon
<1>4. ASSUME NEW U \in B, U \subseteq T, U # T PROVE <<U, T>> \in R
  <2>1. <<U, T>> \in (SUBSET S) \X (SUBSET S)
    OBVIOUS
  <2>2. <<U, T>>[1] = U /\ <<U, T>>[2] = T
    OBVIOUS
  <2> QED BY <1>4, <2>1, <2>2 DEF R, StrictSubsetOrdering
<1>5. \A U \in B : U \subseteq T => U = T
  BY <1>3, <1>4
<1> QED BY <1>5

\* The element MapThenSumSet takes first.
Any(s) == CHOOSE x \in s : TRUE

\* f has the sums of a over the subsets of T, taken as MapThenSumSet takes them.
Sums(f, a, T) ==
    f = [s \in SUBSET T |-> IF s = {} THEN 0 ELSE a[Any(s)] + f[s \ {Any(s)}]]

Sum(a, T) == MapThenSumSet(LAMBDA x : a[x], T)

\* That is how MapThenSumSet defines a sum, without saying that there are any.
LEMMA SumIs ==
    ASSUME NEW a, NEW T
    PROVE  Sum(a, T) = (CHOOSE f : Sums(f, a, T))[T]
BY DEF Sum, MapThenSumSet, MapThenFoldSet, Sums, Any

\* It is in the set, and the set without it is smaller.
LEMMA AnyIn ==
    ASSUME NEW T, NEW s \in SUBSET T, s # {}
    PROVE  Any(s) \in s /\ s \ {Any(s)} \in SUBSET T /\ s \ {Any(s)} # s
BY DEF Any

\* The sums over the subsets of a finite set are determined,
LEMMA SumsUnique ==
    ASSUME NEW a, NEW T, IsFiniteSet(T), NEW f, NEW g, Sums(f, a, T), Sums(g, a, T)
    PROVE  f = g
<1> DEFINE B == {s \in SUBSET T : f[s] # g[s]}
<1>1. f = [s \in SUBSET T |-> f[s]] /\ g = [s \in SUBSET T |-> g[s]]
  BY DEF Sums
<1>2. ASSUME NEW s \in B, \A U \in B : U \subseteq s => U = s PROVE FALSE
  <2>1. /\ f[s] = IF s = {} THEN 0 ELSE a[Any(s)] + f[s \ {Any(s)}]
        /\ g[s] = IF s = {} THEN 0 ELSE a[Any(s)] + g[s \ {Any(s)}]
    BY DEF Sums
  <2>2. s # {}
    BY <2>1
  <2>3. s \ {Any(s)} \in SUBSET T /\ s \ {Any(s)} # s /\ s \ {Any(s)} \subseteq s
    BY <2>2, AnyIn
  <2>4. s \ {Any(s)} \notin B
    BY <1>2, <2>3
  <2>5. f[s \ {Any(s)}] = g[s \ {Any(s)}]
    BY <2>3, <2>4
  <2> QED BY <2>1, <2>5
<1>3. B = {}
  <2> SUFFICES ASSUME B # {} PROVE FALSE
    OBVIOUS
  <2>1. B \subseteq SUBSET T
    OBVIOUS
  <2> HIDE DEF B
  <2>2. PICK s \in B : \A U \in B : U \subseteq s => U = s
    BY <2>1, LeastSubset
  <2> QED BY <1>2, <2>2
<1> QED BY <1>1, <1>3

\* those of a subset are among those of the set,
LEMMA SumsRestrict ==
    ASSUME NEW a, NEW T, NEW f, Sums(f, a, T), NEW U \in SUBSET T
    PROVE  Sums([s \in SUBSET U |-> f[s]], a, U)
<1> DEFINE g == [s \in SUBSET U |-> f[s]]
<1>1. ASSUME NEW s \in SUBSET U
      PROVE  g[s] = IF s = {} THEN 0 ELSE a[Any(s)] + g[s \ {Any(s)}]
  <2>1. s \in SUBSET T
    OBVIOUS
  <2>2. f[s] = IF s = {} THEN 0 ELSE a[Any(s)] + f[s \ {Any(s)}]
    BY <2>1 DEF Sums
  <2>3. s # {} => s \ {Any(s)} \in SUBSET U
    BY AnyIn
  <2> QED BY <2>2, <2>3
<1> QED BY <1>1 DEF Sums

\* and there are such sums.
LEMMA SumsExist ==
    ASSUME NEW a, NEW S, IsFiniteSet(S)
    PROVE  \E f : Sums(f, a, S)
<1> DEFINE B == {T \in SUBSET S : ~ \E f : Sums(f, a, T)}
           Of(T) == CHOOSE f : Sums(f, a, T)
<1>1. ASSUME NEW T \in B, \A U \in B : U \subseteq T => U = T PROVE FALSE
  <2> DEFINE F == [s \in SUBSET T |-> IF s = {} THEN 0
                                      ELSE a[Any(s)] + Of(s \ {Any(s)})[s \ {Any(s)}]]
  <2>1. T \in SUBSET S /\ IsFiniteSet(T)
    BY FS_Subset
  <2>2. ASSUME NEW U \in SUBSET T, U # T PROVE Sums(Of(U), a, U) /\ IsFiniteSet(U)
    <3>1. U \in SUBSET S /\ U \notin B
      BY <1>1, <2>1, <2>2
    <3>2. \E f : Sums(f, a, U)
      BY <3>1
    <3> QED BY <2>1, <3>2, FS_Subset
  <2> HIDE DEF Of
  <2>3. ASSUME NEW U \in SUBSET T, U # T PROVE F[U] = Of(U)[U]
    <3>1. Sums(Of(U), a, U)
      BY <2>2, <2>3
    <3>2. CASE U = {}
      <4>1. Of(U)[U] = 0
        BY <3>1, <3>2 DEF Sums
      <4> QED BY <3>2, <4>1
    <3>3. CASE U # {}
      <4> DEFINE W == U \ {Any(U)}
                 r == [s \in SUBSET W |-> Of(U)[s]]
      <4>1. W \in SUBSET U /\ W \in SUBSET T /\ W # T
        BY <2>3, <3>3, AnyIn
      <4>2. Sums(Of(W), a, W) /\ IsFiniteSet(W)
        BY <2>2, <4>1
      <4> HIDE DEF W
      <4>3. Sums(r, a, W)
        BY <3>1, <4>1, SumsRestrict
      <4> HIDE DEF r
      <4>4. r = Of(W)
        BY <4>2, <4>3, SumsUnique
      <4>5. Of(U)[W] = Of(W)[W]
        BY <4>4 DEF r
      <4>6. Of(U)[U] = a[Any(U)] + Of(U)[W]
        BY <3>1, <3>3 DEF Sums, W
      <4>7. F[U] = a[Any(U)] + Of(W)[W]
        BY <3>3 DEF W
      <4> QED BY <4>5, <4>6, <4>7
    <3> QED BY <3>2, <3>3
  <2>4. ASSUME NEW s \in SUBSET T
        PROVE  F[s] = IF s = {} THEN 0 ELSE a[Any(s)] + F[s \ {Any(s)}]
    <3>1. CASE s = {}
      BY <3>1
    <3>2. CASE s # {}
      <4>1. s \ {Any(s)} \in SUBSET T /\ s \ {Any(s)} # T
        BY <3>2, AnyIn
      <4>2. F[s \ {Any(s)}] = Of(s \ {Any(s)})[s \ {Any(s)}]
        BY <2>3, <4>1
      <4>3. F[s] = a[Any(s)] + Of(s \ {Any(s)})[s \ {Any(s)}]
        BY <3>2
      <4> HIDE DEF F
      <4> QED BY <3>2, <4>2, <4>3
    <3> QED BY <3>1, <3>2
  <2>5. F = [s \in SUBSET T |-> F[s]]
    OBVIOUS
  <2> HIDE DEF F
  <2>6. Sums(F, a, T)
    BY <2>4, <2>5 DEF Sums
  <2> QED BY <2>6
<1>2. B = {}
  <2> SUFFICES ASSUME B # {} PROVE FALSE
    OBVIOUS
  <2>1. B \subseteq SUBSET S
    OBVIOUS
  <2> HIDE DEF B
  <2>2. PICK T \in B : \A U \in B : U \subseteq T => U = T
    BY <2>1, LeastSubset
  <2> QED BY <1>1, <2>2
<1> QED BY <1>2

\* The sum over a set is an element's and the sum over the rest.
LEMMA SumStep ==
    ASSUME NEW a, NEW T, IsFiniteSet(T)
    PROVE  Sum(a, T) = IF T = {} THEN 0 ELSE a[Any(T)] + Sum(a, T \ {Any(T)})
<1> DEFINE Of(U) == CHOOSE f : Sums(f, a, U)
<1>1. ASSUME NEW U \in SUBSET T PROVE Sums(Of(U), a, U) /\ IsFiniteSet(U) /\ Sum(a, U) = Of(U)[U]
  BY FS_Subset, SumsExist, SumIs
<1> HIDE DEF Of
<1>2. Sums(Of(T), a, T) /\ Sum(a, T) = Of(T)[T]
  BY <1>1
<1>3. CASE T = {}
  BY <1>2, <1>3 DEF Sums
<1>4. CASE T # {}
  <2> DEFINE U == T \ {Any(T)}
             r == [s \in SUBSET U |-> Of(T)[s]]
  <2>1. U \in SUBSET T
    OBVIOUS
  <2>2. Of(T)[T] = a[Any(T)] + Of(T)[U]
    BY <1>2, <1>4 DEF Sums
  <2> HIDE DEF U
  <2> HIDE DEF r
  <2>3. Sums(r, a, U)
    <3>1. Sums(Of(T), a, T)
      BY <1>2
    <3> QED BY <2>1, <3>1, SumsRestrict DEF r
  <2>4. Sums(Of(U), a, U) /\ IsFiniteSet(U) /\ Sum(a, U) = Of(U)[U]
    BY <1>1, <2>1
  <2>5. r = Of(U)
    BY <2>3, <2>4, SumsUnique
  <2>6. Of(T)[U] = Of(U)[U]
    BY <2>5 DEF r
  <2> QED BY <1>2, <1>4, <2>2, <2>4, <2>6 DEF U
<1> QED BY <1>3, <1>4

\* The sum of natural numbers is one.
LEMMA SumIsNat ==
    ASSUME NEW S, IsFiniteSet(S), NEW a \in [S -> Nat]
    PROVE  \A T \in SUBSET S : Sum(a, T) \in Nat
<1> DEFINE B == {T \in SUBSET S : Sum(a, T) \notin Nat}
<1>1. ASSUME NEW T \in B, \A U \in B : U \subseteq T => U = T PROVE FALSE
  <2>1. T \in SUBSET S /\ IsFiniteSet(T)
    BY FS_Subset
  <2>2. T # {}
    <3>1. Sum(a, T) # 0
      OBVIOUS
    <3> HIDE DEF B
    <3> QED BY <2>1, <3>1, SumStep
  <2>3. Sum(a, T) = a[Any(T)] + Sum(a, T \ {Any(T)})
    BY <2>1, <2>2, SumStep
  <2>4. Any(T) \in S /\ T \ {Any(T)} \in SUBSET S /\ T \ {Any(T)} # T
    BY <2>1, <2>2, AnyIn
  <2>5. Sum(a, T \ {Any(T)}) \in Nat
    BY <1>1, <2>4
  <2> QED BY <2>3, <2>4, <2>5
<1>2. B = {}
  <2> SUFFICES ASSUME B # {} PROVE FALSE
    OBVIOUS
  <2>1. B \subseteq SUBSET S
    OBVIOUS
  <2> HIDE DEF B
  <2>2. PICK T \in B : \A U \in B : U \subseteq T => U = T
    BY <2>1, LeastSubset
  <2> QED BY <1>1, <2>2
<1> QED BY <1>2

\* Whichever element is taken out of a sum, the sum is it and the sum over the rest.
LEMMA SumRemove ==
    ASSUME NEW S, IsFiniteSet(S), NEW a \in [S -> Nat]
    PROVE  \A T \in SUBSET S : \A y \in T : Sum(a, T) = a[y] + Sum(a, T \ {y})
<1> DEFINE B == {T \in SUBSET S : \E y \in T : Sum(a, T) # a[y] + Sum(a, T \ {y})}
<1>1. ASSUME NEW T \in B, \A U \in B : U \subseteq T => U = T PROVE FALSE
  <2>1. T \in SUBSET S /\ IsFiniteSet(T)
    BY FS_Subset
  <2>2. PICK y \in T : Sum(a, T) # a[y] + Sum(a, T \ {y})
    OBVIOUS
  <2> DEFINE x == Any(T)
             U == T \ {x}
             V == T \ {y}
             W == T \ {x, y}
  <2>3. x \in T
    BY <2>1, AnyIn
  <2>4. Sum(a, T) = a[x] + Sum(a, U)
    BY <2>1, SumStep
  <2>5. x # y
    BY <2>2, <2>4
  <2>6. U \in SUBSET S /\ V \in SUBSET S /\ U \ {y} = W /\ V \ {x} = W /\ W \in SUBSET S
    BY <2>1
  <2>7. y \in U /\ x \in V /\ U # T /\ V # T /\ U \subseteq T /\ V \subseteq T
    BY <2>3, <2>5
  <2> HIDE DEF x, U, V, W
  <2>8. Sum(a, U) = a[y] + Sum(a, W)
    BY <1>1, <2>6, <2>7
  <2>9. Sum(a, V) = a[x] + Sum(a, W)
    BY <1>1, <2>6, <2>7
  <2>10. a[x] \in Nat /\ a[y] \in Nat /\ Sum(a, W) \in Nat
    BY <2>1, <2>3, <2>6, SumIsNat
  <2> QED BY <2>2, <2>4, <2>8, <2>9, <2>10 DEF V
<1>2. B = {}
  <2> SUFFICES ASSUME B # {} PROVE FALSE
    OBVIOUS
  <2>1. B \subseteq SUBSET S
    OBVIOUS
  <2> HIDE DEF B
  <2>2. PICK T \in B : \A U \in B : U \subseteq T => U = T
    BY <2>1, LeastSubset
  <2> QED BY <1>1, <2>2
<1> QED BY <1>2

----------------------------------------------------------------------------
(* The ledger of the session: which trades are reserved, sent and          *)
(* released, and what the session has consumed.                            *)

Reserved(status) == status \notin {"NONE", "RELEASED"}

\* No trade is reserved, sent or released.
Undisturbed ==
    /\ \A p \in Proposals :
          \/ trades'[p].status = trades[p].status
          \/ Reserved(trades[p].status) /\ Reserved(trades'[p].status)
    /\ session'.count = session.count /\ session'.consumed = session.consumed
    /\ Proposals \cap requested' = Proposals \cap requested

\* One trade is reserved within the limits of the plan,
Reserves(p) ==
    /\ trades[p].status = "NONE" /\ Reserved(trades'[p].status)
    /\ session.count < MaxTrades /\ session.consumed + InputAmount[p] <= Budget
    /\ session'.count = session.count + 1
    /\ session'.consumed = session.consumed + InputAmount[p]
    /\ \A o \in Proposals \ {p} : trades'[o].status = trades[o].status
    /\ requested' = requested

\* or one that is reserved is handed to the provider,
Sends(p) ==
    /\ Reserved(trades[p].status) /\ p \notin requested
    /\ requested' = requested \cup {p}
    /\ UNCHANGED <<trades, session>>

\* or one that is reserved and was not handed to the provider is released.
Releases(p) ==
    /\ Reserved(trades[p].status) /\ p \notin requested
    /\ trades'[p].status = "RELEASED"
    /\ session'.count = IF session.count > 0 THEN session.count - 1 ELSE 0
    /\ session'.consumed = IF session.consumed >= InputAmount[p]
                           THEN session.consumed - InputAmount[p] ELSE 0
    /\ \A o \in Proposals \ {p} : trades'[o].status = trades[o].status
    /\ requested' = requested

\* No step does anything else to the ledger.
LEMMA LedgerStep ==
    ASSUME Inv, [Next]_vars
    PROVE  Undisturbed \/ \E p \in Proposals : Reserves(p) \/ Sends(p) \/ Releases(p)
<1> USE DEF Inv, TypeOK, OperationType, SessionType, At, Go, End, stores, world, Undisturbed,
        Reserved, WithState, Stopped
<1>1. CASE Authorize \/ Expire \/ (\E i \in Items : Mine(i)) \/ UNCHANGED vars
  BY <1>1 DEF Authorize, Authorized, Expire, Mine, vars
<1>2. CASE Crash
  BY <1>2 DEF Crash
<1>3. ASSUME NEW h \in Handlers, Reconciles(h)
      PROVE  Undisturbed
  BY <1>3, ReconcileRows, ReconcileSession DEF Writes, Untouched
<1>4. ASSUME NEW h \in Handlers, NEW p \in Proposals, Reserve(h, p)
      PROVE  Reserves(p)
  <2>1. session.generation = operation[h].seen.generation
    BY <1>4 DEF Reserve, Reservable, GenerationInv, Checked, Closing
  <2>2. /\ trades' = [trades EXCEPT ![p] = Row("SIGNING", FALSE)]
        /\ session' = [session EXCEPT !.consumed = @ + InputAmount[p], !.count = @ + 1]
        /\ requested' = requested
    BY <1>4, <2>1 DEF Reserve
  <2>3. trades'[p].status = "SIGNING"
    BY <2>2 DEF Row
  <2> QED
    BY <1>4, <2>2, <2>3 DEF Reserve, Reservable, Reserves
<1>5. ASSUME NEW h \in Handlers, NEW r \in Recoveries, ClaimRecovery(h, r)
      PROVE  Undisturbed
  BY <1>5 DEF ClaimRecovery
<1>6. ASSUME NEW h \in Handlers, BeginRestore(h)
      PROVE  Undisturbed
  BY <1>6 DEF BeginRestore, Begin
<1>7. ASSUME NEW h \in Handlers, Refresh(h)
      PROVE  Undisturbed
  BY <1>7 DEF Refresh, BeginReconcile, BeginWith
<1>8. ASSUME NEW h \in Handlers, Start(h)
      PROVE  Undisturbed
  BY <1>8 DEF Start, BeginReconcile, BeginWith
<1>9. ASSUME NEW h \in Handlers, WorkerTick(h)
      PROVE  Undisturbed
  BY <1>9 DEF WorkerTick, BeginReconcile, BeginWith
<1>10. ASSUME NEW h \in Handlers, BeginApprove(h)
      PROVE  Undisturbed
  BY <1>10 DEF BeginApprove, BeginWith
<1>11. ASSUME NEW h \in Handlers, BeginStop(h)
      PROVE  Undisturbed
  BY <1>11 DEF BeginStop, Begin
<1>12. ASSUME NEW h \in Handlers, BeginRecover(h)
      PROVE  Undisturbed
  BY <1>12 DEF BeginRecover, BeginReconcile, BeginWith
<1>13. ASSUME NEW h \in Handlers, Restore(h)
      PROVE  Undisturbed
  BY <1>13 DEF Restore, Authorized
<1>14. ASSUME NEW h \in Handlers, CheckTick(h)
      PROVE  Undisturbed
  BY <1>14 DEF CheckTick, TickRefused, Activated
<1>15. ASSUME NEW h \in Handlers, WalletDisabled(h)
      PROVE  Undisturbed
  BY <1>15 DEF WalletDisabled
<1>16. ASSUME NEW h \in Handlers, WalletChanged(h)
      PROVE  Undisturbed
  BY <1>16 DEF WalletChanged
<1>17. ASSUME NEW h \in Handlers, WalletReady(h)
      PROVE  Undisturbed
  BY <1>17 DEF WalletReady
<1>18. ASSUME NEW h \in Handlers, NoTrade(h)
      PROVE  Undisturbed
  BY <1>18 DEF NoTrade
<1>19. ASSUME NEW h \in Handlers, Preflighted(h)
      PROVE  Undisturbed
  BY <1>19 DEF Preflighted
<1>20. ASSUME NEW h \in Handlers, Sign(h)
      PROVE  Undisturbed
  BY <1>20 DEF Sign
<1>21. ASSUME NEW h \in Handlers, Signed(h)
      PROVE  Undisturbed
  BY <1>21 DEF Signed
<1>22. ASSUME NEW h \in Handlers, Executed(h)
      PROVE  Undisturbed
  BY <1>22 DEF Executed
<1>23. ASSUME NEW h \in Handlers, Send(h)
      PROVE  Undisturbed
  BY <1>23 DEF Send
<1>24. ASSUME NEW h \in Handlers, Request(h)
      PROVE  \E p \in Proposals : Sends(p)
  <2>1. /\ operation[h].item \in Proposals /\ operation[h].item \notin requested
        /\ trades[operation[h].item].status = "SIGNING"
    BY <1>24 DEF Request, TradeInv, Owned
  <2> QED
    BY <1>24, <2>1 DEF Request, Sends
<1>25. ASSUME NEW h \in Handlers, Answered(h)
      PROVE  Undisturbed
  <2>1. operation[h].item \in Proposals /\ Reserved(trades[operation[h].item].status)
    BY <1>25 DEF Answered, TradeInv, Owned, Untouched
  <2>2. \A receipt : Reserved(Outcome(receipt))
    BY DEF Outcome
  <2> QED
    BY <1>25, <2>1, <2>2 DEF Answered, Row
<1>26. ASSUME NEW h \in Handlers, Unknown(h)
      PROVE  Undisturbed
  <2>1. operation[h].item \in Proposals /\ Reserved(trades[operation[h].item].status)
    BY <1>26 DEF Unknown, TradeInv, Owned, Untouched
  <2>2. \A receipt : Reserved(Outcome(receipt))
    BY DEF Outcome
  <2> QED
    BY <1>26, <2>1, <2>2 DEF Unknown, Row
<1>27. ASSUME NEW h \in Handlers, TradeFails(h)
      PROVE  Undisturbed \/ \E p \in Proposals : Releases(p)
  <2> DEFINE p == operation[h].item
  <2>1. Release(p) /\ UNCHANGED <<recoveries, stopConfirmed, world>>
    BY <1>27 DEF TradeFails
  <2>2. CASE trades[p].status # "SIGNING"
    BY <2>1, <2>2 DEF Release
  <2>3. CASE trades[p].status = "SIGNING"
    <3>1. p \in Proposals /\ p \notin requested
      <4>1. operation[h].at \in (Owned \cup {"receipt"}) \ {"sent"}
        BY <1>27 DEF TradeFails, Owned
      <4>2. operation[h].at # "receipt"
        BY <2>3 DEF TradeInv, Untouched
      <4>3. operation[h].at \in Owned /\ operation[h].at # "sent"
        BY <4>1, <4>2
      <4> QED
        BY <4>3 DEF TradeInv
    <3> HIDE DEF p
    <3>2. Releases(p)
      <4>1. /\ trades' = [trades EXCEPT ![p].status = "RELEASED"]
            /\ session' = [session EXCEPT
                             !.consumed = IF @ >= InputAmount[p] THEN @ - InputAmount[p] ELSE 0,
                             !.count = IF @ > 0 THEN @ - 1 ELSE 0]
            /\ requested' = requested
        BY <2>1, <2>3 DEF Release
      <4>2. /\ trades'[p].status = "RELEASED"
            /\ \A o \in Proposals \ {p} : trades'[o].status = trades[o].status
        BY <3>1, <4>1 DEF TradeType
      <4> QED
        BY <2>3, <3>1, <4>1, <4>2 DEF Releases
    <3> QED
      BY <3>1, <3>2
  <2> QED
    BY <2>2, <2>3
<1>28. ASSUME NEW h \in Handlers, Receipt(h)
      PROVE  Undisturbed
  <2>1. operation[h].item \in Proposals /\ Reserved(trades[operation[h].item].status)
    BY <1>28 DEF Receipt, TradeInv, Owned, Untouched
  <2>2. \A receipt : Reserved(Outcome(receipt))
    BY DEF Outcome
  <2> QED
    BY <1>28, <2>1, <2>2 DEF Receipt, Row
<1>29. ASSUME NEW h \in Handlers, QueueApprove(h)
      PROVE  Undisturbed
  BY <1>29 DEF QueueApprove
<1>30. ASSUME NEW h \in Handlers, Approve(h)
      PROVE  Undisturbed
  BY <1>30 DEF Approve
<1>31. ASSUME NEW h \in Handlers, EndApprove(h)
      PROVE  Undisturbed
  BY <1>31 DEF EndApprove
<1>32. ASSUME NEW h \in Handlers, QueueRevoke(h)
      PROVE  Undisturbed
  BY <1>32 DEF QueueRevoke
<1>33. ASSUME NEW h \in Handlers, Revoke(h)
      PROVE  Undisturbed
  BY <1>33 DEF Revoke
<1>34. ASSUME NEW h \in Handlers, NotQueued(h)
      PROVE  Undisturbed
  BY <1>34 DEF NotQueued
<1>35. ASSUME NEW h \in Handlers, CheckRecover(h)
      PROVE  Undisturbed
  BY <1>35 DEF CheckRecover
<1>36. ASSUME NEW h \in Handlers, Transfer(h)
      PROVE  Undisturbed
  <2>1. operation[h].item \notin Proposals
    BY <1>36, SessionAssumption DEF Transfer, RecoveryInv
  <2> QED
    BY <1>36, <2>1 DEF Transfer
<1>37. ASSUME NEW h \in Handlers, Transferred(h)
      PROVE  Undisturbed
  BY <1>37 DEF Transferred
<1>38. ASSUME NEW h \in Handlers, RecoverFails(h)
      PROVE  Undisturbed
  BY <1>38 DEF RecoverFails
<1> QED
  BY <1>1, <1>2, <1>3, <1>4, <1>5, <1>6, <1>7, <1>8, <1>9, <1>10, <1>11, <1>12, <1>13,
     <1>14, <1>15, <1>16, <1>17, <1>18, <1>19, <1>20, <1>21, <1>22, <1>23, <1>24, <1>25,
     <1>26, <1>27, <1>28, <1>29, <1>30, <1>31, <1>32, <1>33, <1>34, <1>35, <1>36, <1>37,
     <1>38 DEF Next, Step, Reconciles

\* The budget in terms of Sum.
LEMMA BudgetIs ==
    BudgetMatchesTrades <=> /\ session.count = Cardinality(Unreleased)
                            /\ session.consumed = Sum(InputAmount, Unreleased)
  BY DEF BudgetMatchesTrades, Sum

\* Every step of the ledger keeps what the session has consumed equal to the input of
\* the trades that are not released.
LEMMA BudgetStep ==
    ASSUME Inv, Inv', BudgetMatchesTrades, [Next]_vars
    PROVE  BudgetMatchesTrades'
<1> DEFINE U == Unreleased
           V == Unreleased'
<1>1. /\ IsFiniteSet(Proposals) /\ InputAmount \in [Proposals -> Nat]
      /\ U \in SUBSET Proposals /\ V \in SUBSET Proposals
      /\ IsFiniteSet(U) /\ IsFiniteSet(V)
  BY SessionAssumption, FS_Subset DEF Unreleased
<1>2. session.count = Cardinality(U) /\ session.consumed = Sum(InputAmount, U)
  BY BudgetIs
<1>3. \A p \in Proposals : /\ p \in U <=> Reserved(trades[p].status)
                           /\ p \in V <=> Reserved(trades'[p].status)
  BY DEF Unreleased, Reserved
<1>4. (BudgetMatchesTrades <=> /\ session.count = Cardinality(Unreleased)
                               /\ session.consumed = Sum(InputAmount, Unreleased))'
  BY BudgetIs, PTL
<1>5. /\ Cardinality(U) \in Nat /\ Sum(InputAmount, U) \in Nat /\ Sum(InputAmount, V) \in Nat
      /\ \A p \in Proposals : InputAmount[p] \in Nat
  BY <1>1, FS_CardinalityType, SumIsNat
<1> HIDE DEF U, V
<1>6. ASSUME Undisturbed
      PROVE  session'.count = Cardinality(V) /\ session'.consumed = Sum(InputAmount, V)
  <2>1. U = V
    BY <1>1, <1>3, <1>6 DEF Undisturbed
  <2> QED
    BY <1>2, <1>6, <2>1 DEF Undisturbed
<1>7. ASSUME NEW p \in Proposals, Reserves(p)
      PROVE  session'.count = Cardinality(V) /\ session'.consumed = Sum(InputAmount, V)
  <2>1. V = U \cup {p} /\ p \notin U /\ p \in V /\ V \ {p} = U
    BY <1>1, <1>3, <1>7 DEF Reserves, Reserved
  <2>2. Cardinality(V) = Cardinality(U) + 1
    BY <1>1, <2>1, FS_AddElement
  <2>3. Sum(InputAmount, V) = InputAmount[p] + Sum(InputAmount, U)
    BY <1>1, <2>1, SumRemove
  <2> QED
    BY <1>2, <1>5, <1>7, <2>2, <2>3 DEF Reserves
<1>8. ASSUME NEW p \in Proposals, Sends(p)
      PROVE  session'.count = Cardinality(V) /\ session'.consumed = Sum(InputAmount, V)
  <2>1. U = V
    BY <1>1, <1>3, <1>8 DEF Sends
  <2> QED
    BY <1>2, <1>8, <2>1 DEF Sends
<1>9. ASSUME NEW p \in Proposals, Releases(p)
      PROVE  session'.count = Cardinality(V) /\ session'.consumed = Sum(InputAmount, V)
  <2>1. V = U \ {p} /\ p \in U
    BY <1>1, <1>3, <1>9 DEF Releases, Reserved
  <2>2. Cardinality(V) = Cardinality(U) - 1 /\ Cardinality(V) \in Nat
    BY <1>1, <2>1, FS_RemoveElement, FS_CardinalityType
  <2>3. Sum(InputAmount, U) = InputAmount[p] + Sum(InputAmount, V)
    BY <1>1, <2>1, SumRemove
  <2> QED
    BY <1>2, <1>5, <1>9, <2>2, <2>3 DEF Releases
<1>10. session'.count = Cardinality(V) /\ session'.consumed = Sum(InputAmount, V)
  BY <1>6, <1>7, <1>8, <1>9, LedgerStep
<1> QED
  BY <1>4, <1>10 DEF V

\* What the session has consumed is the input of the trades that were not released,
\* whichever operations reserve, release and reconcile at once and wherever the process
\* crashed.
THEOREM BudgetAccounted == Spec => []BudgetMatchesTrades
<1>1. Init => BudgetMatchesTrades
  <2> SUFFICES ASSUME Init PROVE BudgetMatchesTrades
    OBVIOUS
  <2>1. Unreleased = {} /\ session.count = 0 /\ session.consumed = 0
    BY DEF Init, Unreleased, NoRow, NoSession
  <2>2. Cardinality({}) = 0 /\ Sum(InputAmount, {}) = 0
    BY FS_EmptySet, SumStep
  <2> QED
    BY <2>1, <2>2, BudgetIs
<1>2. Inv /\ Inv' /\ BudgetMatchesTrades /\ [Next]_vars => BudgetMatchesTrades'
  BY BudgetStep
<1> QED
  BY <1>1, <1>2, SessionInvariant, PTL DEF Spec

----------------------------------------------------------------------------
(* The session implements SessionBudget.                                   *)

Held     == Unreleased \ requested
Sent     == Proposals \cap requested
Returned == {p \in Proposals : trades[p].status = "RELEASED"}

\* The sums and cardinalities of the abstract specification are the same.
LEMMA LedgerCardinality == ASSUME NEW T PROVE Ledger!Cardinality(T) = Cardinality(T)
  BY DEF Ledger!Cardinality, Cardinality

LEMMA LedgerInputs == ASSUME NEW T PROVE Ledger!Inputs(T) = Sum(InputAmount, T)
  BY DEF Ledger!Inputs, Sum, Ledger!MapThenSumSet, Ledger!MapThenFoldSet, MapThenSumSet,
         MapThenFoldSet

\* Every step of the session is a step of the ledger or none.
LEMMA LedgerSteps ==
    ASSUME Inv, Inv', BudgetMatchesTrades, [Next]_vars
    PROVE  [Ledger!Next]_(Ledger!ledger)
<1>1. /\ Sent \subseteq Unreleased /\ (Sent \subseteq Unreleased)'
      /\ requested \subseteq Items /\ requested' \subseteq Items
  BY DEF Inv, TradeInv, SentIsAccounted, Sent, Unreleased, TypeOK
<1>2. Held \cup Sent = Unreleased
  BY <1>1 DEF Held, Sent, Unreleased
<1>3. session.count = Cardinality(Unreleased) /\ session.consumed = Sum(InputAmount, Unreleased)
  BY BudgetIs
<1>4. \A p \in Proposals : /\ p \in Unreleased <=> Reserved(trades[p].status)
                           /\ p \in Unreleased' <=> Reserved(trades'[p].status)
  BY DEF Unreleased, Reserved
<1>5. /\ Unreleased \subseteq Proposals /\ Unreleased' \subseteq Proposals
      /\ Held' = Unreleased' \ requested' /\ Sent' = Proposals \cap requested'
      /\ Returned' = {p \in Proposals : trades'[p].status = "RELEASED"}
  BY DEF Unreleased, Held, Sent, Returned
<1>6. CASE Undisturbed
  <2>1. Unreleased' = Unreleased /\ Returned' = Returned /\ Sent' = Sent
    BY <1>4, <1>5, <1>6 DEF Undisturbed, Returned, Reserved, Sent
  <2>2. Held' = Held
    BY <1>5, <2>1 DEF Held, Sent
  <2> QED
    BY <2>1, <2>2 DEF Ledger!ledger, Held, Sent, Returned
<1>7. ASSUME NEW p \in Proposals, Reserves(p)
      PROVE  Ledger!Hold(p)
  <2>1. /\ Unreleased' = Unreleased \cup {p} /\ p \notin Unreleased
        /\ Returned' = Returned /\ p \notin Returned /\ requested' = requested
    BY <1>4, <1>5, <1>7 DEF Reserves, Reserved, Returned
  <2>2. p \notin Sent /\ Sent' = Sent /\ Held' = Held \cup {p}
    BY <1>1, <1>5, <2>1 DEF Held, Sent
  <2>3. Ledger!Cardinality(Held \cup Sent) < MaxTrades
    BY <1>2, <1>3, <1>7, LedgerCardinality DEF Reserves
  <2>4. Ledger!Inputs(Held \cup Sent \cup {p}) <= Budget
    <3>1. /\ IsFiniteSet(Proposals) /\ InputAmount \in [Proposals -> Nat]
          /\ Unreleased \in SUBSET Proposals /\ Unreleased \cup {p} \in SUBSET Proposals
          /\ (Unreleased \cup {p}) \ {p} = Unreleased
      BY <1>5, <2>1, SessionAssumption
    <3>2. Sum(InputAmount, Unreleased \cup {p}) = InputAmount[p] + Sum(InputAmount, Unreleased)
      BY <3>1, SumRemove
    <3>3. Sum(InputAmount, Unreleased) \in Nat /\ InputAmount[p] \in Nat
      BY <3>1, SumIsNat
    <3>4. Sum(InputAmount, Unreleased \cup {p}) <= Budget
      BY <1>3, <1>7, <3>2, <3>3 DEF Reserves
    <3> QED
      BY <1>2, <3>4, LedgerInputs
  <2> QED
    BY <1>1, <2>1, <2>2, <2>3, <2>4 DEF Ledger!Hold, Held, Sent, Returned
<1>8. ASSUME NEW p \in Proposals, Sends(p)
      PROVE  Ledger!Send(p)
  <2>1. /\ Unreleased' = Unreleased /\ Returned' = Returned /\ p \in Unreleased
        /\ Sent' = Sent \cup {p} /\ p \in Held /\ Held' = Held \ {p}
    BY <1>4, <1>5, <1>8 DEF Sends, Returned, Held, Sent
  <2> QED
    BY <2>1 DEF Ledger!Send, Held, Sent, Returned
<1>9. ASSUME NEW p \in Proposals, Releases(p)
      PROVE  Ledger!GiveBack(p)
  <2>1. /\ Unreleased' = Unreleased \ {p} /\ p \in Unreleased
        /\ Returned' = Returned \cup {p} /\ requested' = requested
    BY <1>4, <1>5, <1>9 DEF Releases, Reserved, Returned
  <2>2. Sent' = Sent /\ p \in Held /\ Held' = Held \ {p}
    BY <1>5, <1>9, <2>1 DEF Releases, Held, Sent
  <2> QED
    BY <2>1, <2>2 DEF Ledger!GiveBack, Held, Sent, Returned
<1> QED
  BY <1>6, <1>7, <1>8, <1>9, LedgerStep DEF Ledger!Next

\* The session keeps the promise of its limits: the input of every trade is put aside
\* within the budget and the number of trades of the plan before the trade is sent, and
\* given back only if it was never sent and never will be.
THEOREM BudgetKept == Spec => KeepsBudget
<1>1. Init => Ledger!Init
  BY DEF Init, NoRow, Unreleased, Ledger!Init
<1>2. Inv /\ Inv' /\ BudgetMatchesTrades /\ [Next]_vars => [Ledger!Next]_(Ledger!ledger)
  BY LedgerSteps
<1> QED
  BY <1>1, <1>2, SessionInvariant, BudgetAccounted, PTL DEF Spec, KeepsBudget, Ledger!Spec
=============================================================================
