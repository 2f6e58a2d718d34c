---------------------------- MODULE TradingAgents ----------------------------
(***************************************************************************)
(* packages/services/src/agent/trading-agents.ts: the trading agent of one *)
(* owner, from its provisioning to its archive, over the tables            *)
(* agent_provisioning_operations, trading_agents and                       *)
(* agent_funding_operations.                                               *)
(*                                                                         *)
(* Several processes serve requests over one database.  A process holds a  *)
(* request in flight in memory and joins a second one to it; two processes *)
(* know of each other by the database alone.  A step is the code between   *)
(* two awaits; where a funding reads a row and writes it back, or writes   *)
(* two tables, they are steps too, as another process or a crash may come  *)
(* between.  Calls of the provider and of the chain fail at any time, and  *)
(* the answer of a call that was carried out may be lost: the request then *)
(* fails at the step that would take the answer.                           *)
(*                                                                         *)
(* A configuration stands for what recoveryPolicyIdempotencyKey is made    *)
(* of.  The provider makes one policy of it, which has its name here, and  *)
(* the body of a request for a wallet is told apart by that policy; signer *)
(* and execution policy are the same in all configurations.                *)
(***************************************************************************)
EXTENDS Integers, FiniteSets, Sequences, FiniteSetsExt

CONSTANTS
    Processes, Configurations, None,
    OwnerKey,          \* the idempotency key of the owner's wallet
    Gone,              \* the holder of a lease that has restarted since
    FaucetConfigurations, \* those with a key of the faucet
    Batches,           \* the amounts an owner asks the faucet for
    GlobalMax,         \* the shared budget, the same for each asset
    MaxSends, MaxRestarts, MaxInFlight \* bounds of the model; requests at one time

Assets     == {"eth", "usdc", "weth"}
WalletKeys == {OwnerKey} \cup Configurations
Amounts    == [Assets -> Nat]

\* The columns of the tables that are followed; funding is fundingJson.
Operations == [state : {"PROVISIONING", "READY"},
               recoveryPolicy : Configurations \cup {None},
               wallet : WalletKeys \cup {None}]
Transactions == [asset : Assets, amount : Nat, number : Nat]
FundingRecords == [funded : Amounts, transactions : SUBSET Transactions,
                   pending : [Assets -> Int] \cup {None},
                   requested : Amounts \cup {None}, operation : Nat \cup {None}]
Agents == [wallet : WalletKeys, recoveryPolicy : Configurations,
           state : {"READY", "FUNDING", "ACTIVE", "STOPPED", "FAILED", "REVOKED"},
           funding : FundingRecords]

ASSUME AgentAssumption ==
    /\ {None, Gone} \cap (Processes \cup WalletKeys) = {} /\ None # Gone
    /\ None \notin Operations \cup Agents
    /\ OwnerKey \notin Configurations
    /\ FaucetConfigurations \subseteq Configurations
    /\ Batches \subseteq Amounts
    /\ \A b \in Batches : \E a \in Assets : b[a] > 0
    /\ {GlobalMax, MaxSends, MaxRestarts, MaxInFlight} \subseteq Nat

VARIABLES
    operation,         \* agent_provisioning_operations: the row of the owner
    lease,             \* who holds it; None when nobody does or it is over
    agent,             \* trading_agents: the row of the owner
    fundings,          \* agent_funding_operations
    configuration,     \* of each process
    provisioning, funding, archiving, \* the request each process has in flight
    keyBody,           \* provider: the body each idempotency key came with
    attached,          \* provider: the recovery policy of each wallet made
    signer,            \* provider: the wallets the signer is attached to
    sent, settled,     \* transactions of the faucet; those with a receipt
    session,           \* a session of the wallet is authorized or active
    restarts,          \* counted for the bound
    credited,          \* history, in no guard: what requests have credited
    raced              \* history, in no guard: two requests have funded the agent
                       \* at one time, or its row was saved anew

tables   == <<operation, lease, agent, fundings>>
requests == <<provisioning, funding, archiving>>
provider == <<keyBody, attached, signer>>
chain    == <<sent, settled>>
history  == <<credited, raced>>
vars     == <<tables, configuration, requests, provider, chain, session, restarts,
              history>>

Idle == [at |-> "idle", policy |-> None, wallet |-> None,
         readback |-> [policy |-> None, signer |-> FALSE]]
Nothing == [a \in Assets |-> 0]

\* seen is what a request read of the record.
NoFunding == [funded |-> Nothing, transactions |-> {}, pending |-> None,
              requested |-> None, operation |-> None]
NoRequest == [at |-> "idle", todo |-> {}, amounts |-> None, requested |-> None,
              operation |-> None, transaction |-> None, seen |-> NoFunding]

Init ==
    /\ operation = None /\ lease = None /\ agent = None /\ fundings = <<>>
    /\ \E c \in Configurations : configuration = [p \in Processes |-> c]
    /\ provisioning = [p \in Processes |-> Idle]
    /\ funding = [p \in Processes |-> NoRequest]
    /\ archiving = [p \in Processes |-> "idle"]
    /\ keyBody = [k \in WalletKeys |-> None]
    /\ attached = [k \in WalletKeys |-> None]
    /\ signer = {} /\ sent = {} /\ settled = {}
    /\ session = FALSE /\ restarts = 0
    /\ credited = {} /\ raced = FALSE

\* Bound of the model: requests in flight.
InFlight == Cardinality({p \in Processes : provisioning[p].at # "idle"})
          + Cardinality({p \in Processes : funding[p].at # "idle"})
          + Cardinality({p \in Processes : archiving[p] # "idle"})
MayBegin == InFlight < MaxInFlight

\* Bound of the model: the agent is put to use where its provisioning knew one
\* configuration, and a second process that is still at it has only to save.
Provisioned ==
    /\ agent # None /\ lease = None /\ operation.state = "READY"
    /\ keyBody = [k \in WalletKeys |->
                     IF k = OwnerKey THEN agent.recoveryPolicy ELSE None]
    /\ attached = keyBody
    /\ \A p \in Processes :
         /\ configuration[p] = agent.recoveryPolicy
         /\ \/ provisioning[p] = Idle
            \/ /\ provisioning[p].at = "check"
               /\ provisioning[p].readback = [policy |-> agent.recoveryPolicy,
                                              signer |-> TRUE]

\* ------------------------------------------------------------ provisioning
ProvisionTo(p, step) == provisioning' = [provisioning EXCEPT ![p] = step]

\* provision of an owner whose agent is there: a request that failed late
\* may have left the operation open.
ProvisionExisting ==
    /\ agent # None /\ operation.state # "READY"
    /\ operation' = [operation EXCEPT !.state = "READY"]
    /\ UNCHANGED <<lease, agent, fundings, configuration, requests, provider,
                   chain, session, restarts, history>>

Claimable(p) == lease \in {None, p}

\* The first step after the row is read: what it has is not done again.
Resume(row) ==
    [Idle EXCEPT !.at = IF row.recoveryPolicy = None THEN "policy"
                        ELSE IF row.wallet = None THEN "wallet" ELSE "read",
                 !.policy = row.recoveryPolicy, !.wallet = row.wallet]

BeginProvision(p) ==
    /\ agent = None /\ provisioning[p].at = "idle" /\ Claimable(p) /\ MayBegin
    /\ operation' = IF operation = None
                    THEN [state |-> "PROVISIONING", recoveryPolicy |-> None,
                          wallet |-> None]
                    ELSE [operation EXCEPT !.state = "PROVISIONING"]
    /\ lease' = p
    /\ ProvisionTo(p, Resume(operation'))
    /\ UNCHANGED <<agent, fundings, configuration, funding, archiving, provider,
                   chain, session, restarts, history>>

\* Policies are made under a key of their shape: a second request finds the
\* first one's.
StorePolicy(p) ==
    /\ provisioning[p].at = "policy"
    /\ operation' = [operation EXCEPT !.recoveryPolicy = configuration[p]]
    /\ ProvisionTo(p, [provisioning[p] EXCEPT
           !.at = IF provisioning[p].wallet = None THEN "wallet" ELSE "read",
           !.policy = configuration[p]])
    /\ UNCHANGED <<lease, agent, fundings, configuration, funding, archiving,
                   provider, chain, session, restarts, history>>

\* The provider under an idempotency key: a new one makes a wallet, or is
\* refused and keeps the body; a known one with its body has the wallet it
\* made, and none when it was refused; a known one with another body is an
\* error of its own.
Made(key, body) ==
    /\ keyBody[key] = None
    /\ keyBody' = [keyBody EXCEPT ![key] = body]
    /\ attached' = [attached EXCEPT ![key] = body]
    /\ signer' = signer \cup {key}

Refused(key, body) ==
    /\ keyBody[key] = None
    /\ keyBody' = [keyBody EXCEPT ![key] = body]
    /\ UNCHANGED <<attached, signer>>

Replayed(key, body) ==
    keyBody[key] = body /\ attached[key] # None /\ UNCHANGED provider

\* wallets().create, first under the key of the owner.
CreateWallet(p) ==
    /\ provisioning[p].at = "wallet"
    /\ LET body == provisioning[p].policy IN
       \/ /\ Made(OwnerKey, body) \/ Replayed(OwnerKey, body)
          /\ ProvisionTo(p, [provisioning[p] EXCEPT !.at = "store", !.wallet = OwnerKey])
       \/ /\ Refused(OwnerKey, body)
          /\ ProvisionTo(p, [provisioning[p] EXCEPT !.at = "refused"])
       \/ /\ keyBody[OwnerKey] \notin {None, body}
          /\ ProvisionTo(p, [provisioning[p] EXCEPT !.at = "list"])
          /\ UNCHANGED provider
    /\ UNCHANGED <<tables, configuration, funding, archiving, chain, session, restarts,
                   history>>

\* A bug: the list asks for another name than the request gave the wallet.
FaultyMatches == {w \in Configurations : attached[w] # None}

\* The owner's wallets, when the key was used with another body.
Matches == {w \in WalletKeys : attached[w] # None}

ListWallets(p) ==
    /\ provisioning[p].at = "list"
    /\ \/ \E w \in Matches :
             /\ Matches = {w}
             /\ ProvisionTo(p, [provisioning[p] EXCEPT !.at = "store", !.wallet = w])
       \/ /\ Matches = {}
          /\ ProvisionTo(p, [provisioning[p] EXCEPT !.at = "again"])
    /\ UNCHANGED <<tables, configuration, funding, archiving, provider, chain,
                   session, restarts, history>>

\* No wallet matches: once more, under a key made of the body.
CreateAgain(p) ==
    /\ provisioning[p].at = "again"
    /\ LET body == provisioning[p].policy IN
       \/ /\ Made(body, body) \/ Replayed(body, body)
          /\ ProvisionTo(p, [provisioning[p] EXCEPT !.at = "store", !.wallet = body])
       \/ /\ Refused(body, body)
          /\ ProvisionTo(p, [provisioning[p] EXCEPT !.at = "refused"])
    /\ UNCHANGED <<tables, configuration, funding, archiving, chain, session, restarts,
                   history>>

StoreWallet(p) ==
    /\ provisioning[p].at = "store"
    /\ operation' = [operation EXCEPT !.wallet = provisioning[p].wallet]
    /\ ProvisionTo(p, [provisioning[p] EXCEPT !.at = "read"])
    /\ UNCHANGED <<lease, agent, fundings, configuration, funding, archiving,
                   provider, chain, session, restarts, history>>

\* readWallet, before the policies are read and again after an update.
ReadWallet(p) ==
    /\ provisioning[p].at \in {"read", "reread"}
    /\ LET w == provisioning[p].wallet IN
       ProvisionTo(p, [provisioning[p] EXCEPT
           !.at = IF provisioning[p].at = "read" THEN "check" ELSE "recheck",
           !.readback = [policy |-> attached[w], signer |-> w \in signer]])
    /\ UNCHANGED <<tables, configuration, funding, archiving, provider, chain,
                   session, restarts, history>>

\* validateExecutionPolicy wants the signer, validateRecoveryPolicy a policy
\* of the shape this process is configured with.
Valid(p) == provisioning[p].readback.signer /\ provisioning[p].policy = configuration[p]

\* A wallet with another policy gets the one of the operation.
UpdateWallet(p) ==
    /\ provisioning[p].at = "check"
    /\ provisioning[p].readback.policy # provisioning[p].policy
    /\ Valid(p)
    /\ attached' = [attached EXCEPT ![provisioning[p].wallet] = provisioning[p].policy]
    /\ ProvisionTo(p, [provisioning[p] EXCEPT !.at = "reread"])
    /\ UNCHANGED <<tables, configuration, funding, archiving, keyBody, signer,
                   chain, session, restarts, history>>

NewAgent(w, policy) ==
    [wallet |-> w, recoveryPolicy |-> policy, state |-> "READY",
     funding |-> NoFunding]

\* saveTradingAgent inserts the row, or puts the state and the funding of a
\* new agent into the row that is there.  The mandate is not told apart.
Saved(w, policy) ==
    IF agent = None THEN NewAgent(w, policy) ELSE NewAgent(agent.wallet, agent.recoveryPolicy)

SaveAgent(p) ==
    /\ provisioning[p].at \in {"check", "recheck"}
    /\ provisioning[p].readback.policy = provisioning[p].policy
    /\ Valid(p)
    /\ agent' = Saved(provisioning[p].wallet, provisioning[p].policy)
    /\ operation' = [state |-> "READY", recoveryPolicy |-> provisioning[p].policy,
                     wallet |-> provisioning[p].wallet]
    /\ ProvisionTo(p, Idle)
    /\ raced' = (raced \/ agent # None)
    /\ UNCHANGED <<lease, fundings, configuration, funding, archiving, provider,
                   chain, session, restarts, credited>>

\* An error anywhere, or an answer that is lost: the checkpoint stays open.
FailProvision(p) ==
    /\ provisioning[p].at # "idle"
    /\ operation' = [operation EXCEPT !.state = "PROVISIONING"]
    /\ ProvisionTo(p, Idle)
    /\ UNCHANGED <<lease, agent, fundings, configuration, funding, archiving,
                   provider, chain, session, restarts, history>>

\* 120 seconds have passed; the request may be running still.
LeaseEnds ==
    /\ lease # None /\ lease' = None
    /\ UNCHANGED <<operation, agent, fundings, configuration, requests, provider,
                   chain, session, restarts, history>>

\* ----------------------------------------------------------------- funding
FundTo(p, step) == funding' = [funding EXCEPT ![p] = step]

Pending == {f \in DOMAIN fundings : fundings[f].status = "PENDING"}

\* fundInternal reads the agent and its pending operation, which is retried
\* with its own amounts only.  The cooldown is over.
BeginFund(p) ==
    /\ funding[p].at = "idle" /\ Provisioned /\ MayBegin
    /\ \E batch \in Batches, seen \in IF Pending = {} THEN {None} ELSE Pending :
         LET old       == agent.funding
             requested == IF seen = None /\ old.requested # None THEN old.requested ELSE batch
         IN /\ seen # None => fundings[seen].amounts = batch
            /\ FundTo(p, [at |-> IF seen = None THEN "reserve" ELSE "start",
                          requested |-> requested, operation |-> seen, seen |-> old,
                          amounts |-> IF old.pending # None THEN old.pending ELSE requested,
                          todo |-> {}, transaction |-> None])
    /\ raced' = (raced \/ \E q \in Processes : funding[q].at # "idle")
    /\ UNCHANGED <<tables, configuration, provisioning, archiving, provider,
                   chain, session, restarts, credited>>

\* An operation is counted from its reservation on.
Reserved(a) == MapThenSumSet(LAMBDA f : fundings[f].amounts[a], DOMAIN fundings)

WithinBudget(batch) == \A a \in Assets : Reserved(a) + batch[a] <= GlobalMax

\* A bug: that there is none pending is known from the read before.
FaultyUnreserved == TRUE

Unreserved == Pending = {}

\* reserveAgentFunding, a transaction.  An operation reserved since the read
\* serves as well when its amounts are the same, under an id this request
\* does not know: its own, 0, is that of no row.
ReserveFund(p) ==
    /\ funding[p].at = "reserve"
    /\ LET batch == funding[p].requested IN
       \/ /\ Unreserved /\ WithinBudget(batch)
          /\ fundings' = Append(fundings, [amounts |-> batch, status |-> "PENDING"])
          /\ FundTo(p, [funding[p] EXCEPT !.at = "start", !.operation = Len(fundings')])
       \/ /\ \E f \in Pending : fundings[f].amounts = batch
          /\ FundTo(p, [funding[p] EXCEPT !.at = "start", !.operation = 0])
          /\ UNCHANGED fundings
       \/ /\ IF Pending = {} THEN ~WithinBudget(batch)
             ELSE \A f \in Pending : fundings[f].amounts # batch
          /\ FundTo(p, NoRequest)
          /\ UNCHANGED fundings
    /\ UNCHANGED <<operation, lease, agent, configuration, provisioning, archiving,
                   provider, chain, session, restarts, history>>

\* A bug: the record of a funding is begun anew each time.
FaultyInitialFunding(request) ==
    [NoFunding EXCEPT
        !.pending = request.amounts, !.requested = request.requested,
        !.operation = request.operation]

InitialFunding(request) ==
    [request.seen EXCEPT
        !.pending = request.amounts, !.requested = request.requested,
        !.operation = request.operation]

\* The agent is FUNDING.  A process without the key of the faucet goes no
\* further, and leaves it so.
StartFund(p) ==
    /\ funding[p].at = "start"
    /\ agent' = [agent EXCEPT !.state = "FUNDING",
                              !.funding = InitialFunding(funding[p])]
    /\ FundTo(p, IF configuration[p] \in FaucetConfigurations
                 THEN [funding[p] EXCEPT !.at = "send", !.seen = NoFunding,
                           !.todo = {a \in Assets : funding[p].amounts[a] > 0}]
                 ELSE NoRequest)
    /\ UNCHANGED <<operation, lease, fundings, configuration, provisioning,
                   archiving, provider, chain, session, restarts, history>>

\* eth, then usdc, then weth.
First(todo) == IF "eth" \in todo THEN "eth" ELSE IF "usdc" \in todo THEN "usdc" ELSE "weth"

\* The transaction is broadcast; whether its hash arrives is another matter.
SendAsset(p) ==
    /\ funding[p].at = "send" /\ funding[p].todo # {}
    /\ Cardinality(sent) < MaxSends
    /\ LET a == First(funding[p].todo)
           t == [asset |-> a, amount |-> funding[p].amounts[a],
                 number |-> Cardinality(sent) + 1]
       IN /\ sent' = sent \cup {t}
          /\ FundTo(p, [funding[p] EXCEPT !.at = "receipt", !.todo = @ \ {a},
                                          !.transaction = t])
    /\ UNCHANGED <<tables, configuration, provisioning, archiving, provider,
                   settled, session, restarts, history>>

\* The chain takes a transaction, which may revert.
Settle ==
    /\ \E t \in sent \ settled : settled' = settled \cup {t}
    /\ UNCHANGED <<tables, configuration, requests, provider, sent, session, restarts,
                   history>>

\* A bug: the hash alone is waited for.
FaultyReceived(t) == t \in sent

Received(t) == t \in settled

\* confirm waits for the receipt, reads the row again and writes it.  It does
\* not ask whether the transaction succeeded.
ReadReceipt(p) ==
    /\ funding[p].at = "receipt" /\ Received(funding[p].transaction)
    /\ FundTo(p, [funding[p] EXCEPT !.at = "credit", !.seen = agent.funding])
    /\ UNCHANGED <<tables, configuration, provisioning, archiving, provider,
                   chain, session, restarts, history>>

PendingOf(record) == IF record.pending = None THEN Nothing ELSE record.pending

Credited(request) ==
    LET t       == request.transaction
        pending == PendingOf(request.seen)
    IN
    [request.seen EXCEPT
        !.funded[t.asset] = @ + t.amount,
        !.transactions = @ \cup {t},
        !.pending = [pending EXCEPT ![t.asset] = @ - t.amount],
        !.requested = IF @ = None THEN request.requested ELSE @,
        !.operation = IF @ = None THEN request.operation ELSE @]

CreditFund(p) ==
    /\ funding[p].at = "credit"
    /\ agent' = [agent EXCEPT !.funding = Credited(funding[p])]
    /\ FundTo(p, [funding[p] EXCEPT !.at = "send", !.transaction = None,
                                    !.seen = NoFunding])
    /\ credited' = credited \cup {funding[p].transaction}
    /\ UNCHANGED <<operation, lease, fundings, configuration, provisioning,
                   archiving, provider, chain, session, restarts, raced>>

\* A call that failed, a hash that did not arrive, a receipt that took too
\* long: the transaction may be on its way all the same.  The row is read ...
FailFund(p) ==
    /\ \/ funding[p].at = "receipt"
       \/ funding[p].at = "send" /\ funding[p].todo # {}
    /\ FundTo(p, [NoRequest EXCEPT !.at = "fail", !.seen = agent.funding])
    /\ UNCHANGED <<tables, configuration, provisioning, archiving, provider,
                   chain, session, restarts, history>>

\* ... and written, with the funding that was read.
WriteFailed(p) ==
    /\ funding[p].at = "fail"
    /\ agent' = [agent EXCEPT !.state = "FAILED", !.funding = funding[p].seen]
    /\ FundTo(p, NoRequest)
    /\ UNCHANGED <<operation, lease, fundings, configuration, provisioning,
                   archiving, provider, chain, session, restarts, history>>

\* The row is read once more, the operation it names is confirmed ...
CompleteFund(p) ==
    /\ funding[p].at = "send" /\ funding[p].todo = {}
    /\ LET named == IF agent.funding.operation # None THEN agent.funding.operation
                    ELSE funding[p].operation
       IN fundings' = [f \in DOMAIN fundings |->
              IF f = named THEN [fundings[f] EXCEPT !.status = "CONFIRMED"] ELSE fundings[f]]
    /\ FundTo(p, [funding[p] EXCEPT !.at = "finish", !.seen = agent.funding])
    /\ UNCHANGED <<operation, lease, agent, configuration, provisioning, archiving,
                   provider, chain, session, restarts, history>>

\* ... and the row is written, without what was pending.
FinishFund(p) ==
    /\ funding[p].at = "finish"
    /\ agent' = [agent EXCEPT !.state = "READY",
                     !.funding = [funding[p].seen EXCEPT !.pending = None,
                                      !.requested = None, !.operation = None]]
    /\ FundTo(p, NoRequest)
    /\ UNCHANGED <<operation, lease, fundings, configuration, provisioning,
                   archiving, provider, chain, session, restarts, history>>

\* ----------------------------------------- mandate, sessions and the archive
SetMandate ==
    /\ Provisioned /\ ~session
    /\ agent' = [agent EXCEPT !.state = IF @ = "ACTIVE" THEN "ACTIVE" ELSE "READY"]
    /\ UNCHANGED <<operation, lease, fundings, configuration, requests, provider,
                   chain, session, restarts, history>>

\* What the session of the wallet, a module of its own, does to the agent: an
\* authorization restores the signer, a start and a stop write the state
\* whatever it is (syncTradingAgentState), a stop detaches the signer.
StartSession ==
    /\ Provisioned /\ ~session
    /\ session' = TRUE /\ signer' = signer \cup {agent.wallet}
    /\ agent' = [agent EXCEPT !.state = "ACTIVE"]
    /\ UNCHANGED <<operation, lease, fundings, configuration, requests, keyBody,
                   attached, chain, restarts, history>>

StopSession ==
    /\ session
    /\ session' = FALSE /\ signer' = signer \ {agent.wallet}
    /\ agent' = [agent EXCEPT !.state = "STOPPED"]
    /\ UNCHANGED <<operation, lease, fundings, configuration, requests, keyBody,
                   attached, chain, restarts, history>>

ArchiveTo(p, step) == archiving' = [archiving EXCEPT ![p] = step]

BeginArchive(p) ==
    /\ archiving[p] = "idle" /\ MayBegin
    /\ Provisioned /\ agent.state \notin {"REVOKED", "FUNDING"} /\ ~session
    /\ ArchiveTo(p, "status")
    /\ UNCHANGED <<tables, configuration, provisioning, funding, provider, chain,
                   session, restarts, history>>

\* The status of the wallet: its policy must be the agent's, of the shape this
\* process is configured with, and its tokens gone.  What it holds is not
\* followed here: either answer may come.  Then the signer is detached.
RevokeSigner(p) ==
    /\ archiving[p] = "status"
    /\ attached[agent.wallet] = agent.recoveryPolicy
    /\ agent.recoveryPolicy = configuration[p]
    /\ signer' = signer \ {agent.wallet}
    /\ ArchiveTo(p, "write")
    /\ UNCHANGED <<tables, configuration, provisioning, funding, keyBody, attached,
                   chain, session, restarts, history>>

FinishArchive(p) ==
    /\ archiving[p] = "write"
    /\ agent' = [agent EXCEPT !.state = "REVOKED"]
    /\ ArchiveTo(p, "idle")
    /\ UNCHANGED <<operation, lease, fundings, configuration, provisioning, funding,
                   provider, chain, session, restarts, history>>

FailArchive(p) ==
    /\ archiving[p] # "idle"
    /\ ArchiveTo(p, "idle")
    /\ UNCHANGED <<tables, configuration, provisioning, funding, provider, chain,
                   session, restarts, history>>

\* A process ends and another takes its place, which holds no lease and may
\* be configured otherwise; bound of the model: that only before the agent is
\* there, and later a process restarts in the middle of a funding, so often.
Restart(p) ==
    /\ IF agent = None THEN UNCHANGED restarts
       ELSE /\ funding[p].at # "idle" /\ restarts < MaxRestarts
            /\ restarts' = restarts + 1
    /\ \E c \in Configurations :
         /\ agent # None => c = configuration[p]
         /\ configuration' = [configuration EXCEPT ![p] = c]
    /\ lease' = IF lease = p THEN Gone ELSE lease
    /\ ProvisionTo(p, Idle) /\ FundTo(p, NoRequest) /\ ArchiveTo(p, "idle")
    /\ UNCHANGED <<operation, agent, fundings, provider, chain, session, history>>

Provision(p) ==
    \/ ProvisionExisting \/ BeginProvision(p) \/ StorePolicy(p) \/ CreateWallet(p)
    \/ ListWallets(p) \/ CreateAgain(p) \/ StoreWallet(p) \/ ReadWallet(p)
    \/ UpdateWallet(p) \/ SaveAgent(p) \/ FailProvision(p)

Fund(p) ==
    \/ BeginFund(p) \/ ReserveFund(p) \/ StartFund(p) \/ SendAsset(p)
    \/ ReadReceipt(p) \/ CreditFund(p) \/ FailFund(p) \/ WriteFailed(p)
    \/ CompleteFund(p) \/ FinishFund(p)

Archive(p) ==
    \/ BeginArchive(p) \/ RevokeSigner(p) \/ FinishArchive(p)
    \/ FailArchive(p)

Next ==
    \/ \E p \in Processes : Provision(p) \/ Fund(p) \/ Archive(p) \/ Restart(p)
    \/ LeaseEnds \/ Settle \/ SetMandate
    \/ StartSession \/ StopSession

Spec == Init /\ [][Next]_vars

\* -------------------------------------------------------------- properties
FundingTypeOK(f) ==
    /\ f \in FundingRecords /\ f.transactions \subseteq settled
    /\ f.operation \in {None, 0} \cup DOMAIN fundings

\* The rows have their types, a row of an agent comes with an operation that
\* made it, and no transaction is recorded before its receipt.
TypeOK ==
    /\ operation \in Operations \cup {None}
    /\ lease \in Processes \cup {None, Gone}
    /\ \/ agent = None
       \/ operation # None /\ agent \in Agents /\ FundingTypeOK(agent.funding)
    /\ fundings \in Seq([amounts : Amounts, status : {"PENDING", "CONFIRMED"}])
    /\ configuration \in [Processes -> Configurations]
    /\ \A p \in Processes : FundingTypeOK(funding[p].seen)
    /\ signer \subseteq WalletKeys /\ sent \subseteq Transactions /\ settled \subseteq sent

\* The owner has one wallet, whatever was lost, repeated, restarted or
\* configured otherwise: "A provider timeout or process restart reuses the
\* same operation and idempotency key instead of creating a second wallet."
\* That is so for two configurations; three processes that begin with three
\* may make two wallets.
OneWalletPerOwner == Cardinality({w \in WalletKeys : attached[w] # None}) <= 1

\* What the agent shows as funded is the sum of the transactions it lists,
\* whatever requests read its row and write it back.  And it lists every one
\* that a request has credited, through failures, retries and restarts, unless
\* two requests have funded it at one time or a late provisioning has saved
\* its row anew: either may write a record that is older than a credit, and
\* the credit is lost.
CreditsAreKept ==
    agent # None =>
        /\ \A a \in Assets :
             agent.funding.funded[a] =
                 MapThenSumSet(LAMBDA t : t.amount,
                               {t \in agent.funding.transactions : t.asset = a})
        /\ ~raced => agent.funding.transactions = credited

\* An agent has one pending operation at a time, so no retry takes the shared
\* budget a second time while the first is under way.
OnePending == \A f, g \in Pending : f = g
==============================================================================
