------------------------- MODULE TradingAgentsProofs -------------------------
(***************************************************************************)
(* Theorems about TradingAgents, for every number of processes, however    *)
(* often they restart, whatever they are configured with and whatever the  *)
(* owner asks of the faucet.                                               *)
(*                                                                         *)
(* The agent has one pending funding operation at a time: only two steps   *)
(* write the table, the reservation, which adds a pending row where there  *)
(* is none, and the completion, which leaves no row pending that was not.  *)
(* What a request read before it reserves plays no part.                   *)
(*                                                                         *)
(* What the agent shows as funded is the sum of the transactions it lists: *)
(* a transaction on its way is carried by one request, and is in no record *)
(* that any request has read.  Two requests may lose what one of them has  *)
(* credited, but they never make a record that does not add up.  While no  *)
(* two have met, the one under way holds a record that is not older than   *)
(* the row, so that what it writes back keeps every credit (KeptInv).      *)
(*                                                                         *)
(* The owner has one wallet as long as there are two configurations at     *)
(* most: a wallet under the key of a configuration is made after the key   *)
(* of the owner was refused with another one, which leaves one to make it. *)
(***************************************************************************)
EXTENDS TradingAgents, FiniteSetTheorems, SequenceTheorems, TLAPS

----------------------------------------------------------------------------
(* The types of the rows and of what the requests know.                    *)

Batch   == [amounts : Amounts, status : {"PENDING", "CONFIRMED"}]

\* What an operation of a funding may be named, and what fundingJson may be.
Named   == {None, 0} \cup DOMAIN fundings
Records == [funded : Amounts, transactions : SUBSET settled,
            pending : [Assets -> Int] \cup {None},
            requested : Amounts \cup {None}, operation : Named]

States == {"READY", "FUNDING", "ACTIVE", "STOPPED", "FAILED", "REVOKED"}
Rows   == [wallet : WalletKeys, recoveryPolicy : Configurations, state : States,
           funding : Records]

\* Past its first call a request has a policy, and past a wallet it has that.
Provisionings ==
    {s \in [at : {"idle", "policy", "wallet", "refused", "list", "again",
                  "store", "read", "check", "reread", "recheck"},
            policy : Configurations \cup {None},
            wallet : WalletKeys \cup {None},
            readback : [policy : Configurations \cup {None}, signer : BOOLEAN]] :
        /\ s.at \notin {"idle", "policy"} => s.policy # None
        /\ s.at \in {"store", "read", "check", "reread", "recheck"} => s.wallet # None}

\* A request that funds knows its amounts, sends what is more than zero, and
\* takes a record after the receipt of what it sent.
Requests ==
    {r \in [at : {"idle", "reserve", "start", "send", "receipt", "credit", "fail",
                  "finish"},
            todo : SUBSET Assets, amounts : [Assets -> Int] \cup {None},
            requested : Amounts \cup {None}, operation : Named,
            transaction : sent \cup {None}, seen : Records] :
        /\ r.at \notin {"idle", "fail"} =>
             r.amounts \in [Assets -> Int] /\ r.requested \in Amounts
        /\ r.at \in {"send", "receipt", "credit"} => \A a \in r.todo : r.amounts[a] > 0
        /\ r.at \in {"receipt", "credit"} => r.transaction \in sent
        /\ r.at = "credit" => r.transaction \in settled}

\* The operation, the provider and the requests that provision.
ProvisioningTypes ==
    /\ operation \in Operations \cup {None}
    /\ lease \in Processes \cup {None, Gone}
    /\ configuration \in [Processes -> Configurations]
    /\ provisioning \in [Processes -> Provisionings]
    /\ keyBody \in [WalletKeys -> Configurations \cup {None}]
    /\ attached \in [WalletKeys -> Configurations \cup {None}]
    /\ signer \subseteq WalletKeys
    /\ \A p \in Processes : provisioning[p].at # "idle" => operation \in Operations

\* The agent has a row, and so has the operation that made it.
Served == agent \in Rows /\ operation \in Operations

\* The agent, its funding operations, the chain, and who depends on the agent.
AgentTypes ==
    /\ agent \in Rows \cup {None}
    /\ agent # None => operation \in Operations
    /\ fundings \in Seq(Batch)
    /\ sent \subseteq Transactions /\ IsFiniteSet(sent) /\ settled \subseteq sent
    /\ session => Served
    /\ archiving \in [Processes -> {"idle", "status", "write"}]
    /\ \A p \in Processes : archiving[p] # "idle" => Served

RequestTypes ==
    /\ funding \in [Processes -> Requests]
    /\ \A p \in Processes : funding[p].at # "idle" => Served

Types == ProvisioningTypes /\ AgentTypes /\ RequestTypes

LEMMA TypesInit == Init => Types
<1> SUFFICES ASSUME Init PROVE Types
  OBVIOUS
<1>1. NoFunding \in Records
  BY DEF Init, NoFunding, Nothing, Records, Amounts, Named
<1>2. NoRequest \in Requests
  BY <1>1 DEF NoRequest, Requests, Named
<1>3. NoRequest.at = "idle"
  BY DEF NoRequest
<1>4. Idle \in Provisionings /\ Idle.at = "idle"
  BY DEF Idle, Provisionings
<1>5. ProvisioningTypes
  BY <1>4 DEF Init, ProvisioningTypes
<1>6. AgentTypes
  BY FS_EmptySet DEF Init, AgentTypes
<1>7. RequestTypes
  BY <1>2, <1>3 DEF Init, RequestTypes
<1> QED BY <1>5, <1>6, <1>7 DEF Types

\* A step of one provisioning.
LEMMA OneProvision ==
    ASSUME ProvisioningTypes, NEW p \in Processes, NEW step \in Provisionings,
           ProvisionTo(p, step)
    PROVE  /\ provisioning' \in [Processes -> Provisionings]
           /\ provisioning'[p] = step
           /\ \A q \in Processes : q # p => provisioning'[q] = provisioning[q]
BY DEF ProvisioningTypes, ProvisionTo

\* What a step of a provisioning leaves of the types, when it keeps the lease,
\* the configurations and the provider, and an operation that is there.
LEMMA ProvisionTyped ==
    ASSUME ProvisioningTypes, NEW p \in Processes, NEW step \in Provisionings,
           ProvisionTo(p, step), operation' \in Operations,
           lease' \in Processes \cup {None, Gone}, UNCHANGED configuration,
           keyBody' \in [WalletKeys -> Configurations \cup {None}],
           attached' \in [WalletKeys -> Configurations \cup {None}],
           signer' \subseteq WalletKeys
    PROVE  ProvisioningTypes' /\ operation' \in Operations
BY OneProvision DEF ProvisioningTypes

LEMMA ProvisionKeepsProvisioning ==
    ASSUME Types, NEW p \in Processes, Provision(p)
    PROVE  ProvisioningTypes' /\ operation' \in Operations
<1> USE DEF Types
<1>t. provisioning[p] \in Provisionings /\ configuration[p] \in Configurations
  BY DEF ProvisioningTypes
<1>k. /\ keyBody \in [WalletKeys -> Configurations \cup {None}]
      /\ attached \in [WalletKeys -> Configurations \cup {None}]
      /\ signer \subseteq WalletKeys
      /\ lease \in Processes \cup {None, Gone}
      /\ operation \in Operations \cup {None}
      /\ provisioning[p].at # "idle" => operation \in Operations
  BY DEF ProvisioningTypes
<1>o. OwnerKey \in WalletKeys /\ Configurations \subseteq WalletKeys /\ None \notin WalletKeys
  BY AgentAssumption DEF WalletKeys
<1>m. ASSUME NEW key \in WalletKeys, NEW body \in Configurations \cup {None},
             Made(key, body) \/ Refused(key, body) \/ Replayed(key, body)
      PROVE  /\ keyBody' \in [WalletKeys -> Configurations \cup {None}]
             /\ attached' \in [WalletKeys -> Configurations \cup {None}]
             /\ signer' \subseteq WalletKeys
  BY <1>k, <1>m DEF Made, Refused, Replayed, provider
<1>1. CASE ProvisionExisting
  <2>1. operation \in Operations
    BY <1>1 DEF ProvisionExisting, AgentTypes
  <2>2. operation' \in Operations
    BY <1>1, <2>1 DEF ProvisionExisting, Operations
  <2> QED BY <1>1, <2>2 DEF ProvisionExisting, ProvisioningTypes, requests, provider
<1>2. CASE BeginProvision(p)
  <2>1. operation' \in Operations
    <3>1. CASE operation = None
      BY <1>2, <3>1 DEF BeginProvision, Operations
    <3>2. CASE operation # None
      BY <1>2, <1>k, <3>2 DEF BeginProvision, Operations
    <3> QED BY <3>1, <3>2
  <2>2. Resume(operation') \in Provisionings
    BY <2>1 DEF Resume, Idle, Operations, Provisionings
  <2> QED BY <1>2, <1>k, <2>1, <2>2, ProvisionTyped DEF BeginProvision, provider
<1>3. CASE StorePolicy(p)
  <2> DEFINE step == [provisioning[p] EXCEPT
           !.at = IF provisioning[p].wallet = None THEN "wallet" ELSE "read",
           !.policy = configuration[p]]
  <2>1. step \in Provisionings
    BY <1>t, <1>o DEF Provisionings
  <2>2. operation \in Operations
    BY <1>3, <1>k DEF StorePolicy
  <2>3. operation' \in Operations
    BY <1>3, <1>t, <2>2 DEF StorePolicy, Operations
  <2>4. ProvisionTo(p, step)
    BY <1>3 DEF StorePolicy
  <2> HIDE DEF step
  <2> QED BY <1>3, <1>k, <2>1, <2>3, <2>4, ProvisionTyped DEF StorePolicy, provider
<1>4. CASE CreateWallet(p)
  <2>1. PICK step \in Provisionings : ProvisionTo(p, step)
    <3>1. [provisioning[p] EXCEPT !.at = "store", !.wallet = OwnerKey] \in Provisionings
      BY <1>4, <1>t, <1>o DEF Provisionings, CreateWallet
    <3>2. /\ [provisioning[p] EXCEPT !.at = "refused"] \in Provisionings
          /\ [provisioning[p] EXCEPT !.at = "list"] \in Provisionings
      BY <1>4, <1>t DEF Provisionings, CreateWallet
    <3> QED BY <1>4, <3>1, <3>2 DEF CreateWallet
  <2>2. provisioning[p].policy \in Configurations \cup {None}
    BY <1>t DEF Provisionings
  <2>3. /\ keyBody' \in [WalletKeys -> Configurations \cup {None}]
        /\ attached' \in [WalletKeys -> Configurations \cup {None}]
        /\ signer' \subseteq WalletKeys
    BY <1>4, <1>k, <1>o, <1>m, <2>2 DEF CreateWallet, provider
  <2>4. operation' \in Operations /\ lease' = lease /\ configuration' = configuration
    BY <1>4, <1>k DEF CreateWallet, tables
  <2> QED BY <1>k, <2>1, <2>3, <2>4, ProvisionTyped
<1>5. CASE ListWallets(p)
  <2>1. PICK step \in Provisionings : ProvisionTo(p, step)
    <3>1. ASSUME NEW w \in WalletKeys
          PROVE  [provisioning[p] EXCEPT !.at = "store", !.wallet = w] \in Provisionings
      BY <1>5, <1>t, <1>o DEF Provisionings, ListWallets
    <3>2. [provisioning[p] EXCEPT !.at = "again"] \in Provisionings
      BY <1>5, <1>t DEF Provisionings, ListWallets
    <3>3. Matches \subseteq WalletKeys
      BY DEF Matches
    <3> QED BY <1>5, <3>1, <3>2, <3>3 DEF ListWallets
  <2>2. /\ operation' \in Operations /\ lease' = lease /\ configuration' = configuration
        /\ keyBody' = keyBody /\ attached' = attached /\ signer' = signer
    BY <1>5, <1>k DEF ListWallets, tables, provider
  <2> QED BY <1>k, <2>1, <2>2, ProvisionTyped
<1>6. CASE CreateAgain(p)
  <2>1. provisioning[p].policy \in Configurations
    BY <1>6, <1>t DEF Provisionings, CreateAgain
  <2>2. PICK step \in Provisionings : ProvisionTo(p, step)
    <3> DEFINE body == provisioning[p].policy
    <3>1. [provisioning[p] EXCEPT !.at = "store", !.wallet = body] \in Provisionings
      BY <1>t, <1>o, <2>1 DEF Provisionings
    <3>2. [provisioning[p] EXCEPT !.at = "refused"] \in Provisionings
      BY <1>t, <1>o, <2>1 DEF Provisionings
    <3> QED BY <1>6, <3>1, <3>2 DEF CreateAgain
  <2>3. /\ keyBody' \in [WalletKeys -> Configurations \cup {None}]
        /\ attached' \in [WalletKeys -> Configurations \cup {None}]
        /\ signer' \subseteq WalletKeys
    BY <1>6, <1>k, <1>o, <1>m, <2>1 DEF CreateAgain
  <2>4. operation' \in Operations /\ lease' = lease /\ configuration' = configuration
    BY <1>6, <1>k DEF CreateAgain, tables
  <2> QED BY <1>k, <2>2, <2>3, <2>4, ProvisionTyped
<1>7. CASE StoreWallet(p)
  <2> DEFINE step == [provisioning[p] EXCEPT !.at = "read"]
  <2>1. provisioning[p].wallet \in WalletKeys /\ step \in Provisionings
    BY <1>7, <1>t DEF Provisionings, StoreWallet
  <2>2. operation \in Operations
    BY <1>7, <1>k DEF StoreWallet
  <2>3. operation' \in Operations
    BY <1>7, <2>1, <2>2 DEF StoreWallet, Operations
  <2>4. ProvisionTo(p, step)
    BY <1>7 DEF StoreWallet
  <2> HIDE DEF step
  <2> QED BY <1>7, <1>k, <2>1, <2>3, <2>4, ProvisionTyped DEF StoreWallet, provider
<1>8. CASE ReadWallet(p)
  <2>1. provisioning[p].wallet \in WalletKeys
    BY <1>8, <1>t DEF Provisionings, ReadWallet
  <2> DEFINE w == provisioning[p].wallet
             next == IF provisioning[p].at = "read" THEN "check" ELSE "recheck"
             read == [policy |-> attached[w], signer |-> w \in signer]
             step == [provisioning[p] EXCEPT !.at = next, !.readback = read]
  <2>2. read \in [policy : Configurations \cup {None}, signer : BOOLEAN]
    BY <1>k, <2>1
  <2>3. ProvisionTo(p, step)
    BY <1>8 DEF ReadWallet
  <2> HIDE DEF read
  <2>4. step \in Provisionings
    BY <1>8, <1>t, <2>2 DEF Provisionings, ReadWallet
  <2> HIDE DEF step
  <2>5. /\ operation' \in Operations /\ lease' = lease /\ configuration' = configuration
        /\ keyBody' = keyBody /\ attached' = attached /\ signer' = signer
    BY <1>8, <1>k DEF ReadWallet, tables, provider
  <2> QED BY <1>k, <2>3, <2>4, <2>5, ProvisionTyped
<1>9. CASE UpdateWallet(p)
  <2> DEFINE step == [provisioning[p] EXCEPT !.at = "reread"]
  <2>1. step \in Provisionings /\ provisioning[p].policy \in Configurations
    BY <1>9, <1>t DEF Provisionings, UpdateWallet
  <2>2. ProvisionTo(p, step)
    BY <1>9 DEF UpdateWallet
  <2> HIDE DEF step
  <2>3. attached' \in [WalletKeys -> Configurations \cup {None}]
    BY <1>9, <1>k, <2>1 DEF UpdateWallet
  <2>4. /\ operation' \in Operations /\ lease' = lease /\ configuration' = configuration
        /\ keyBody' = keyBody /\ signer' = signer
    BY <1>9, <1>k DEF UpdateWallet, tables
  <2> QED BY <1>k, <2>1, <2>2, <2>3, <2>4, ProvisionTyped
<1>10. CASE SaveAgent(p)
  <2>1. operation' \in Operations
    BY <1>10, <1>t DEF SaveAgent, Provisionings, Operations
  <2>2. Idle \in Provisionings
    BY DEF Idle, Provisionings
  <2>3. ProvisionTo(p, Idle)
    BY <1>10 DEF SaveAgent
  <2> QED BY <1>10, <1>k, <2>1, <2>2, <2>3, ProvisionTyped DEF SaveAgent, provider
<1>11. CASE FailProvision(p)
  <2>1. operation' \in Operations
    BY <1>11, <1>k DEF FailProvision, Operations
  <2>2. Idle \in Provisionings
    BY DEF Idle, Provisionings
  <2>3. ProvisionTo(p, Idle)
    BY <1>11 DEF FailProvision
  <2> QED BY <1>11, <1>k, <2>1, <2>2, <2>3, ProvisionTyped DEF FailProvision, provider
<1> QED
  BY <1>1, <1>2, <1>3, <1>4, <1>5, <1>6, <1>7, <1>8, <1>9, <1>10, <1>11 DEF Provision

LEMMA OthersKeepProvisioning ==
    ASSUME Types,
           \/ LeaseEnds \/ Settle \/ SetMandate \/ StartSession \/ StopSession
           \/ \E p \in Processes : Fund(p) \/ Archive(p) \/ Restart(p)
    PROVE  ProvisioningTypes'
<1> USE DEF Types
<1>1. CASE LeaseEnds
  BY <1>1 DEF LeaseEnds, ProvisioningTypes, requests, provider
<1>2. CASE Settle \/ SetMandate
  BY <1>2 DEF Settle, SetMandate, ProvisioningTypes, requests, provider, tables
<1>3. CASE StartSession
  <2>1. agent.wallet \in WalletKeys
    BY <1>3 DEF StartSession, Provisioned, AgentTypes, Rows
  <2> QED BY <1>3, <2>1 DEF StartSession, ProvisioningTypes, requests
<1>4. CASE StopSession
  BY <1>4 DEF StopSession, ProvisioningTypes, requests
<1>5. ASSUME NEW p \in Processes, Fund(p) PROVE ProvisioningTypes'
  <2>1. UNCHANGED <<operation, lease, configuration, provisioning, provider>>
    BY <1>5 DEF Fund, BeginFund, ReserveFund, StartFund, SendAsset, ReadReceipt, CreditFund,
                FailFund, WriteFailed, CompleteFund, FinishFund, tables
  <2> QED BY <2>1 DEF ProvisioningTypes, provider
<1>6. ASSUME NEW p \in Processes, Archive(p) PROVE ProvisioningTypes'
  <2>1. /\ UNCHANGED <<operation, lease, configuration, provisioning, keyBody, attached>>
        /\ signer' \subseteq signer
    BY <1>6 DEF Archive, BeginArchive, RevokeSigner, FinishArchive, FailArchive, tables, provider
  <2> QED BY <2>1 DEF ProvisioningTypes
<1>7. ASSUME NEW p \in Processes, Restart(p) PROVE ProvisioningTypes'
  <2>1. Idle \in Provisionings /\ Idle.at = "idle" /\ ProvisionTo(p, Idle)
    BY <1>7 DEF Idle, Provisionings, Restart
  <2>2. UNCHANGED <<operation, keyBody, attached, signer>>
    BY <1>7 DEF Restart, provider
  <2>3. /\ lease' \in Processes \cup {None, Gone}
        /\ configuration' \in [Processes -> Configurations]
    BY <1>7 DEF Restart, ProvisioningTypes
  <2> QED BY <2>1, <2>2, <2>3, OneProvision DEF ProvisioningTypes
<1> QED BY <1>1, <1>2, <1>3, <1>4, <1>5, <1>6, <1>7

\* The chain takes transactions, and the table of the operations takes rows.
Grown == /\ sent \subseteq sent' /\ settled \subseteq settled'
         /\ DOMAIN fundings \subseteq DOMAIN fundings'

LEMMA TypesGrow ==
    ASSUME Grown
    PROVE  Named \subseteq Named' /\ Records \subseteq Records' /\ Rows \subseteq Rows'
           /\ Requests \subseteq Requests'
<1>1. Named \subseteq Named'
  BY DEF Grown, Named
<1>2. Records \subseteq Records'
  <2> SUFFICES ASSUME NEW r \in Records PROVE r \in Records'
    OBVIOUS
  <2>1. settled \subseteq settled'
    BY DEF Grown
  <2> QED BY <1>1, <2>1 DEF Records
<1>3. Rows \subseteq Rows'
  <2> SUFFICES ASSUME NEW r \in Rows PROVE r \in Rows'
    OBVIOUS
  <2> QED BY <1>2 DEF Rows
<1>4. Requests \subseteq Requests'
  <2> SUFFICES ASSUME NEW r \in Requests PROVE r \in Requests'
    OBVIOUS
  <2>1. sent \subseteq sent' /\ settled \subseteq settled'
    BY DEF Grown
  <2> QED BY <1>1, <1>2, <2>1 DEF Requests
<1> QED BY <1>1, <1>2, <1>3, <1>4

LEMMA NothingGrows == UNCHANGED <<sent, settled, fundings>> => Grown
BY DEF Grown

\* The agent stays as it is, or has a row.
LEMMA AgentTyped ==
    ASSUME Types, Grown, agent' = agent \/ agent' \in Rows',
           operation' = operation \/ operation' \in Operations,
           agent' # None /\ agent = None => operation' \in Operations,
           fundings' \in Seq(Batch),
           sent' \subseteq Transactions, IsFiniteSet(sent'), settled' \subseteq sent',
           session' => session \/ Served,
           archiving' \in [Processes -> {"idle", "status", "write"}],
           \A p \in Processes :
               archiving'[p] # "idle" => archiving[p] # "idle" \/ Served
    PROVE  AgentTypes'
<1>1. Rows \subseteq Rows'
  BY TypesGrow
<1>2. agent' \in Rows' \cup {None}
  BY <1>1 DEF Types, AgentTypes
<1>3. Served => Served'
  BY <1>1 DEF Served
<1>4. agent' # None => operation' \in Operations
  BY DEF Types, AgentTypes
<1> QED BY <1>2, <1>3, <1>4 DEF Types, AgentTypes

\* One request takes a step,
LEMMA RequestTyped ==
    ASSUME Types, Grown, agent' = agent \/ agent' \in Rows',
           operation' = operation \/ operation' \in Operations,
           NEW p \in Processes, NEW request \in Requests', FundTo(p, request),
           request.at # "idle" => Served
    PROVE  /\ RequestTypes' /\ funding'[p] = request
           /\ \A q \in Processes : q # p => funding'[q] = funding[q]
<1>1. Rows \subseteq Rows' /\ Requests \subseteq Requests'
  BY TypesGrow
<1>2. Served => Served'
  BY <1>1 DEF Served
<1>3. funding \in [Processes -> Requests]
  BY DEF Types, RequestTypes
<1>4. funding'[p] = request /\ \A q \in Processes : q # p => funding'[q] = funding[q]
  BY <1>3 DEF FundTo
<1>5. funding' \in [Processes -> Requests']
  BY <1>1, <1>3 DEF FundTo
<1>6. \A q \in Processes : funding'[q].at # "idle" => Served'
  BY <1>2, <1>4 DEF Types, RequestTypes
<1> QED BY <1>4, <1>5, <1>6 DEF RequestTypes

\* or none does.
LEMMA RequestsTyped ==
    ASSUME Types, Grown, agent' = agent \/ agent' \in Rows',
           operation' = operation \/ operation' \in Operations, UNCHANGED funding
    PROVE  RequestTypes'
<1>1. Rows \subseteq Rows' /\ Requests \subseteq Requests'
  BY TypesGrow
<1>2. Served => Served'
  BY <1>1 DEF Served
<1>3. funding \in [Processes -> Requests']
  BY <1>1 DEF Types, RequestTypes
<1> QED BY <1>2, <1>3 DEF Types, RequestTypes

LEMMA NoRequestIs ==
    NoRequest \in Requests /\ NoRequest.at = "idle" /\ NoFunding \in Records
<1>1. NoFunding \in Records
  BY DEF NoFunding, Nothing, Records, Amounts, Named
<1>2. NoRequest \in Requests
  BY <1>1 DEF NoRequest, Requests, Named
<1> QED BY <1>1, <1>2 DEF NoRequest

LEMMA NoRequestIsThen ==
    NoRequest \in Requests' /\ NoRequest.at = "idle" /\ NoFunding \in Records'
<1>1. (NoRequest \in Requests /\ NoRequest.at = "idle" /\ NoFunding \in Records)'
  BY NoRequestIs, PTL
<1> QED BY <1>1

\* The fields of a request, of a row and of a record.
LEMMA RequestFields ==
    ASSUME NEW r \in Requests
    PROVE  /\ r.todo \subseteq Assets /\ r.operation \in Named /\ r.seen \in Records
           /\ r.amounts \in [Assets -> Int] \cup {None} /\ r.requested \in Amounts \cup {None}
           /\ r.transaction \in sent \cup {None}
           /\ r.at \notin {"idle", "fail"} =>
                r.amounts \in [Assets -> Int] /\ r.requested \in Amounts
BY DEF Requests

LEMMA RowFields ==
    ASSUME NEW r \in Rows
    PROVE  /\ r.wallet \in WalletKeys /\ r.recoveryPolicy \in Configurations
           /\ r.state \in States /\ r.funding \in Records
BY DEF Rows

LEMMA RecordFields ==
    ASSUME NEW f \in Records
    PROVE  /\ f.funded \in Amounts /\ f.transactions \subseteq settled
           /\ f.pending \in [Assets -> Int] \cup {None}
           /\ f.requested \in Amounts \cup {None} /\ f.operation \in Named
BY DEF Records

\* A row with another state or another record is a row.
LEMMA RowWith ==
    ASSUME NEW r \in Rows, NEW state \in States, NEW f \in Records
    PROVE  /\ [r EXCEPT !.state = state] \in Rows
           /\ [r EXCEPT !.funding = f] \in Rows
           /\ [r EXCEPT !.state = state, !.funding = f] \in Rows
BY DEF Rows

\* The rows are of the type of the table, so that none is None.
LEMMA RowsAreAgents ==
    ASSUME Types PROVE Rows \subseteq Agents /\ Records \subseteq FundingRecords
<1>1. settled \subseteq Transactions
  BY DEF Types, AgentTypes
<1>2. Named \subseteq Nat \cup {None}
  <2>1. fundings \in Seq(Batch)
    BY DEF Types, AgentTypes
  <2> QED BY <2>1 DEF Named
<1>3. Records \subseteq FundingRecords
  BY <1>1, <1>2 DEF Records, FundingRecords
<1>4. Rows \subseteq Agents
  <2> SUFFICES ASSUME NEW r \in Rows PROVE r \in Agents
    OBVIOUS
  <2> QED BY <1>3 DEF Rows, Agents, States
<1> QED BY <1>3, <1>4

\* The operations are named by the numbers of their rows.
LEMMA FundingsAre ==
    ASSUME Types
    PROVE  /\ Len(fundings) \in Nat /\ DOMAIN fundings = 1 .. Len(fundings)
           /\ \A f \in DOMAIN fundings : fundings[f] \in Batch
           /\ Pending \subseteq Named
<1>1. fundings \in Seq(Batch)
  BY DEF Types, AgentTypes
<1> QED BY <1>1 DEF Pending, Named

\* A step of a request that funds, where the tables and the chain stay.
LEMMA QuietFund ==
    ASSUME Types, NEW p \in Processes, NEW request \in Requests, FundTo(p, request),
           Served,
           UNCHANGED <<tables, archiving, chain, session>>
    PROVE  AgentTypes' /\ RequestTypes' /\ agent' # None
<1>1. Grown
  BY NothingGrows DEF tables, chain
<1>2. request \in Requests'
  BY <1>1, TypesGrow
<1>3. AgentTypes'
  BY <1>1, AgentTyped DEF tables, chain, Types, AgentTypes
<1>4. RequestTypes'
  BY <1>1, <1>2, RequestTyped DEF tables
<1>5. agent' # None
  BY RowsAreAgents, AgentAssumption DEF tables, Served
<1> QED BY <1>3, <1>4, <1>5

\* A step of a request that funds and writes the agent's row.
LEMMA WritingFund ==
    ASSUME Types, NEW p \in Processes, NEW request \in Requests, FundTo(p, request),
           agent' \in Rows, Served,
           UNCHANGED <<operation, fundings, archiving, chain, session>>
    PROVE  AgentTypes' /\ RequestTypes' /\ agent' # None
<1>1. Grown
  BY NothingGrows DEF chain
<1>2. request \in Requests' /\ agent' \in Rows'
  BY <1>1, TypesGrow
<1>3. AgentTypes'
  BY <1>1, <1>2, AgentTyped DEF chain, Types, AgentTypes, Served
<1>4. RequestTypes'
  BY <1>1, <1>2, RequestTyped
<1>5. agent' # None
  BY RowsAreAgents, AgentAssumption
<1> QED BY <1>3, <1>4, <1>5

\* What a request that is under way has.
LEMMA UnderWay ==
    ASSUME Types, NEW p \in Processes, funding[p].at # "idle"
    PROVE  funding[p] \in Requests /\ Served /\ agent \in Rows /\ agent # None
<1>1. funding[p] \in Requests /\ Served /\ agent \in Rows
  BY DEF Types, RequestTypes, Served
<1> QED BY <1>1, RowsAreAgents, AgentAssumption

LEMMA FundKeepsTypes ==
    ASSUME Types, NEW p \in Processes, Fund(p)
    PROVE  AgentTypes' /\ RequestTypes' /\ agent' # None
<1>1. CASE BeginFund(p)
  <2>1. agent \in Rows /\ Served
    BY <1>1 DEF BeginFund, Provisioned, Types, AgentTypes, Served
  <2>2. PICK batch \in Batches, seen \in IF Pending = {} THEN {None} ELSE Pending :
          LET old       == agent.funding
              requested == IF seen = None /\ old.requested # None THEN old.requested ELSE batch
          IN FundTo(p, [at |-> IF seen = None THEN "reserve" ELSE "start",
                        requested |-> requested, operation |-> seen, seen |-> old,
                        amounts |-> IF old.pending # None THEN old.pending ELSE requested,
                        todo |-> {}, transaction |-> None])
    BY <1>1 DEF BeginFund
  <2> DEFINE old       == agent.funding
             requested == IF seen = None /\ old.requested # None THEN old.requested ELSE batch
             amounts   == IF old.pending # None THEN old.pending ELSE requested
             request   == [at |-> IF seen = None THEN "reserve" ELSE "start",
                           requested |-> requested, operation |-> seen, seen |-> old,
                           amounts |-> amounts, todo |-> {}, transaction |-> None]
  <2>3. seen \in Named
    BY <2>2, FundingsAre DEF Named
  <2>4. old \in Records
    BY <2>1, RowFields
  <2>5. batch \in Amounts
    BY AgentAssumption DEF Amounts
  <2>6. requested \in Amounts
    BY <2>4, <2>5, RecordFields
  <2>7. amounts \in [Assets -> Int]
    BY <2>4, <2>6, RecordFields DEF Amounts
  <2>8. FundTo(p, request)
    BY <2>2
  <2> HIDE DEF old, requested, amounts
  <2>9. request \in Requests
    BY <2>3, <2>4, <2>6, <2>7 DEF Requests
  <2> HIDE DEF request
  <2> QED BY <1>1, <2>1, <2>8, <2>9, QuietFund DEF BeginFund
<1>2. CASE ReserveFund(p)
  <2>1. funding[p] \in Requests /\ Served /\ agent \in Rows
    BY <1>2, UnderWay DEF ReserveFund
  <2> DEFINE batch == funding[p].requested
             row   == [amounts |-> batch, status |-> "PENDING"]
  <2>2. batch \in Amounts
    BY <1>2, <2>1, RequestFields DEF ReserveFund
  <2>3. CASE /\ fundings' = Append(fundings, row)
             /\ FundTo(p, [funding[p] EXCEPT !.at = "start", !.operation = Len(fundings')])
    <3>1. row \in Batch /\ fundings \in Seq(Batch)
      BY <2>2 DEF Batch, Types, AgentTypes
    <3> HIDE DEF row
    <3>2. /\ fundings' \in Seq(Batch) /\ Len(fundings') = Len(fundings) + 1
          /\ DOMAIN fundings' = 1 .. Len(fundings')
      BY <2>3, <3>1
    <3>3. UNCHANGED <<sent, settled, agent, operation, archiving, session>>
      BY <1>2 DEF ReserveFund, chain
    <3>4. Grown
      BY <3>2, <3>3, FundingsAre DEF Grown
    <3>5. AgentTypes'
      BY <3>2, <3>3, <3>4, AgentTyped DEF Types, AgentTypes
    <3>6. funding[p] \in Requests' /\ Len(fundings') \in Named'
      BY <2>1, <3>2, <3>4, FundingsAre, TypesGrow DEF Named
    <3> DEFINE request == [funding[p] EXCEPT !.at = "start", !.operation = Len(fundings')]
    <3>7. request \in Requests'
      <4>1. funding[p].at = "reserve"
        BY <1>2 DEF ReserveFund
      <4> QED BY <3>6, <4>1 DEF Requests
    <3> HIDE DEF request
    <3>8. FundTo(p, request)
      BY <2>3 DEF request
    <3>9. RequestTypes'
      BY <2>1, <3>3, <3>4, <3>7, <3>8, RequestTyped
    <3>10. agent' # None
      BY <1>2, <3>3, UnderWay DEF ReserveFund
    <3> QED BY <3>5, <3>9, <3>10
  <2>4. CASE /\ FundTo(p, [funding[p] EXCEPT !.at = "start", !.operation = 0])
             /\ UNCHANGED fundings
    <3> DEFINE request == [funding[p] EXCEPT !.at = "start", !.operation = 0]
    <3>1. request \in Requests
      BY <1>2, <2>1 DEF ReserveFund, Requests, Named
    <3> HIDE DEF request
    <3>2. FundTo(p, request)
      BY <2>4 DEF request
    <3> QED BY <1>2, <2>1, <2>4, <3>1, <3>2, QuietFund DEF ReserveFund, tables
  <2>5. CASE FundTo(p, NoRequest) /\ UNCHANGED fundings
    BY <1>2, <2>1, <2>5, NoRequestIs, QuietFund DEF ReserveFund, tables
  <2> QED BY <1>2, <2>3, <2>4, <2>5 DEF ReserveFund
<1>3. CASE StartFund(p)
  <2>1. funding[p] \in Requests /\ Served /\ agent \in Rows
    BY <1>3, UnderWay DEF StartFund
  <2> DEFINE r == funding[p]
             record == InitialFunding(r)
             request == IF configuration[p] \in FaucetConfigurations
                        THEN [r EXCEPT !.at = "send", !.seen = NoFunding,
                                       !.todo = {a \in Assets : r.amounts[a] > 0}]
                        ELSE NoRequest
  <2>2. r \in Requests /\ r.seen \in Records /\ r.operation \in Named
        /\ r.amounts \in [Assets -> Int] /\ r.requested \in Amounts
    BY <1>3, <2>1, RequestFields DEF StartFund
  <2>3. /\ agent' = [agent EXCEPT !.state = "FUNDING", !.funding = record]
        /\ FundTo(p, request)
    BY <1>3 DEF StartFund
  <2>4. request \in Requests
    <3>1. CASE configuration[p] \in FaucetConfigurations
      BY <2>2, <3>1, NoRequestIs DEF Requests
    <3>2. CASE configuration[p] \notin FaucetConfigurations
      BY <3>2, NoRequestIs
    <3> QED BY <3>1, <3>2
  <2> HIDE DEF request
  <2>5. record \in Records
    BY <2>2 DEF InitialFunding, Records
  <2> HIDE DEF record
  <2>6. agent' \in Rows
    BY <2>1, <2>3, <2>5, RowWith DEF States
  <2> QED BY <1>3, <2>1, <2>3, <2>4, <2>6, WritingFund DEF StartFund
<1>4. CASE SendAsset(p)
  <2>1. funding[p] \in Requests /\ Served /\ agent \in Rows
    BY <1>4, UnderWay DEF SendAsset
  <2> DEFINE r == funding[p]
             a == First(r.todo)
             t == [asset |-> a, amount |-> r.amounts[a], number |-> Cardinality(sent) + 1]
             request == [r EXCEPT !.at = "receipt", !.todo = @ \ {a}, !.transaction = t]
  <2>2. /\ r.at = "send" /\ r.todo # {} /\ sent' = sent \cup {t} /\ FundTo(p, request)
        /\ UNCHANGED <<tables, settled, archiving, session>>
    BY <1>4 DEF SendAsset
  <2>3. a \in r.todo /\ a \in Assets
    BY <2>1, <2>2, RequestFields DEF First, Assets
  <2>4. r.amounts \in [Assets -> Int] /\ r.amounts[a] > 0
    BY <2>1, <2>2, <2>3 DEF Requests
  <2> HIDE DEF a
  <2>5. Cardinality(sent) \in Nat /\ sent \subseteq Transactions /\ IsFiniteSet(sent)
    BY FS_CardinalityType DEF Types, AgentTypes
  <2>6. t \in Transactions
    <3>1. r.amounts[a] \in Nat
      BY <2>3, <2>4
    <3> QED BY <2>3, <2>5, <3>1 DEF Transactions
  <2> HIDE DEF t
  <2>7. sent' \subseteq Transactions /\ IsFiniteSet(sent') /\ sent \subseteq sent' /\ t \in sent'
    BY <2>2, <2>5, <2>6, FS_AddElement
  <2>8. Grown
    BY <2>2, <2>7 DEF Grown, tables
  <2>9. AgentTypes'
    BY <2>2, <2>7, <2>8, AgentTyped DEF Types, AgentTypes, tables
  <2>10. request \in Requests'
    <3>1. r \in Requests'
      BY <2>1, <2>8, TypesGrow
    <3> HIDE DEF r
    <3> QED BY <2>2, <2>7, <3>1 DEF Requests
  <2> HIDE DEF request
  <2>11. RequestTypes'
    BY <2>1, <2>2, <2>8, <2>10, RequestTyped DEF tables
  <2>12. agent' # None
    BY <1>4, UnderWay DEF SendAsset, tables
  <2> QED BY <2>9, <2>11, <2>12
<1>5. CASE ReadReceipt(p)
  <2> DEFINE request == [funding[p] EXCEPT !.at = "credit", !.seen = agent.funding]
  <2>1. funding[p] \in Requests /\ Served /\ agent \in Rows
    BY <1>5, UnderWay DEF ReadReceipt
  <2>2. agent.funding \in Records
    BY <2>1, RowFields
  <2>3. FundTo(p, request)
    BY <1>5 DEF ReadReceipt
  <2>4. request \in Requests
    BY <1>5, <2>1, <2>2 DEF Requests, ReadReceipt, Received
  <2> HIDE DEF request
  <2> QED BY <1>5, <2>1, <2>3, <2>4, QuietFund DEF ReadReceipt
<1>6. CASE CreditFund(p)
  <2>1. funding[p] \in Requests /\ Served /\ agent \in Rows
    BY <1>6, UnderWay DEF CreditFund
  <2> DEFINE request == [funding[p] EXCEPT !.at = "send", !.transaction = None,
                                           !.seen = NoFunding]
  <2>2. FundTo(p, request) /\ agent' = [agent EXCEPT !.funding = Credited(funding[p])]
    BY <1>6 DEF CreditFund
  <2>3. request \in Requests
    BY <1>6, <2>1, NoRequestIs DEF Requests, CreditFund
  <2> HIDE DEF request
  <2>4. Credited(funding[p]) \in Records
    <3> DEFINE f == funding[p].seen
               t == funding[p].transaction
               funded == [f.funded EXCEPT ![t.asset] = @ + t.amount]
               before == PendingOf(f)
               pending == [before EXCEPT ![t.asset] = @ - t.amount]
               requested == IF f.requested = None THEN funding[p].requested ELSE f.requested
               named == IF f.operation = None THEN funding[p].operation ELSE f.operation
    <3>1. f \in Records /\ t \in settled /\ funding[p].requested \in Amounts
          /\ funding[p].operation \in Named
      BY <1>6, <2>1, RequestFields DEF CreditFund, Requests
    <3>2. t.asset \in Assets /\ t.amount \in Nat
      BY <3>1 DEF Types, AgentTypes, Transactions
    <3> HIDE DEF f, t
    <3>3. funded \in Amounts
      BY <3>1, <3>2, RecordFields DEF Amounts
    <3>4. pending \in [Assets -> Int]
      <4>1. before \in [Assets -> Int]
        BY <3>1, RecordFields DEF PendingOf, Nothing
      <4> HIDE DEF before
      <4> QED BY <3>2, <4>1
    <3>5. f.transactions \cup {t} \in SUBSET settled
      BY <3>1, RecordFields
    <3>6. requested \in Amounts \cup {None} /\ named \in Named
      BY <3>1, RecordFields
    <3>7. Credited(funding[p]) =
              [f EXCEPT !.funded = funded, !.transactions = f.transactions \cup {t},
                        !.pending = pending, !.requested = requested, !.operation = named]
      BY DEF Credited, f, t
    <3> HIDE DEF funded, pending, requested, named
    <3> QED BY <3>1, <3>3, <3>4, <3>5, <3>6, <3>7 DEF Records
  <2>5. agent' \in Rows
    BY <2>1, <2>2, <2>4, RowWith, RowFields
  <2> QED BY <1>6, <2>1, <2>2, <2>3, <2>5, WritingFund DEF CreditFund
<1>7. CASE FailFund(p)
  <2> DEFINE request == [NoRequest EXCEPT !.at = "fail", !.seen = agent.funding]
  <2>1. Served /\ agent \in Rows
    BY <1>7, UnderWay DEF FailFund
  <2>2. agent.funding \in Records
    BY <2>1, RowFields
  <2>3. request \in Requests
    BY <2>2, NoRequestIs DEF Requests
  <2>4. FundTo(p, request)
    BY <1>7 DEF FailFund
  <2> HIDE DEF request
  <2> QED BY <1>7, <2>1, <2>3, <2>4, QuietFund DEF FailFund
<1>8. CASE CompleteFund(p)
  <2>1. funding[p] \in Requests /\ Served /\ agent \in Rows
    BY <1>8, UnderWay DEF CompleteFund
  <2>2. PICK named : fundings' = [f \in DOMAIN fundings |->
              IF f = named THEN [fundings[f] EXCEPT !.status = "CONFIRMED"]
              ELSE fundings[f]]
    BY <1>8 DEF CompleteFund
  <2>3. \A f \in DOMAIN fundings : fundings'[f] \in Batch
    BY <2>2, FundingsAre DEF Batch
  <2>4. fundings' \in [1 .. Len(fundings) -> Batch]
    BY <2>2, <2>3, FundingsAre
  <2>5. fundings' \in Seq(Batch) /\ DOMAIN fundings' = DOMAIN fundings
    BY <2>4, FundingsAre, SeqDef
  <2> DEFINE request == [funding[p] EXCEPT !.at = "finish", !.seen = agent.funding]
  <2>6. /\ FundTo(p, request)
        /\ UNCHANGED <<operation, lease, agent, archiving, chain, session>>
    BY <1>8 DEF CompleteFund
  <2>7. Grown
    BY <2>5, <2>6 DEF Grown, chain
  <2>8. AgentTypes'
    BY <2>5, <2>6, <2>7, AgentTyped DEF Types, AgentTypes, chain
  <2>9. request \in Requests
    <3>1. agent.funding \in Records
      BY <2>1, RowFields
    <3> QED BY <1>8, <2>1, <3>1 DEF Requests, CompleteFund
  <2> HIDE DEF request
  <2>10. request \in Requests'
    BY <2>7, <2>9, TypesGrow
  <2>11. RequestTypes'
    BY <2>1, <2>6, <2>7, <2>10, RequestTyped
  <2>12. agent' # None
    BY <1>8, <2>6, UnderWay DEF CompleteFund
  <2> QED BY <2>8, <2>11, <2>12
<1>9. CASE FinishFund(p)
  <2>1. funding[p] \in Requests /\ Served /\ agent \in Rows
    BY <1>9, UnderWay DEF FinishFund
  <2> DEFINE record == [funding[p].seen EXCEPT !.pending = None, !.requested = None,
                                               !.operation = None]
  <2>2. record \in Records
    BY <2>1, RequestFields DEF Records, Named
  <2>3. agent' = [agent EXCEPT !.state = "READY", !.funding = record]
    BY <1>9 DEF FinishFund
  <2> HIDE DEF record
  <2>4. agent' \in Rows
    BY <2>1, <2>2, <2>3, RowWith DEF States
  <2> QED BY <1>9, <2>1, <2>4, NoRequestIs, WritingFund DEF FinishFund
<1>10. CASE WriteFailed(p)
  <2>1. funding[p] \in Requests /\ Served /\ agent \in Rows
    BY <1>10, UnderWay DEF WriteFailed
  <2>2. agent' \in Rows
    BY <1>10, <2>1, RequestFields, RowWith DEF WriteFailed, States
  <2> QED BY <1>10, <2>1, <2>2, NoRequestIs, WritingFund DEF WriteFailed
<1> QED BY <1>1, <1>2, <1>3, <1>4, <1>5, <1>6, <1>7, <1>8, <1>9, <1>10 DEF Fund

\* What saveTradingAgent leaves in the table is a row.
LEMMA SavedIsRow ==
    ASSUME Types, NEW p \in Processes, SaveAgent(p) PROVE agent' \in Rows
<1>1. /\ provisioning[p].wallet \in WalletKeys
      /\ provisioning[p].policy \in Configurations
  BY AgentAssumption
  DEF SaveAgent, Types, ProvisioningTypes, Provisionings, WalletKeys
<1>2. \A w \in WalletKeys, c \in Configurations : NewAgent(w, c) \in Rows
  BY NoRequestIs DEF NewAgent, Rows, States
<1>3. agent = None \/ agent \in Rows
  BY DEF Types, AgentTypes
<1>4. Saved(provisioning[p].wallet, provisioning[p].policy) \in Rows
  <2>1. CASE agent = None
    BY <1>1, <1>2, <2>1 DEF Saved
  <2>2. CASE agent # None
    BY <1>2, <1>3, <2>2, RowFields DEF Saved
  <2> QED BY <2>1, <2>2
<1> QED BY <1>4 DEF SaveAgent

LEMMA OthersKeepTypes ==
    ASSUME Types,
           \/ LeaseEnds \/ Settle \/ SetMandate \/ StartSession \/ StopSession
           \/ \E p \in Processes : Provision(p) \/ Archive(p) \/ Restart(p)
    PROVE  AgentTypes' /\ RequestTypes'
<1>a. ASSUME Provisioned PROVE agent \in Rows /\ Served
  BY <1>a DEF Provisioned, Types, AgentTypes, Served
<1>u. ASSUME UNCHANGED <<operation, fundings, archiving, chain, session, funding>>,
             agent' = agent \/ (agent' \in Rows /\ Served)
      PROVE  AgentTypes' /\ RequestTypes'
  <2>1. Grown
    BY <1>u, NothingGrows DEF chain
  <2>2. agent' = agent \/ agent' \in Rows'
    BY <1>u, <2>1, TypesGrow
  <2>3. AgentTypes'
    BY <1>u, <2>1, <2>2, AgentTyped DEF chain, Types, AgentTypes, Served
  <2>4. RequestTypes'
    BY <1>u, <2>1, <2>2, RequestsTyped
  <2> QED BY <2>3, <2>4
<1>1. CASE LeaseEnds
  <2>1. /\ UNCHANGED <<operation, fundings, archiving, chain, session, funding>>
        /\ agent' = agent
    BY <1>1 DEF LeaseEnds, requests
  <2> QED BY <2>1, <1>u
<1>2. CASE Settle
  <2>1. /\ settled \subseteq settled' /\ settled' \subseteq sent'
        /\ UNCHANGED <<operation, agent, fundings, sent, archiving, session, funding>>
    BY <1>2 DEF Settle, requests, tables, Types, AgentTypes
  <2>2. Grown
    BY <2>1 DEF Grown
  <2>3. AgentTypes'
    BY <2>1, <2>2, AgentTyped DEF Types, AgentTypes
  <2>4. RequestTypes'
    BY <2>1, <2>2, RequestsTyped
  <2> QED BY <2>3, <2>4
<1>3. CASE SetMandate
  <2>1. agent \in Rows /\ Served
    BY <1>3, <1>a DEF SetMandate
  <2> DEFINE state == IF agent.state = "ACTIVE" THEN "ACTIVE" ELSE "READY"
  <2>2. agent' = [agent EXCEPT !.state = state] /\ agent.funding \in Records
    BY <1>3, <2>1, RowFields DEF SetMandate
  <2>3. state \in States
    BY DEF States
  <2> HIDE DEF state
  <2>4. agent' \in Rows
    BY <2>1, <2>2, <2>3, RowWith
  <2> QED BY <1>3, <1>u, <2>1, <2>4 DEF SetMandate, requests
<1>4. CASE StartSession
  <2>1. agent' \in Rows /\ agent \in Rows /\ Served
    BY <1>4, <1>a, RowWith, RowFields DEF StartSession, States
  <2>2. Grown
    BY <1>4, NothingGrows DEF StartSession, chain
  <2>3. agent' \in Rows'
    BY <2>1, <2>2, TypesGrow
  <2>4. AgentTypes'
    BY <1>4, <2>1, <2>2, <2>3, AgentTyped
    DEF StartSession, chain, requests, Types, AgentTypes, Served
  <2>5. RequestTypes'
    BY <1>4, <2>2, <2>3, RequestsTyped DEF StartSession, requests
  <2> QED BY <2>4, <2>5
<1>5. CASE StopSession
  <2>1. agent' \in Rows /\ agent \in Rows /\ Served
    BY <1>5, RowWith, RowFields DEF StopSession, States, Types, AgentTypes, Served
  <2>2. Grown
    BY <1>5, NothingGrows DEF StopSession, chain
  <2>3. agent' \in Rows'
    BY <2>1, <2>2, TypesGrow
  <2>4. AgentTypes'
    BY <1>5, <2>1, <2>2, <2>3, AgentTyped
    DEF StopSession, chain, requests, Types, AgentTypes, Served
  <2>5. RequestTypes'
    BY <1>5, <2>2, <2>3, RequestsTyped DEF StopSession, requests
  <2> QED BY <2>4, <2>5
<1>6. ASSUME NEW p \in Processes, Provision(p) PROVE AgentTypes' /\ RequestTypes'
  <2>1. UNCHANGED <<fundings, archiving, chain, session, funding>>
    BY <1>6
    DEF Provision, ProvisionExisting, BeginProvision, StorePolicy, CreateWallet,
        ListWallets, CreateAgain, StoreWallet, ReadWallet, UpdateWallet, SaveAgent,
        FailProvision, tables, requests
  <2>2. Grown
    BY <2>1, NothingGrows DEF chain
  <2>3. operation' \in Operations
    BY <1>6, ProvisionKeepsProvisioning
  <2>4. agent' = agent \/ agent' \in Rows
    <3>1. CASE SaveAgent(p)
      BY <3>1, SavedIsRow
    <3> QED BY <1>6, <3>1
      DEF Provision, ProvisionExisting, BeginProvision, StorePolicy, CreateWallet,
          ListWallets, CreateAgain, StoreWallet, ReadWallet, UpdateWallet,
          FailProvision, tables
  <2>5. agent' = agent \/ agent' \in Rows'
    BY <2>2, <2>4, TypesGrow
  <2>6. AgentTypes'
    BY <2>1, <2>2, <2>3, <2>5, AgentTyped DEF chain, Types, AgentTypes
  <2>7. RequestTypes'
    BY <2>1, <2>2, <2>3, <2>5, RequestsTyped
  <2> QED BY <2>6, <2>7
<1>7. ASSUME NEW p \in Processes, Archive(p) PROVE AgentTypes' /\ RequestTypes'
  <2>1. UNCHANGED <<operation, fundings, chain, session, funding>>
    BY <1>7 DEF Archive, BeginArchive, RevokeSigner, FinishArchive, FailArchive, tables
  <2>2. Grown
    BY <2>1, NothingGrows DEF chain
  <2>3. agent' = agent \/ agent' \in Rows
    <3>1. CASE FinishArchive(p)
      <4>1. agent \in Rows
        BY <3>1 DEF FinishArchive, Types, AgentTypes, Served
      <4> QED BY <3>1, <4>1, RowWith, RowFields DEF FinishArchive, States
    <3> QED BY <1>7, <3>1 DEF Archive, BeginArchive, RevokeSigner, FailArchive, tables
  <2>4. agent' = agent \/ agent' \in Rows'
    BY <2>2, <2>3, TypesGrow
  <2>5. /\ archiving' \in [Processes -> {"idle", "status", "write"}]
        /\ \A q \in Processes : archiving'[q] # "idle" => archiving[q] # "idle" \/ Served
    BY <1>7, <1>a
    DEF Archive, BeginArchive, RevokeSigner, FinishArchive, FailArchive, ArchiveTo,
        Types, AgentTypes
  <2>6. agent' # None /\ agent = None => operation' \in Operations
    <3>1. FinishArchive(p) => Served
      BY DEF FinishArchive, Types, AgentTypes
    <3>2. FinishArchive(p) \/ agent' = agent
      BY <1>7 DEF Archive, BeginArchive, RevokeSigner, FailArchive, tables
    <3> QED BY <2>1, <3>1, <3>2 DEF Served
  <2>7. AgentTypes'
    <3>1. /\ fundings' \in Seq(Batch) /\ sent' \subseteq Transactions /\ IsFiniteSet(sent')
          /\ settled' \subseteq sent' /\ operation' = operation /\ session' = session
      BY <2>1 DEF chain, Types, AgentTypes
    <3> QED BY <2>2, <2>4, <2>5, <2>6, <3>1, AgentTyped
  <2>8. RequestTypes'
    BY <2>1, <2>2, <2>4, RequestsTyped
  <2> QED BY <2>7, <2>8
<1>8. ASSUME NEW p \in Processes, Restart(p) PROVE AgentTypes' /\ RequestTypes'
  <2>1. /\ UNCHANGED <<operation, agent, fundings, chain, session>>
        /\ FundTo(p, NoRequest) /\ ArchiveTo(p, "idle")
    BY <1>8 DEF Restart
  <2>2. Grown
    BY <2>1, NothingGrows DEF chain
  <2>3. /\ archiving' \in [Processes -> {"idle", "status", "write"}]
        /\ \A q \in Processes : archiving'[q] # "idle" => archiving[q] # "idle"
    BY <2>1 DEF ArchiveTo, Types, AgentTypes
  <2>4. AgentTypes'
    BY <2>1, <2>2, <2>3, AgentTyped DEF chain, Types, AgentTypes
  <2>5. RequestTypes'
    BY <2>1, <2>2, NoRequestIsThen, RequestTyped
  <2> QED BY <2>4, <2>5
<1> QED BY <1>1, <1>2, <1>3, <1>4, <1>5, <1>6, <1>7, <1>8

LEMMA TypesKept == Types /\ [Next]_vars => Types'
<1> SUFFICES ASSUME Types, [Next]_vars PROVE Types'
  OBVIOUS
<1>1. CASE UNCHANGED vars
  <2>1. UNCHANGED <<operation, lease, agent, fundings, configuration, provisioning, funding,
                    archiving, keyBody, attached, signer, sent, settled, session>>
    BY <1>1 DEF vars, tables, requests, provider, chain
  <2> QED BY <2>1
    DEF Types, ProvisioningTypes, AgentTypes, RequestTypes, Rows, Records, Requests, Named,
        Served
<1>2. ASSUME NEW p \in Processes, Provision(p) PROVE Types'
  BY <1>2, ProvisionKeepsProvisioning, OthersKeepTypes DEF Types
<1>3. ASSUME NEW p \in Processes, Fund(p) PROVE Types'
  BY <1>3, OthersKeepProvisioning, FundKeepsTypes DEF Types
<1>4. CASE \/ LeaseEnds \/ Settle \/ SetMandate \/ StartSession \/ StopSession
           \/ \E p \in Processes : Archive(p) \/ Restart(p)
  BY <1>4, OthersKeepProvisioning, OthersKeepTypes DEF Types
<1> QED BY <1>1, <1>2, <1>3, <1>4 DEF Next

\* The rows of the three tables have their types, an agent's row comes with an
\* operation that made it, and no record lists a transaction without a receipt.
THEOREM AgentTypesOK == Spec => []TypeOK
<1>1. Types => TypeOK
  <2> SUFFICES ASSUME Types PROVE TypeOK
    OBVIOUS
  <2>1. ASSUME NEW f \in Records PROVE FundingTypeOK(f)
    BY RecordFields, RowsAreAgents DEF FundingTypeOK, Named
  <2>2. \/ agent = None
        \/ operation # None /\ agent \in Agents /\ FundingTypeOK(agent.funding)
    <3> SUFFICES ASSUME agent # None
                 PROVE  operation # None /\ agent \in Agents /\ FundingTypeOK(agent.funding)
      OBVIOUS
    <3>1. agent \in Rows /\ operation \in Operations
      BY DEF Types, AgentTypes
    <3>2. operation # None
      BY <3>1, AgentAssumption
    <3>3. agent \in Agents /\ agent.funding \in Records
      BY <3>1, RowFields, RowsAreAgents
    <3> QED BY <2>1, <3>2, <3>3
  <2>3. fundings \in Seq([amounts : Amounts, status : {"PENDING", "CONFIRMED"}])
    BY DEF Types, AgentTypes, Batch
  <2>4. \A p \in Processes : FundingTypeOK(funding[p].seen)
    BY <2>1, RequestFields DEF Types, RequestTypes
  <2> QED BY <2>2, <2>3, <2>4 DEF TypeOK, Types, ProvisioningTypes, AgentTypes
<1> QED BY TypesInit, TypesKept, <1>1, PTL DEF Spec

----------------------------------------------------------------------------
(* One pending operation at a time.                                        *)

LEMMA SamePending == OnePending /\ UNCHANGED fundings => OnePending'
BY DEF OnePending, Pending

LEMMA OnePendingKept == Types /\ OnePending /\ [Next]_vars => OnePending'
<1> SUFFICES ASSUME Types, OnePending, [Next]_vars PROVE OnePending'
  OBVIOUS
<1>1. CASE UNCHANGED vars
  BY <1>1, SamePending DEF vars, tables
<1>2. ASSUME NEW p \in Processes, Provision(p) PROVE OnePending'
  BY <1>2, SamePending
  DEF Provision, ProvisionExisting, BeginProvision, StorePolicy, CreateWallet,
      ListWallets, CreateAgain, StoreWallet, ReadWallet, UpdateWallet, SaveAgent,
      FailProvision, tables
<1>3. ASSUME NEW p \in Processes, Fund(p) PROVE OnePending'
  <2>1. CASE ReserveFund(p)
    <3>1. CASE UNCHANGED fundings
      BY <3>1, SamePending
    <3>2. ASSUME NEW batch, Pending = {},
                 fundings' = Append(fundings, [amounts |-> batch, status |-> "PENDING"])
          PROVE  OnePending'
      <4>1. \A f \in DOMAIN fundings' :
                f # Len(fundings) + 1 => f \in DOMAIN fundings /\ fundings'[f] = fundings[f]
        BY <3>2 DEF Types, AgentTypes
      <4>2. \A f \in Pending' : f = Len(fundings) + 1
        BY <3>2, <4>1 DEF Pending
      <4> QED BY <4>2 DEF OnePending
    <3> QED BY <2>1, <3>1, <3>2 DEF ReserveFund, Unreserved
  <2>2. CASE CompleteFund(p)
    <3>1. PICK named : fundings' = [f \in DOMAIN fundings |->
                IF f = named THEN [fundings[f] EXCEPT !.status = "CONFIRMED"]
                ELSE fundings[f]]
      BY <2>2 DEF CompleteFund
    <3>2. Pending' \subseteq Pending
      BY <3>1, FundingsAre DEF Pending, Batch
    <3> QED BY <3>2 DEF OnePending
  <2>3. CASE \/ BeginFund(p) \/ StartFund(p) \/ SendAsset(p) \/ ReadReceipt(p)
             \/ CreditFund(p) \/ FailFund(p) \/ WriteFailed(p) \/ FinishFund(p)
    BY <2>3, SamePending
    DEF BeginFund, StartFund, SendAsset, ReadReceipt, CreditFund, FailFund,
        WriteFailed, FinishFund, tables
  <2> QED BY <1>3, <2>1, <2>2, <2>3 DEF Fund
<1>4. ASSUME NEW p \in Processes, Archive(p) \/ Restart(p) PROVE OnePending'
  BY <1>4, SamePending
  DEF Archive, BeginArchive, RevokeSigner, FinishArchive, FailArchive, Restart, tables
<1>5. CASE LeaseEnds \/ Settle \/ SetMandate \/ StartSession \/ StopSession
  BY <1>5, SamePending
  DEF LeaseEnds, Settle, SetMandate, StartSession, StopSession, tables
<1> QED BY <1>1, <1>2, <1>3, <1>4, <1>5 DEF Next

\* reserveAgentFunding and completeAgentFunding: the agent never has two
\* pending operations, for every number of processes and of requests.
THEOREM OnePendingAlways == Spec => []OnePending
<1>1. Init => OnePending
  BY DEF Init, OnePending, Pending
<1> QED BY TypesInit, TypesKept, OnePendingKept, <1>1, PTL DEF Spec

----------------------------------------------------------------------------
(* One wallet per owner.                                                   *)

\* The wallets were made under the keys they came with.  The key of a
\* configuration comes after the owner's key was refused with another one.
KeysInv ==
    /\ \A k \in WalletKeys : attached[k] # None => keyBody[k] # None
    /\ \A c \in Configurations : keyBody[c] # None =>
           keyBody[c] = c /\ keyBody[OwnerKey] \notin {None, c} /\ attached[OwnerKey] = None

\* What a request or the operation names as the wallet is one; a request that
\* looks for the wallet found the owner's key used with another body, and one
\* that found none is where that key made none.
Placed ==
    {s \in Provisionings :
        /\ s.wallet # None => attached[s.wallet] # None
        /\ s.at \in {"list", "again"} => keyBody[OwnerKey] \notin {None, s.policy}
        /\ s.at = "again" => attached[OwnerKey] = None}

MadeOperations == {o \in Operations : o.wallet # None => attached[o.wallet] # None}

WalletInv ==
    /\ KeysInv
    /\ operation \in Operations => operation \in MadeOperations
    /\ \A p \in Processes : provisioning[p] \in Placed

LEMMA WalletInit == Init => WalletInv
<1> SUFFICES ASSUME Init PROVE WalletInv
  OBVIOUS
<1>1. OwnerKey \in WalletKeys /\ Configurations \subseteq WalletKeys
  BY DEF WalletKeys
<1>2. KeysInv
  BY <1>1 DEF Init, KeysInv
<1>3. Idle \in Placed
  BY DEF Idle, Placed, Provisionings
<1>4. None \notin Operations
  BY AgentAssumption DEF Operations
<1> QED BY <1>2, <1>3, <1>4 DEF Init, WalletInv

\* A wallet stays, and what the owner's key came with.
Kept ==
    /\ \A k \in WalletKeys : attached[k] # None => attached'[k] # None
    /\ keyBody[OwnerKey] # None =>
           keyBody'[OwnerKey] = keyBody[OwnerKey]
           /\ (attached[OwnerKey] = None => attached'[OwnerKey] = None)

LEMMA PlacedKept == Kept => Placed \subseteq Placed' /\ MadeOperations \subseteq MadeOperations'
<1> SUFFICES ASSUME Kept PROVE Placed \subseteq Placed' /\ MadeOperations \subseteq MadeOperations'
  OBVIOUS
<1>1. ASSUME NEW s \in Placed PROVE s \in Placed'
  <2>1. s.wallet \in WalletKeys \cup {None}
    BY DEF Placed, Provisionings
  <2> QED BY <2>1 DEF Kept, Placed
<1>2. ASSUME NEW o \in MadeOperations PROVE o \in MadeOperations'
  <2>1. o.wallet \in WalletKeys \cup {None}
    BY DEF MadeOperations, Operations
  <2> QED BY <2>1 DEF Kept, MadeOperations
<1> QED BY <1>1, <1>2

LEMMA IdlePlaced == Idle \in Placed
BY DEF Idle, Placed, Provisionings

LEMMA IdlePlacedThen == Idle \in Placed'
<1>1. (Idle \in Placed)'
  BY IdlePlaced, PTL
<1> QED BY <1>1

\* A step of a provisioning keeps the invariant if it keeps the keys.
LEMMA WalletStep ==
    ASSUME ProvisioningTypes, WalletInv, NEW p \in Processes, NEW step \in Placed', ProvisionTo(p, step),
           KeysInv', Kept, operation' = operation \/ operation' \in MadeOperations'
    PROVE  WalletInv'
<1>1. Placed \subseteq Placed' /\ MadeOperations \subseteq MadeOperations'
  BY PlacedKept
<1>2. \A q \in Processes : q # p => provisioning'[q] = provisioning[q]
  BY DEF ProvisionTo, ProvisioningTypes
<1>3. provisioning'[p] = step
  BY DEF ProvisionTo, ProvisioningTypes
<1>4. \A q \in Processes : provisioning'[q] \in Placed'
  BY <1>1, <1>2, <1>3 DEF WalletInv
<1>5. operation' \in Operations => operation' \in MadeOperations'
  BY <1>1 DEF WalletInv
<1> QED BY <1>4, <1>5 DEF WalletInv

\* A step that leaves the keys and the wallets keeps what is known of them.
LEMMA SameKeys == UNCHANGED <<keyBody, attached>> /\ KeysInv => KeysInv' /\ Kept
BY DEF KeysInv, Kept

\* A request under way.
LEMMA PlacedFields ==
    ASSUME ProvisioningTypes, WalletInv, NEW p \in Processes
    PROVE  LET s == provisioning[p] IN
           /\ s \in Placed /\ s \in Provisionings
           /\ s.wallet \in WalletKeys \cup {None} /\ s.policy \in Configurations \cup {None}
           /\ s.wallet # None => s.wallet \in WalletKeys /\ attached[s.wallet] # None
           /\ s.at \notin {"idle", "policy"} => s.policy \in Configurations
           /\ s.at \in {"store", "read", "check", "reread", "recheck"} =>
                  s.wallet \in WalletKeys /\ attached[s.wallet] # None
BY DEF WalletInv, Placed, Provisionings

LEMMA ProvisionKeepsWallets ==
    ASSUME Types, WalletInv, NEW p \in Processes, Provision(p) PROVE WalletInv'
<1> DEFINE s == provisioning[p]
<1>t. ProvisioningTypes /\ KeysInv
  BY DEF Types, WalletInv
<1>s. /\ s \in Placed /\ s \in Provisionings
      /\ s.wallet \in WalletKeys \cup {None} /\ s.policy \in Configurations \cup {None}
      /\ s.wallet # None => s.wallet \in WalletKeys /\ attached[s.wallet] # None
      /\ s.at \notin {"idle", "policy"} => s.policy \in Configurations
      /\ s.at \in {"store", "read", "check", "reread", "recheck"} =>
             s.wallet \in WalletKeys /\ attached[s.wallet] # None
  BY <1>t, PlacedFields
<1>k. /\ keyBody \in [WalletKeys -> Configurations \cup {None}]
      /\ attached \in [WalletKeys -> Configurations \cup {None}]
      /\ configuration[p] \in Configurations
      /\ s.at # "idle" => operation \in MadeOperations /\ operation \in Operations
      /\ operation \in MadeOperations \cup {None}
  BY <1>t DEF ProvisioningTypes, WalletInv
<1>o. /\ OwnerKey \in WalletKeys /\ Configurations \subseteq WalletKeys /\ None \notin WalletKeys
      /\ OwnerKey \notin Configurations /\ None \notin Configurations
      /\ WalletKeys = Configurations \cup {OwnerKey}
  BY AgentAssumption DEF WalletKeys
<1>q. ASSUME UNCHANGED <<keyBody, attached>>
      PROVE  KeysInv' /\ Kept /\ Placed \subseteq Placed' /\ MadeOperations \subseteq MadeOperations'
  BY <1>t, <1>q, SameKeys, PlacedKept
<1>1. CASE ProvisionExisting
  <2>1. UNCHANGED <<keyBody, attached, provisioning>>
    BY <1>1 DEF ProvisionExisting, requests, provider
  <2>2. operation \in MadeOperations
    BY <1>1 DEF ProvisionExisting, Types, AgentTypes, WalletInv
  <2>3. operation' \in MadeOperations
    BY <1>1, <2>2 DEF ProvisionExisting, MadeOperations, Operations
  <2> QED BY <2>1, <2>3, <1>q DEF WalletInv
<1>2. CASE BeginProvision(p)
  <2>1. UNCHANGED <<keyBody, attached>> /\ ProvisionTo(p, Resume(operation'))
    BY <1>2 DEF BeginProvision, provider
  <2>2. operation' \in MadeOperations
    <3>1. CASE operation = None
      BY <1>2, <3>1 DEF BeginProvision, MadeOperations, Operations
    <3>2. CASE operation # None
      BY <1>2, <1>k, <3>2 DEF BeginProvision, MadeOperations, Operations
    <3> QED BY <3>1, <3>2
  <2>3. Resume(operation') \in Placed
    BY <2>2 DEF Resume, Idle, MadeOperations, Operations, Placed, Provisionings
  <2> QED BY <1>t, <1>q, <2>1, <2>2, <2>3, WalletStep
<1>3. CASE StorePolicy(p)
  <2> DEFINE step == [s EXCEPT
           !.at = IF s.wallet = None THEN "wallet" ELSE "read",
           !.policy = configuration[p]]
  <2>1. step \in Placed
    BY <1>s, <1>k, <1>o DEF Placed, Provisionings
  <2>2. ProvisionTo(p, step) /\ UNCHANGED <<keyBody, attached>>
    BY <1>3 DEF StorePolicy, provider
  <2> HIDE DEF step
  <2>3. operation' \in MadeOperations
    BY <1>3, <1>k DEF StorePolicy, MadeOperations, Operations
  <2> QED BY <1>t, <1>q, <2>1, <2>2, <2>3, WalletStep
<1>4. CASE CreateWallet(p)
  <2> DEFINE body == s.policy
             done == [s EXCEPT !.at = "store", !.wallet = OwnerKey]
             lost == [s EXCEPT !.at = "refused"]
             list == [s EXCEPT !.at = "list"]
  <2>1. s.at = "wallet" /\ body \in Configurations /\ operation' = operation
    BY <1>4, <1>s DEF CreateWallet, tables
  <2>2. \/ Made(OwnerKey, body) /\ ProvisionTo(p, done)
        \/ Replayed(OwnerKey, body) /\ ProvisionTo(p, done)
        \/ Refused(OwnerKey, body) /\ ProvisionTo(p, lost)
        \/ /\ keyBody[OwnerKey] \notin {None, body} /\ ProvisionTo(p, list)
           /\ UNCHANGED <<keyBody, attached>>
    BY <1>4 DEF CreateWallet, provider
  <2>3. CASE Made(OwnerKey, body) /\ ProvisionTo(p, done)
    <3>1. /\ keyBody[OwnerKey] = None
          /\ keyBody' = [keyBody EXCEPT ![OwnerKey] = body]
          /\ attached' = [attached EXCEPT ![OwnerKey] = body]
      BY <2>3 DEF Made
    <3>2. \A c \in Configurations : keyBody[c] = None
      BY <1>t, <3>1 DEF KeysInv
    <3>3. KeysInv'
      BY <1>k, <1>o, <1>t, <2>1, <3>1, <3>2 DEF KeysInv
    <3>4. Kept
      BY <1>k, <1>o, <2>1, <3>1 DEF Kept
    <3>5. attached'[OwnerKey] # None
      BY <1>k, <1>o, <2>1, <3>1
    <3>6. done \in Placed'
      BY <1>s, <1>o, <2>1, <3>5 DEF Placed, Provisionings
    <3> HIDE DEF done
    <3> QED BY <1>t, <2>1, <2>3, <3>3, <3>4, <3>6, WalletStep
  <2>4. CASE Replayed(OwnerKey, body) /\ ProvisionTo(p, done)
    <3>1. UNCHANGED <<keyBody, attached>> /\ attached[OwnerKey] # None
      BY <2>4 DEF Replayed, provider
    <3>2. done \in Placed
      BY <1>s, <1>o, <2>1, <3>1 DEF Placed, Provisionings
    <3> HIDE DEF done
    <3> QED BY <1>t, <1>q, <2>1, <2>4, <3>1, <3>2, WalletStep
  <2>5. CASE Refused(OwnerKey, body) /\ ProvisionTo(p, lost)
    <3>1. /\ keyBody[OwnerKey] = None
          /\ keyBody' = [keyBody EXCEPT ![OwnerKey] = body]
          /\ attached' = attached
      BY <2>5 DEF Refused
    <3>2. \A c \in Configurations : keyBody[c] = None
      BY <1>t, <3>1 DEF KeysInv
    <3>3. KeysInv'
      BY <1>k, <1>o, <1>t, <2>1, <3>1, <3>2 DEF KeysInv
    <3>4. Kept
      BY <1>k, <1>o, <2>1, <3>1 DEF Kept
    <3>5. lost \in Placed'
      BY <1>s, <1>o, <2>1, <3>1 DEF Placed, Provisionings
    <3> HIDE DEF lost
    <3> QED BY <1>t, <2>1, <2>5, <3>3, <3>4, <3>5, WalletStep
  <2>6. CASE /\ keyBody[OwnerKey] \notin {None, body} /\ ProvisionTo(p, list)
             /\ UNCHANGED <<keyBody, attached>>
    <3>1. list \in Placed
      BY <1>s, <2>1, <2>6 DEF Placed, Provisionings
    <3> HIDE DEF list
    <3> QED BY <1>t, <1>q, <2>1, <2>6, <3>1, WalletStep
  <2> QED BY <2>2, <2>3, <2>4, <2>5, <2>6
<1>5. CASE ListWallets(p)
  <2>1. UNCHANGED <<keyBody, attached>> /\ operation' = operation /\ s.at = "list"
    BY <1>5 DEF ListWallets, tables, provider
  <2>2. PICK step \in Placed : ProvisionTo(p, step)
    <3>1. ASSUME NEW w \in Matches PROVE [s EXCEPT !.at = "store", !.wallet = w] \in Placed
      <4>1. w \in WalletKeys /\ attached[w] # None
        BY DEF Matches
      <4> QED BY <1>s, <1>o, <2>1, <4>1 DEF Placed, Provisionings
    <3>2. ASSUME Matches = {} PROVE [s EXCEPT !.at = "again"] \in Placed
      <4>1. attached[OwnerKey] = None
        BY <1>o, <3>2 DEF Matches
      <4> QED BY <1>s, <2>1, <4>1 DEF Placed, Provisionings
    <3> QED BY <1>5, <3>1, <3>2 DEF ListWallets
  <2> QED BY <1>t, <1>q, <2>1, <2>2, WalletStep
<1>6. CASE CreateAgain(p)
  <2> DEFINE body == s.policy
             done == [s EXCEPT !.at = "store", !.wallet = body]
             lost == [s EXCEPT !.at = "refused"]
  <2>1. /\ s.at = "again" /\ body \in Configurations /\ operation' = operation
        /\ keyBody[OwnerKey] \notin {None, body} /\ attached[OwnerKey] = None
    BY <1>6, <1>s DEF CreateAgain, tables, Placed
  <2>2. \/ Made(body, body) /\ ProvisionTo(p, done)
        \/ Replayed(body, body) /\ ProvisionTo(p, done)
        \/ Refused(body, body) /\ ProvisionTo(p, lost)
    BY <1>6 DEF CreateAgain
  <2>3. CASE Made(body, body) /\ ProvisionTo(p, done)
    <3>1. /\ keyBody[body] = None
          /\ keyBody' = [keyBody EXCEPT ![body] = body]
          /\ attached' = [attached EXCEPT ![body] = body]
      BY <2>3 DEF Made
    <3>2. /\ keyBody'[OwnerKey] = keyBody[OwnerKey] /\ attached'[OwnerKey] = attached[OwnerKey]
          /\ attached'[body] = body
      BY <1>k, <1>o, <2>1, <3>1
    <3>3. KeysInv'
      BY <1>k, <1>o, <1>t, <2>1, <3>1, <3>2 DEF KeysInv
    <3>4. Kept
      BY <1>k, <1>o, <2>1, <3>1, <3>2 DEF Kept
    <3>5. done \in Placed'
      BY <1>s, <1>o, <2>1, <3>2 DEF Placed, Provisionings
    <3> HIDE DEF done
    <3> QED BY <1>t, <2>1, <2>3, <3>3, <3>4, <3>5, WalletStep
  <2>4. CASE Replayed(body, body) /\ ProvisionTo(p, done)
    <3>1. UNCHANGED <<keyBody, attached>> /\ attached[body] # None
      BY <2>4 DEF Replayed, provider
    <3>2. done \in Placed
      BY <1>s, <1>o, <2>1, <3>1 DEF Placed, Provisionings
    <3> HIDE DEF done
    <3> QED BY <1>t, <1>q, <2>1, <2>4, <3>1, <3>2, WalletStep
  <2>5. CASE Refused(body, body) /\ ProvisionTo(p, lost)
    <3>1. /\ keyBody[body] = None
          /\ keyBody' = [keyBody EXCEPT ![body] = body]
          /\ attached' = attached
      BY <2>5 DEF Refused
    <3>2. keyBody'[OwnerKey] = keyBody[OwnerKey]
      BY <1>k, <1>o, <2>1, <3>1
    <3>3. KeysInv'
      BY <1>k, <1>o, <1>t, <2>1, <3>1, <3>2 DEF KeysInv
    <3>4. Kept
      BY <1>k, <1>o, <2>1, <3>1, <3>2 DEF Kept
    <3>5. lost \in Placed'
      BY <1>s, <1>o, <2>1, <3>1 DEF Placed, Provisionings
    <3> HIDE DEF lost
    <3> QED BY <1>t, <2>1, <2>5, <3>3, <3>4, <3>5, WalletStep
  <2> QED BY <2>2, <2>3, <2>4, <2>5
<1>7. CASE StoreWallet(p)
  <2> DEFINE step == [s EXCEPT !.at = "read"]
  <2>1. s.at = "store" /\ UNCHANGED <<keyBody, attached>> /\ ProvisionTo(p, step)
    BY <1>7 DEF StoreWallet, provider
  <2>2. step \in Placed
    BY <1>s, <2>1 DEF Placed, Provisionings
  <2> HIDE DEF step
  <2>3. operation' \in MadeOperations
    BY <1>7, <1>s, <1>k, <2>1 DEF StoreWallet, MadeOperations, Operations
  <2> QED BY <1>t, <1>q, <2>1, <2>2, <2>3, WalletStep
<1>8. CASE ReadWallet(p)
  <2> DEFINE read == [policy |-> attached[s.wallet], signer |-> s.wallet \in signer]
             step == [s EXCEPT !.at = IF s.at = "read" THEN "check" ELSE "recheck",
                               !.readback = read]
  <2>1. /\ s.at \in {"read", "reread"} /\ UNCHANGED <<keyBody, attached>>
        /\ operation' = operation /\ ProvisionTo(p, step)
    BY <1>8 DEF ReadWallet, provider, tables
  <2>2. read \in [policy : Configurations \cup {None}, signer : BOOLEAN]
    BY <1>s, <1>k, <2>1
  <2> HIDE DEF read
  <2>3. step \in Placed
    BY <1>s, <2>1, <2>2 DEF Placed, Provisionings
  <2> HIDE DEF step
  <2> QED BY <1>t, <1>q, <2>1, <2>3, WalletStep
<1>9. CASE UpdateWallet(p)
  <2> DEFINE step == [s EXCEPT !.at = "reread"]
             w == s.wallet
  <2>1. /\ s.at = "check" /\ keyBody' = keyBody /\ operation' = operation
        /\ attached' = [attached EXCEPT ![w] = s.policy] /\ ProvisionTo(p, step)
    BY <1>9 DEF UpdateWallet, tables
  <2>2. w \in WalletKeys /\ attached[w] # None /\ s.policy \in Configurations
    BY <1>s, <2>1
  <2>3. \A k \in WalletKeys : attached'[k] = None <=> attached[k] = None
    BY <1>k, <1>o, <2>1, <2>2
  <2>4. KeysInv' /\ Kept
    BY <1>o, <1>t, <2>1, <2>3 DEF KeysInv, Kept
  <2>5. step \in Placed
    BY <1>s, <2>1 DEF Placed, Provisionings
  <2> HIDE DEF step
  <2>6. step \in Placed'
    BY <2>4, <2>5, PlacedKept
  <2> QED BY <1>t, <2>1, <2>4, <2>6, WalletStep
<1>10. CASE SaveAgent(p)
  <2>1. s.at \in {"check", "recheck"} /\ UNCHANGED <<keyBody, attached>> /\ ProvisionTo(p, Idle)
    BY <1>10 DEF SaveAgent, provider
  <2>2. operation' \in MadeOperations
    BY <1>10, <1>s, <2>1 DEF SaveAgent, MadeOperations, Operations
  <2> QED BY <1>t, <1>q, <2>1, <2>2, IdlePlaced, WalletStep
<1>11. CASE FailProvision(p)
  <2>1. s.at # "idle" /\ UNCHANGED <<keyBody, attached>> /\ ProvisionTo(p, Idle)
    BY <1>11 DEF FailProvision, provider
  <2>2. operation' \in MadeOperations
    BY <1>11, <1>k, <2>1 DEF FailProvision, MadeOperations, Operations
  <2> QED BY <1>t, <1>q, <2>1, <2>2, IdlePlaced, WalletStep
<1> QED
  BY <1>1, <1>2, <1>3, <1>4, <1>5, <1>6, <1>7, <1>8, <1>9, <1>10, <1>11 DEF Provision

LEMMA WalletKept == Types /\ WalletInv /\ [Next]_vars => WalletInv'
<1> SUFFICES ASSUME Types, WalletInv, [Next]_vars PROVE WalletInv'
  OBVIOUS
<1>q. ASSUME UNCHANGED <<keyBody, attached, operation>>
      PROVE  KeysInv' /\ Kept /\ Placed \subseteq Placed' /\ MadeOperations \subseteq MadeOperations'
  BY <1>q, SameKeys, PlacedKept DEF WalletInv
<1>s. ASSUME UNCHANGED <<keyBody, attached, operation, provisioning>> PROVE WalletInv'
  BY <1>s, <1>q DEF WalletInv
<1>1. CASE UNCHANGED vars
  BY <1>1, <1>s DEF vars, tables, requests, provider
<1>2. ASSUME NEW p \in Processes, Provision(p) PROVE WalletInv'
  BY <1>2, ProvisionKeepsWallets
<1>3. ASSUME NEW p \in Processes, Fund(p) \/ Archive(p) PROVE WalletInv'
  <2>1. UNCHANGED <<keyBody, attached, operation, provisioning>>
    BY <1>3
    DEF Fund, BeginFund, ReserveFund, StartFund, SendAsset, ReadReceipt, CreditFund,
        FailFund, WriteFailed, CompleteFund, FinishFund, Archive, BeginArchive, RevokeSigner,
        FinishArchive, FailArchive, tables, provider
  <2> QED BY <1>s, <2>1
<1>4. ASSUME NEW p \in Processes, Restart(p) PROVE WalletInv'
  <2>1. UNCHANGED <<keyBody, attached, operation>> /\ ProvisionTo(p, Idle)
    BY <1>4 DEF Restart, provider
  <2> QED BY <1>q, <2>1, IdlePlaced, WalletStep DEF Types
<1>5. CASE LeaseEnds \/ Settle \/ SetMandate \/ StartSession \/ StopSession
  <2>1. UNCHANGED <<keyBody, attached, operation, provisioning>>
    BY <1>5 DEF LeaseEnds, Settle, SetMandate, StartSession, StopSession, tables,
                provider, requests
  <2> QED BY <1>s, <2>1
<1> QED BY <1>1, <1>2, <1>3, <1>4, <1>5 DEF Next

\* With a configuration and the one it follows, as in a deployment that replaces
\* another, one wallet is made at most: who makes one under another key than the
\* owner's has the configuration that the owner's key was not refused with.
LEMMA WalletIsOne ==
    ASSUME NEW c1, NEW c2, Configurations \subseteq {c1, c2}, Types, KeysInv
    PROVE  OneWalletPerOwner
<1> DEFINE wallets == {w \in WalletKeys : attached[w] # None}
<1>1. ASSUME NEW v \in wallets, NEW w \in wallets PROVE v = w
  <2>1. keyBody[OwnerKey] \in {c1, c2, None}
    BY DEF Types, ProvisioningTypes, WalletKeys
  <2>2. /\ v = OwnerKey \/ v \in Configurations
        /\ w = OwnerKey \/ w \in Configurations
        /\ keyBody[v] # None /\ keyBody[w] # None
    BY DEF WalletKeys, KeysInv
  <2>3. CASE v = OwnerKey \/ w = OwnerKey
    BY <2>2, <2>3 DEF KeysInv
  <2>4. CASE v \in Configurations /\ w \in Configurations
    BY <2>1, <2>2, <2>4 DEF KeysInv
  <2> QED BY <2>2, <2>3, <2>4
<1>2. wallets = {} \/ \E w : wallets = {w}
  BY <1>1
<1>3. Cardinality(wallets) <= 1
  <2> HIDE DEF wallets
  <2>1. CASE wallets = {}
    BY <2>1, FS_EmptySet
  <2>2. CASE \E w : wallets = {w}
    <3>1. PICK w : wallets = {w}
      BY <2>2
    <3>2. Cardinality({w}) = 1
      BY FS_Singleton
    <3> QED BY <3>1, <3>2
  <2> QED BY <1>2, <2>1, <2>2
<1> QED BY <1>3 DEF OneWalletPerOwner

\* TradingAgentService.provision: the owner has one wallet at most, for every
\* number of processes, configured in two ways at most.
THEOREM OneWalletOfTwo ==
    ASSUME NEW old, NEW new, Configurations \subseteq {old, new}
    PROVE  Spec => []OneWalletPerOwner
<1>1. Types /\ WalletInv => OneWalletPerOwner
  BY WalletIsOne DEF WalletInv
<1> QED BY TypesInit, TypesKept, WalletInit, WalletKept, <1>1, PTL DEF Spec

----------------------------------------------------------------------------
(* Sums over finite sets.                                                  *)
(*                                                                         *)
(* What MapThenSumSet returns is shown without induction over sets: of the *)
(* subsets for which a statement fails one is least, and it holds there.   *)
(* The argument is that of DelegatedSessionProofs, for the sums taken here. *)

\* A set of subsets of a finite set has a least one.
LEMMA LeastSubset ==
    ASSUME NEW S, IsFiniteSet(S), NEW B, B \subseteq SUBSET S, B # {}
    PROVE  \E T \in B : \A U \in B : U \subseteq T => U = T
<1> DEFINE R == StrictSubsetOrdering(S)
<1>1. IsWellFoundedOn(R, FiniteSubsetsOf(S)) /\ FiniteSubsetsOf(S) = SUBSET S
  BY FS_StrictSubsetOrderingWellFounded, FS_FiniteSubsetsOfFinite, Zenon
<1>2. IsWellFoundedOn(R, SUBSET S)
  BY <1>1, Zenon
<1> HIDE DEF R
<1>3. PICK T \in B : \A U \in B : ~(<<U, T>> \in R)
  BY <1>2, WFMin, Zenon
<1>4. ASSUME NEW U \in B, U \subseteq T, U # T PROVE <<U, T>> \in R
  <2>1. <<U, T>> \in (SUBSET S) \X (SUBSET S)
    OBVIOUS
  <2>2. <<U, T>>[1] = U /\ <<U, T>>[2] = T
    OBVIOUS
  <2> QED BY <1>4, <2>1, <2>2 DEF R, StrictSubsetOrdering
<1>5. \A U \in B : U \subseteq T => U = T
  BY <1>3, <1>4
<1> QED BY <1>5

\* The element MapThenSumSet takes first.
Any(s) == CHOOSE x \in s : TRUE

\* f has the sums over the subsets of T, taken as MapThenSumSet takes them.
Sums(f, T) ==
    f = [s \in SUBSET T |-> IF s = {} THEN 0 ELSE Any(s).amount + f[s \ {Any(s)}]]

Sum(T) == MapThenSumSet(LAMBDA t : t.amount, T)

\* That is how MapThenSumSet defines a sum, without saying that there are any.
LEMMA SumIs ==
    ASSUME NEW T
    PROVE  Sum(T) = (CHOOSE f : Sums(f, T))[T]
BY DEF Sum, MapThenSumSet, MapThenFoldSet, Sums, Any

\* It is in the set, and the set without it is smaller.
LEMMA AnyIn ==
    ASSUME NEW T, NEW s \in SUBSET T, s # {}
    PROVE  Any(s) \in s /\ s \ {Any(s)} \in SUBSET T /\ s \ {Any(s)} # s
BY DEF Any

\* The sums over the subsets of a finite set are determined,
LEMMA SumsUnique ==
    ASSUME NEW T, IsFiniteSet(T), NEW f, NEW g, Sums(f, T), Sums(g, T)
    PROVE  f = g
<1> DEFINE B == {s \in SUBSET T : f[s] # g[s]}
<1>1. f = [s \in SUBSET T |-> f[s]] /\ g = [s \in SUBSET T |-> g[s]]
  BY DEF Sums
<1>2. ASSUME NEW s \in B, \A U \in B : U \subseteq s => U = s PROVE FALSE
  <2>1. /\ f[s] = IF s = {} THEN 0 ELSE Any(s).amount + f[s \ {Any(s)}]
        /\ g[s] = IF s = {} THEN 0 ELSE Any(s).amount + g[s \ {Any(s)}]
    BY DEF Sums
  <2>2. s # {}
    BY <2>1
  <2>3. s \ {Any(s)} \in SUBSET T /\ s \ {Any(s)} # s /\ s \ {Any(s)} \subseteq s
    BY <2>2, AnyIn
  <2>4. s \ {Any(s)} \notin B
    BY <1>2, <2>3
  <2>5. f[s \ {Any(s)}] = g[s \ {Any(s)}]
    BY <2>3, <2>4
  <2> QED BY <2>1, <2>5
<1>3. B = {}
  <2> SUFFICES ASSUME B # {} PROVE FALSE
    OBVIOUS
  <2>1. B \subseteq SUBSET T
    OBVIOUS
  <2> HIDE DEF B
  <2>2. PICK s \in B : \A U \in B : U \subseteq s => U = s
    BY <2>1, LeastSubset
  <2> QED BY <1>2, <2>2
<1> QED BY <1>1, <1>3

\* those of a subset are among those of the set,
LEMMA SumsRestrict ==
    ASSUME NEW T, NEW f, Sums(f, T), NEW U \in SUBSET T
    PROVE  Sums([s \in SUBSET U |-> f[s]], U)
<1> DEFINE g == [s \in SUBSET U |-> f[s]]
<1>1. ASSUME NEW s \in SUBSET U
      PROVE  g[s] = IF s = {} THEN 0 ELSE Any(s).amount + g[s \ {Any(s)}]
  <2>1. s \in SUBSET T
    OBVIOUS
  <2>2. f[s] = IF s = {} THEN 0 ELSE Any(s).amount + f[s \ {Any(s)}]
    BY <2>1 DEF Sums
  <2>3. s # {} => s \ {Any(s)} \in SUBSET U
    BY AnyIn
  <2> QED BY <2>2, <2>3
<1> QED BY <1>1 DEF Sums

\* and there are such sums.
LEMMA SumsExist ==
    ASSUME NEW S, IsFiniteSet(S)
    PROVE  \E f : Sums(f, S)
<1> DEFINE B == {T \in SUBSET S : ~ \E f : Sums(f, T)}
           Of(T) == CHOOSE f : Sums(f, T)
<1>1. ASSUME NEW T \in B, \A U \in B : U \subseteq T => U = T PROVE FALSE
  <2> DEFINE F == [s \in SUBSET T |-> IF s = {} THEN 0
                                      ELSE Any(s).amount + Of(s \ {Any(s)})[s \ {Any(s)}]]
  <2>1. T \in SUBSET S /\ IsFiniteSet(T)
    BY FS_Subset
  <2>2. ASSUME NEW U \in SUBSET T, U # T PROVE Sums(Of(U), U) /\ IsFiniteSet(U)
    <3>1. U \in SUBSET S /\ U \notin B
      BY <1>1, <2>1, <2>2
    <3>2. \E f : Sums(f, U)
      BY <3>1
    <3> QED BY <2>1, <3>2, FS_Subset
  <2> HIDE DEF Of
  <2>3. ASSUME NEW U \in SUBSET T, U # T PROVE F[U] = Of(U)[U]
    <3>1. Sums(Of(U), U)
      BY <2>2, <2>3
    <3>2. CASE U = {}
      <4>1. Of(U)[U] = 0
        BY <3>1, <3>2 DEF Sums
      <4> QED BY <3>2, <4>1
    <3>3. CASE U # {}
      <4> DEFINE W == U \ {Any(U)}
                 r == [s \in SUBSET W |-> Of(U)[s]]
      <4>1. W \in SUBSET U /\ W \in SUBSET T /\ W # T
        BY <2>3, <3>3, AnyIn
      <4>2. Sums(Of(W), W) /\ IsFiniteSet(W)
        BY <2>2, <4>1
      <4> HIDE DEF W
      <4>3. Sums(r, W)
        BY <3>1, <4>1, SumsRestrict
      <4> HIDE DEF r
      <4>4. r = Of(W)
        BY <4>2, <4>3, SumsUnique
      <4>5. Of(U)[W] = Of(W)[W]
        BY <4>4 DEF r
      <4>6. Of(U)[U] = Any(U).amount + Of(U)[W]
        BY <3>1, <3>3 DEF Sums, W
      <4>7. F[U] = Any(U).amount + Of(W)[W]
        BY <3>3 DEF W
      <4> QED BY <4>5, <4>6, <4>7
    <3> QED BY <3>2, <3>3
  <2>4. ASSUME NEW s \in SUBSET T
        PROVE  F[s] = IF s = {} THEN 0 ELSE Any(s).amount + F[s \ {Any(s)}]
    <3>1. CASE s = {}
      BY <3>1
    <3>2. CASE s # {}
      <4>1. s \ {Any(s)} \in SUBSET T /\ s \ {Any(s)} # T
        BY <3>2, AnyIn
      <4>2. F[s \ {Any(s)}] = Of(s \ {Any(s)})[s \ {Any(s)}]
        BY <2>3, <4>1
      <4>3. F[s] = Any(s).amount + Of(s \ {Any(s)})[s \ {Any(s)}]
        BY <3>2
      <4> HIDE DEF F
      <4> QED BY <3>2, <4>2, <4>3
    <3> QED BY <3>1, <3>2
  <2>5. F = [s \in SUBSET T |-> F[s]]
    OBVIOUS
  <2> HIDE DEF F
  <2>6. Sums(F, T)
    BY <2>4, <2>5 DEF Sums
  <2> QED BY <2>6
<1>2. B = {}
  <2> SUFFICES ASSUME B # {} PROVE FALSE
    OBVIOUS
  <2>1. B \subseteq SUBSET S
    OBVIOUS
  <2> HIDE DEF B
  <2>2. PICK T \in B : \A U \in B : U \subseteq T => U = T
    BY <2>1, LeastSubset
  <2> QED BY <1>1, <2>2
<1> QED BY <1>2

\* The sum over a set is an element's and the sum over the rest.
LEMMA SumStep ==
    ASSUME NEW T, IsFiniteSet(T)
    PROVE  Sum(T) = IF T = {} THEN 0 ELSE Any(T).amount + Sum(T \ {Any(T)})
<1> DEFINE Of(U) == CHOOSE f : Sums(f, U)
<1>1. ASSUME NEW U \in SUBSET T PROVE Sums(Of(U), U) /\ IsFiniteSet(U) /\ Sum(U) = Of(U)[U]
  BY FS_Subset, SumsExist, SumIs
<1> HIDE DEF Of
<1>2. Sums(Of(T), T) /\ Sum(T) = Of(T)[T]
  BY <1>1
<1>3. CASE T = {}
  BY <1>2, <1>3 DEF Sums
<1>4. CASE T # {}
  <2> DEFINE U == T \ {Any(T)}
             r == [s \in SUBSET U |-> Of(T)[s]]
  <2>1. U \in SUBSET T
    OBVIOUS
  <2>2. Of(T)[T] = Any(T).amount + Of(T)[U]
    BY <1>2, <1>4 DEF Sums
  <2> HIDE DEF U
  <2> HIDE DEF r
  <2>3. Sums(r, U)
    <3>1. Sums(Of(T), T)
      BY <1>2
    <3> QED BY <2>1, <3>1, SumsRestrict DEF r
  <2>4. Sums(Of(U), U) /\ IsFiniteSet(U) /\ Sum(U) = Of(U)[U]
    BY <1>1, <2>1
  <2>5. r = Of(U)
    BY <2>3, <2>4, SumsUnique
  <2>6. Of(T)[U] = Of(U)[U]
    BY <2>5 DEF r
  <2> QED BY <1>2, <1>4, <2>2, <2>4, <2>6 DEF U
<1> QED BY <1>3, <1>4

\* The sum of natural numbers is one.
LEMMA SumIsNat ==
    ASSUME NEW S, IsFiniteSet(S), \A x \in S : x.amount \in Nat
    PROVE  \A T \in SUBSET S : Sum(T) \in Nat
<1> DEFINE B == {T \in SUBSET S : Sum(T) \notin Nat}
<1>1. ASSUME NEW T \in B, \A U \in B : U \subseteq T => U = T PROVE FALSE
  <2>1. T \in SUBSET S /\ IsFiniteSet(T)
    BY FS_Subset
  <2>2. T # {}
    <3>1. Sum(T) # 0
      OBVIOUS
    <3> HIDE DEF B
    <3> QED BY <2>1, <3>1, SumStep
  <2>3. Sum(T) = Any(T).amount + Sum(T \ {Any(T)})
    BY <2>1, <2>2, SumStep
  <2>4. Any(T) \in S /\ T \ {Any(T)} \in SUBSET S /\ T \ {Any(T)} # T
    BY <2>1, <2>2, AnyIn
  <2>5. Sum(T \ {Any(T)}) \in Nat
    BY <1>1, <2>4
  <2> QED BY <2>3, <2>4, <2>5
<1>2. B = {}
  <2> SUFFICES ASSUME B # {} PROVE FALSE
    OBVIOUS
  <2>1. B \subseteq SUBSET S
    OBVIOUS
  <2> HIDE DEF B
  <2>2. PICK T \in B : \A U \in B : U \subseteq T => U = T
    BY <2>1, LeastSubset
  <2> QED BY <1>1, <2>2
<1> QED BY <1>2

\* Whichever element is taken out of a sum, the sum is it and the sum over the rest.
LEMMA SumRemove ==
    ASSUME NEW S, IsFiniteSet(S), \A x \in S : x.amount \in Nat
    PROVE  \A T \in SUBSET S : \A y \in T : Sum(T) = y.amount + Sum(T \ {y})
<1> DEFINE B == {T \in SUBSET S : \E y \in T : Sum(T) # y.amount + Sum(T \ {y})}
<1>1. ASSUME NEW T \in B, \A U \in B : U \subseteq T => U = T PROVE FALSE
  <2>1. T \in SUBSET S /\ IsFiniteSet(T)
    BY FS_Subset
  <2>2. PICK y \in T : Sum(T) # y.amount + Sum(T \ {y})
    OBVIOUS
  <2> DEFINE x == Any(T)
             U == T \ {x}
             V == T \ {y}
             W == T \ {x, y}
  <2>3. x \in T
    BY <2>1, AnyIn
  <2>4. Sum(T) = x.amount + Sum(U)
    BY <2>1, SumStep
  <2>5. x # y
    BY <2>2, <2>4
  <2>6. U \in SUBSET S /\ V \in SUBSET S /\ U \ {y} = W /\ V \ {x} = W /\ W \in SUBSET S
    BY <2>1
  <2>7. y \in U /\ x \in V /\ U # T /\ V # T /\ U \subseteq T /\ V \subseteq T
    BY <2>3, <2>5
  <2> HIDE DEF x, U, V, W
  <2>8. Sum(U) = y.amount + Sum(W)
    BY <1>1, <2>6, <2>7
  <2>9. Sum(V) = x.amount + Sum(W)
    BY <1>1, <2>6, <2>7
  <2>10. x.amount \in Nat /\ y.amount \in Nat /\ Sum(W) \in Nat
    BY <2>1, <2>3, <2>6, SumIsNat
  <2> QED BY <2>2, <2>4, <2>8, <2>9, <2>10 DEF V
<1>2. B = {}
  <2> SUFFICES ASSUME B # {} PROVE FALSE
    OBVIOUS
  <2>1. B \subseteq SUBSET S
    OBVIOUS
  <2> HIDE DEF B
  <2>2. PICK T \in B : \A U \in B : U \subseteq T => U = T
    BY <2>1, LeastSubset
  <2> QED BY <1>1, <2>2
<1> QED BY <1>2

\* A set with one element more has a sum that is larger by it.
LEMMA SumAdd ==
    ASSUME NEW T, IsFiniteSet(T), \A x \in T : x.amount \in Nat,
           NEW y, y \notin T, y.amount \in Nat
    PROVE  Sum(T \cup {y}) = Sum(T) + y.amount
<1> DEFINE S == T \cup {y}
<1>1. IsFiniteSet(S) /\ \A x \in S : x.amount \in Nat
  BY FS_AddElement
<1>2. S \in SUBSET S /\ T \in SUBSET S /\ y \in S /\ S \ {y} = T
  OBVIOUS
<1> HIDE DEF S
<1>3. Sum(S) = y.amount + Sum(T) /\ Sum(T) \in Nat
  BY <1>1, <1>2, SumRemove, SumIsNat
<1> QED BY <1>3 DEF S

LEMMA SumOfNothing == Sum({}) = 0
BY SumStep, FS_EmptySet

----------------------------------------------------------------------------
(* What is funded is what is recorded.                                     *)

Of(T, a) == {t \in T : t.asset = a}

\* The record shows the sum of its transactions.
Adds(f) == \A a \in Assets : f.funded[a] = Sum(Of(f.transactions, a))

\* The records that anyone may still write: the agent's, those that requests
\* have read, and that of a new agent.
Recorded ==
    {f \in Records : f = NoFunding \/ (agent # None /\ f = agent.funding)
                     \/ \E q \in Processes : f = funding[q].seen}

\* The requests with a transaction on its way into a record.
Carrying == {p \in Processes : funding[p].at \in {"receipt", "credit"}}

RecordInv ==
    /\ \A t \in sent : t.number <= Cardinality(sent)
    /\ \A f \in Recorded :
         Adds(f) /\ \A p \in Carrying : funding[p].transaction \notin f.transactions
    /\ \A p, q \in Carrying : funding[p].transaction = funding[q].transaction => p = q

LEMMA NothingAdds == Adds(NoFunding)
<1>1. \A a \in Assets : Of({}, a) = {}
  BY DEF Of
<1> QED BY <1>1, SumOfNothing DEF Adds, NoFunding, Nothing

LEMMA RecordInit == Init => RecordInv
<1> SUFFICES ASSUME Init PROVE RecordInv
  OBVIOUS
<1>1. Recorded \subseteq {NoFunding} /\ Carrying = {} /\ sent = {}
  BY DEF Init, Recorded, Carrying, NoRequest
<1> QED BY <1>1, NothingAdds DEF RecordInv

\* A step keeps the invariant that sends nothing, carries nothing else, and
\* leaves no record that was not there.
LEMMA SameRecords ==
    ASSUME RecordInv, sent' = sent,
           \A f \in Recorded' : \E g \in Recorded :
               f.funded = g.funded /\ f.transactions = g.transactions,
           \A p \in Carrying' :
               p \in Carrying /\ funding'[p].transaction = funding[p].transaction
    PROVE  RecordInv'
<1>1. \A f \in Recorded' : \E g \in Recorded : Adds(f) /\ f.transactions = g.transactions
  BY DEF RecordInv, Adds
<1> QED BY <1>1 DEF RecordInv

\* The records, one by one.
LEMMA RecordedAre ==
    ASSUME Types
    PROVE  /\ NoFunding \in Recorded
           /\ agent # None => agent.funding \in Recorded
           /\ \A q \in Processes : funding[q].seen \in Recorded
           /\ \A f \in Recorded : f \in Records
           /\ \A q \in Processes : funding[q] \in Requests
<1>1. agent # None => agent.funding \in Records
  BY RowFields DEF Types, AgentTypes
<1>2. \A q \in Processes : funding[q] \in Requests /\ funding[q].seen \in Records
  BY RequestFields DEF Types, RequestTypes
<1> QED BY <1>1, <1>2, NoRequestIs DEF Recorded

\* A step that sends nothing and lets no request or one request p on, to one
\* that carries nothing else and has read a record that is there.
LEMMA RecordStep ==
    ASSUME Types, RecordInv, sent' = sent, NEW p \in Processes, NEW request,
           FundTo(p, request),
           \E g \in Recorded : request.seen.funded = g.funded
                               /\ request.seen.transactions = g.transactions,
           agent' # None =>
               \E g \in Recorded : agent'.funding.funded = g.funded
                                   /\ agent'.funding.transactions = g.transactions,
           request.at \in {"receipt", "credit"} =>
               p \in Carrying /\ request.transaction = funding[p].transaction
    PROVE  RecordInv'
<1>1. funding'[p] = request /\ \A q \in Processes : q # p => funding'[q] = funding[q]
  BY DEF FundTo, Types, RequestTypes
<1>2. ASSUME NEW f \in Recorded'
      PROVE  \E g \in Recorded : f.funded = g.funded /\ f.transactions = g.transactions
  <2>1. \/ f = NoFunding \/ (agent' # None /\ f = agent'.funding)
        \/ \E q \in Processes : f = funding'[q].seen
    BY <1>2 DEF Recorded
  <2> QED BY <1>1, <2>1, RecordedAre
<1>3. \A q \in Carrying' : q \in Carrying /\ funding'[q].transaction = funding[q].transaction
  BY <1>1 DEF Carrying
<1> QED BY <1>2, <1>3, SameRecords

LEMMA AgentStep ==
    ASSUME Types, RecordInv, sent' = sent, funding' = funding,
           agent' # None =>
               \E g \in Recorded : agent'.funding.funded = g.funded
                                   /\ agent'.funding.transactions = g.transactions
    PROVE  RecordInv'
<1>1. ASSUME NEW f \in Recorded'
      PROVE  \E g \in Recorded : f.funded = g.funded /\ f.transactions = g.transactions
  <2>1. \/ f = NoFunding \/ (agent' # None /\ f = agent'.funding)
        \/ \E q \in Processes : f = funding[q].seen
    BY <1>1 DEF Recorded
  <2> QED BY <2>1, RecordedAre
<1>2. \A q \in Carrying' : q \in Carrying
  BY DEF Carrying
<1> QED BY <1>1, <1>2, SameRecords

LEMMA FundKeepsRecords ==
    ASSUME Types, RecordInv, NEW p \in Processes, Fund(p) PROVE RecordInv'
<1>r. /\ NoFunding \in Recorded
      /\ agent # None => agent.funding \in Recorded
      /\ \A q \in Processes : funding[q].seen \in Recorded
      /\ \A q \in Processes : funding[q] \in Requests
  BY RecordedAre
<1>n. NoRequest.seen = NoFunding /\ NoRequest.at = "idle"
  BY DEF NoRequest
<1>u. ASSUME funding[p].at # "idle"
      PROVE  funding[p] \in Requests /\ Served /\ agent \in Rows /\ agent # None
  BY <1>u, UnderWay
<1>1. CASE BeginFund(p)
  <2>1. PICK request : /\ FundTo(p, request) /\ request.seen = agent.funding
                       /\ request.at \in {"reserve", "start"}
    BY <1>1 DEF BeginFund
  <2>2. agent # None /\ UNCHANGED <<agent, sent>>
    BY <1>1 DEF BeginFund, Provisioned, tables, chain
  <2> QED BY <1>r, <2>1, <2>2, RecordStep
<1>2. CASE ReserveFund(p)
  <2>1. funding[p] \in Requests /\ UNCHANGED <<agent, sent>>
    BY <1>2, <1>r DEF ReserveFund, chain
  <2>2. PICK request : /\ FundTo(p, request) /\ request.at \in {"idle", "start"}
                       /\ request.seen = NoFunding \/ request.seen = funding[p].seen
    <3>1. ASSUME NEW name
          PROVE  LET r == [funding[p] EXCEPT !.at = "start", !.operation = name]
                 IN r.at = "start" /\ r.seen = funding[p].seen
      BY <2>1 DEF Requests
    <3>2. \/ FundTo(p, NoRequest)
          \/ \E name : FundTo(p, [funding[p] EXCEPT !.at = "start", !.operation = name])
      BY <1>2 DEF ReserveFund
    <3> QED BY <1>n, <3>1, <3>2
  <2> QED BY <1>r, <2>1, <2>2, RecordStep
<1>3. CASE StartFund(p)
  <2>1. funding[p] \in Requests /\ agent \in Rows /\ sent' = sent
    BY <1>3, <1>u DEF StartFund, chain
  <2>2. PICK request : /\ FundTo(p, request) /\ request.at \in {"idle", "send"}
                       /\ request.seen = NoFunding
    <3> DEFINE r == [funding[p] EXCEPT !.at = "send", !.seen = NoFunding,
                         !.todo = {a \in Assets : funding[p].amounts[a] > 0}]
    <3>1. r.at = "send" /\ r.seen = NoFunding
      BY <2>1 DEF Requests
    <3>2. FundTo(p, r) \/ FundTo(p, NoRequest)
      BY <1>3 DEF StartFund
    <3> HIDE DEF r
    <3> QED BY <1>n, <3>1, <3>2
  <2>3. funding[p].seen \in Records
    BY <2>1, RequestFields
  <2>4. /\ agent'.funding.funded = funding[p].seen.funded
        /\ agent'.funding.transactions = funding[p].seen.transactions
    BY <1>3, <2>1, <2>3 DEF StartFund, InitialFunding, Rows, Records
  <2> QED BY <1>r, <2>1, <2>2, <2>4, RecordStep
<1>4. CASE SendAsset(p)
  <2> DEFINE t == [asset |-> First(funding[p].todo),
                   amount |-> funding[p].amounts[First(funding[p].todo)],
                   number |-> Cardinality(sent) + 1]
  <2>1. funding[p] \in Requests /\ sent' = sent \cup {t} /\ UNCHANGED agent
    BY <1>4, <1>u DEF SendAsset, tables
  <2>2. PICK request : /\ FundTo(p, request) /\ request.seen = funding[p].seen
                       /\ request.at = "receipt" /\ request.transaction = t
    <3> DEFINE r == [funding[p] EXCEPT !.at = "receipt",
                         !.todo = @ \ {First(funding[p].todo)}, !.transaction = t]
    <3>1. r.at = "receipt" /\ r.seen = funding[p].seen /\ r.transaction = t
      BY <2>1 DEF Requests
    <3>2. FundTo(p, r)
      BY <1>4 DEF SendAsset
    <3> HIDE DEF r
    <3> QED BY <3>1, <3>2
  <2>3. Cardinality(sent) \in Nat /\ IsFiniteSet(sent) /\ t.number = Cardinality(sent) + 1
    BY FS_CardinalityType DEF Types, AgentTypes
  <2> HIDE DEF t
  <2>4. sent \subseteq Transactions
    BY DEF Types, AgentTypes
  <2>5. t \notin sent
    BY <2>3, <2>4 DEF RecordInv, Transactions
  <2>6. Cardinality(sent') = Cardinality(sent) + 1
    BY <2>1, <2>3, <2>5, FS_AddElement
  <2>7. \A u \in sent' : u.number <= Cardinality(sent')
    BY <2>1, <2>3, <2>4, <2>6 DEF RecordInv, Transactions
  <2>8. funding'[p] = request /\ \A q \in Processes : q # p => funding'[q] = funding[q]
    BY <2>2 DEF FundTo, Types, RequestTypes
  <2>9. Recorded' \subseteq Recorded
    <3> SUFFICES ASSUME NEW f \in Recorded' PROVE f \in Recorded
      OBVIOUS
    <3>1. \/ f = NoFunding \/ (agent' # None /\ f = agent'.funding)
          \/ \E q \in Processes : f = funding'[q].seen
      BY DEF Recorded
    <3> QED BY <1>r, <2>1, <2>2, <2>8, <3>1
  <2>10. \A f \in Recorded : t \notin f.transactions
    <3>1. \A f \in Recorded : f.transactions \subseteq sent
      BY DEF Recorded, Records, Types, AgentTypes
    <3> QED BY <2>5, <3>1
  <2>11. \A q \in Carrying' : \/ q = p /\ funding'[q].transaction = t
                             \/ /\ q # p /\ q \in Carrying
                                /\ funding'[q].transaction = funding[q].transaction
                                /\ funding[q].transaction \in sent
    <3>1. \A q \in Carrying : funding[q].transaction \in sent
      BY <1>r DEF Carrying, Requests
    <3> QED BY <2>2, <2>8, <3>1 DEF Carrying
  <2>12. \A f \in Recorded' :
           Adds(f) /\ \A q \in Carrying' : funding'[q].transaction \notin f.transactions
    BY <2>9, <2>10, <2>11 DEF RecordInv
  <2>13. \A q, r \in Carrying' : funding'[q].transaction = funding'[r].transaction => q = r
    BY <2>5, <2>11 DEF RecordInv
  <2> QED BY <2>7, <2>12, <2>13 DEF RecordInv
<1>5. CASE ReadReceipt(p)
  <2>1. funding[p] \in Requests /\ agent # None /\ UNCHANGED <<agent, sent>>
    BY <1>5, <1>u DEF ReadReceipt, tables, chain
  <2>3. PICK request : /\ FundTo(p, request) /\ request.seen = agent.funding
                       /\ request.transaction = funding[p].transaction
    BY <1>5, <2>1 DEF ReadReceipt, Requests
  <2>4. p \in Carrying
    BY <1>5 DEF ReadReceipt, Carrying
  <2> QED BY <1>r, <2>1, <2>3, <2>4, RecordStep
<1>6. CASE CreditFund(p)
  <2> DEFINE t == funding[p].transaction
             old == funding[p].seen
             new == Credited(funding[p])
  <2>1. /\ funding[p] \in Requests /\ agent \in Rows /\ agent # None /\ sent' = sent
        /\ p \in Carrying
    BY <1>6, <1>u DEF CreditFund, Carrying, chain
  <2>2. PICK request : /\ FundTo(p, request) /\ request.seen = NoFunding
                       /\ request.at = "send"
    <3> DEFINE r == [funding[p] EXCEPT !.at = "send", !.transaction = None,
                                       !.seen = NoFunding]
    <3>1. r.at = "send" /\ r.seen = NoFunding
      BY <2>1 DEF Requests
    <3>2. FundTo(p, r)
      BY <1>6 DEF CreditFund
    <3> HIDE DEF r
    <3> QED BY <3>1, <3>2
  <2>3. /\ old \in Records /\ old \in Recorded /\ t \in Transactions
        /\ old.transactions \subseteq sent /\ IsFiniteSet(sent) /\ sent \subseteq Transactions
    BY <1>6, <1>r, <2>1 DEF CreditFund, Requests, Records, Types, AgentTypes
  <2>4. Adds(old) /\ t \notin old.transactions
    BY <2>1, <2>3 DEF RecordInv
  <2>5. /\ new.funded = [old.funded EXCEPT ![t.asset] = old.funded[t.asset] + t.amount]
        /\ new.transactions = old.transactions \cup {t}
    BY <2>3 DEF Credited, Records
  <2> HIDE DEF t, old, new
  <2>6. Adds(new)
    <3>1. ASSUME NEW a \in Assets PROVE new.funded[a] = Sum(Of(new.transactions, a))
      <4>1. old.funded \in Amounts
        BY <2>3, RecordFields
      <4>2. old.funded[a] = Sum(Of(old.transactions, a))
        BY <2>4 DEF Adds
      <4>3. CASE a = t.asset
        <5>1. Of(new.transactions, a) = Of(old.transactions, a) \cup {t}
          BY <2>5, <4>3 DEF Of
        <5>2. /\ IsFiniteSet(Of(old.transactions, a)) /\ t \notin Of(old.transactions, a)
              /\ \A u \in Of(old.transactions, a) : u.amount \in Nat
              /\ t.amount \in Nat
          BY <2>3, <2>4, FS_Subset DEF Of, Transactions
        <5>3. Sum(Of(new.transactions, a)) = Sum(Of(old.transactions, a)) + t.amount
          BY <5>1, <5>2, SumAdd
        <5> QED BY <2>5, <4>1, <4>2, <4>3, <5>3 DEF Amounts
      <4>4. CASE a # t.asset
        <5>1. Of(new.transactions, a) = Of(old.transactions, a)
          BY <2>5, <4>4 DEF Of
        <5> QED BY <2>5, <4>1, <4>2, <4>4, <5>1 DEF Amounts
      <4> QED BY <4>3, <4>4
    <3> QED BY <3>1 DEF Adds
  <2>7. agent'.funding = new
    BY <1>6, <2>1 DEF CreditFund, Rows, new
  <2>8. funding'[p] = request /\ \A q \in Processes : q # p => funding'[q] = funding[q]
    BY <2>2 DEF FundTo, Types, RequestTypes
  <2>9. \A f \in Recorded' : f = new \/ f \in Recorded
    <3> SUFFICES ASSUME NEW f \in Recorded' PROVE f = new \/ f \in Recorded
      OBVIOUS
    <3>1. \/ f = NoFunding \/ (agent' # None /\ f = agent'.funding)
          \/ \E q \in Processes : f = funding'[q].seen
      BY DEF Recorded
    <3> QED BY <1>r, <2>2, <2>7, <2>8, <3>1
  <2>10. \A q \in Carrying' : /\ q # p /\ q \in Carrying
                              /\ funding'[q].transaction = funding[q].transaction
    BY <2>2, <2>8 DEF Carrying
  <2>11. \A q \in Carrying' : funding'[q].transaction \notin new.transactions
    <3> SUFFICES ASSUME NEW q \in Carrying' PROVE funding'[q].transaction \notin new.transactions
      OBVIOUS
    <3>1. funding'[q].transaction # t
      BY <2>1, <2>10 DEF RecordInv, t
    <3>2. funding'[q].transaction \notin old.transactions
      BY <2>3, <2>10 DEF RecordInv
    <3> QED BY <2>5, <3>1, <3>2
  <2>12. \A f \in Recorded' :
           Adds(f) /\ \A q \in Carrying' : funding'[q].transaction \notin f.transactions
    BY <2>6, <2>9, <2>10, <2>11 DEF RecordInv
  <2>13. \A q, r \in Carrying' : funding'[q].transaction = funding'[r].transaction => q = r
    BY <2>10 DEF RecordInv
  <2> QED BY <2>1, <2>12, <2>13 DEF RecordInv
<1>7. CASE FailFund(p)
  <2>1. agent # None /\ UNCHANGED <<agent, sent>>
    BY <1>7, <1>u DEF FailFund, tables, chain
  <2>2. PICK request : /\ FundTo(p, request) /\ request.seen = agent.funding
                       /\ request.at = "fail"
    <3> DEFINE r == [NoRequest EXCEPT !.at = "fail", !.seen = agent.funding]
    <3>1. r.at = "fail" /\ r.seen = agent.funding
      BY DEF NoRequest
    <3>2. FundTo(p, r)
      BY <1>7 DEF FailFund
    <3> HIDE DEF r
    <3> QED BY <3>1, <3>2
  <2> QED BY <1>r, <2>1, <2>2, RecordStep
<1>8. CASE CompleteFund(p)
  <2>1. funding[p] \in Requests /\ agent # None /\ UNCHANGED <<agent, sent>>
    BY <1>8, <1>u DEF CompleteFund, chain
  <2>2. PICK request : /\ FundTo(p, request) /\ request.seen = agent.funding
                       /\ request.at = "finish"
    <3> DEFINE r == [funding[p] EXCEPT !.at = "finish", !.seen = agent.funding]
    <3>1. r.at = "finish" /\ r.seen = agent.funding
      BY <2>1 DEF Requests
    <3>2. FundTo(p, r)
      BY <1>8 DEF CompleteFund
    <3> HIDE DEF r
    <3> QED BY <3>1, <3>2
  <2> QED BY <1>r, <2>1, <2>2, RecordStep
<1>9. CASE FinishFund(p)
  <2>1. funding[p] \in Requests /\ agent \in Rows /\ sent' = sent /\ FundTo(p, NoRequest)
    BY <1>9, <1>u DEF FinishFund, chain
  <2>2. funding[p].seen \in Records
    BY <2>1, RequestFields
  <2>3. /\ agent'.funding.funded = funding[p].seen.funded
        /\ agent'.funding.transactions = funding[p].seen.transactions
    BY <1>9, <2>1, <2>2 DEF FinishFund, Rows, Records
  <2> QED BY <1>n, <1>r, <2>1, <2>3, RecordStep
<1>10. CASE WriteFailed(p)
  <2>1. agent \in Rows /\ sent' = sent /\ FundTo(p, NoRequest)
    BY <1>10, <1>u DEF WriteFailed, chain
  <2>2. agent'.funding = funding[p].seen
    BY <1>10, <2>1 DEF WriteFailed, Rows
  <2> QED BY <1>n, <1>r, <2>1, <2>2, RecordStep
<1> QED BY <1>1, <1>2, <1>3, <1>4, <1>5, <1>6, <1>7, <1>8, <1>9, <1>10 DEF Fund

LEMMA RecordKept == Types /\ RecordInv /\ [Next]_vars => RecordInv'
<1> SUFFICES ASSUME Types, RecordInv, [Next]_vars PROVE RecordInv'
  OBVIOUS
<1>r. NoFunding \in Recorded /\ (agent # None => agent.funding \in Recorded)
  BY RecordedAre
<1>u. ASSUME UNCHANGED <<sent, funding>>, agent' = agent PROVE RecordInv'
  BY <1>r, <1>u, AgentStep
<1>w. ASSUME UNCHANGED <<sent, funding>>, NEW state, agent \in Rows, agent # None,
             agent' = [agent EXCEPT !.state = state]
      PROVE  RecordInv'
  <2>1. agent'.funding = agent.funding
    BY <1>w DEF Rows
  <2> QED BY <1>r, <1>w, <2>1, AgentStep
<1>n. \A w, c : NewAgent(w, c).funding = NoFunding
  BY DEF NewAgent
<1>1. CASE UNCHANGED vars
  <2>1. UNCHANGED <<sent, funding>> /\ agent' = agent
    BY <1>1 DEF vars, tables, requests, chain
  <2> QED BY <1>u, <2>1
<1>2. ASSUME NEW p \in Processes, Provision(p) PROVE RecordInv'
  <2>1. UNCHANGED <<sent, funding>>
    BY <1>2
    DEF Provision, ProvisionExisting, BeginProvision, StorePolicy, CreateWallet,
        ListWallets, CreateAgain, StoreWallet, ReadWallet, UpdateWallet, SaveAgent,
        FailProvision, requests, chain
  <2>2. agent' = agent \/ agent'.funding = NoFunding
    BY <1>2, <1>n
    DEF Provision, ProvisionExisting, BeginProvision, StorePolicy, CreateWallet,
        ListWallets, CreateAgain, StoreWallet, ReadWallet, UpdateWallet, SaveAgent, Saved,
        FailProvision, tables
  <2> QED BY <1>r, <2>1, <2>2, AgentStep
<1>3. ASSUME NEW p \in Processes, Fund(p) PROVE RecordInv'
  BY <1>3, FundKeepsRecords
<1>4. ASSUME NEW p \in Processes, Archive(p) PROVE RecordInv'
  <2>1. UNCHANGED <<sent, funding>>
    BY <1>4 DEF Archive, BeginArchive, RevokeSigner, FinishArchive, FailArchive, chain
  <2>2. CASE FinishArchive(p)
    <3>1. agent \in Rows
      BY <2>2 DEF FinishArchive, Types, AgentTypes, Served
    <3>2. agent # None
      BY <3>1, RowsAreAgents, AgentAssumption
    <3> QED BY <1>w, <2>1, <2>2, <3>1, <3>2 DEF FinishArchive
  <2>3. CASE BeginArchive(p) \/ RevokeSigner(p) \/ FailArchive(p)
    <3>1. agent' = agent
      BY <2>3 DEF BeginArchive, RevokeSigner, FailArchive, tables
    <3> QED BY <1>u, <2>1, <3>1
  <2> QED BY <1>4, <2>2, <2>3 DEF Archive
<1>5. ASSUME NEW p \in Processes, Restart(p) PROVE RecordInv'
  <2>1. /\ FundTo(p, NoRequest) /\ UNCHANGED <<agent, sent>>
        /\ NoRequest.seen = NoFunding /\ NoRequest.at = "idle"
    BY <1>5 DEF Restart, chain, NoRequest
  <2> QED BY <1>r, <2>1, RecordStep
<1>6. CASE LeaseEnds \/ Settle
  <2>1. UNCHANGED <<sent, funding>> /\ agent' = agent
    BY <1>6 DEF LeaseEnds, Settle, requests, chain, tables
  <2> QED BY <1>u, <2>1
<1>7. CASE SetMandate \/ StartSession
  <2>1. agent \in Rows /\ agent # None /\ UNCHANGED <<sent, funding>>
    BY <1>7 DEF SetMandate, StartSession, Provisioned, Types, AgentTypes, requests, chain
  <2>2. PICK state : agent' = [agent EXCEPT !.state = state]
    BY <1>7 DEF SetMandate, StartSession
  <2> QED BY <1>w, <2>1, <2>2
<1>8. CASE StopSession
  <2>1. agent \in Rows /\ UNCHANGED <<sent, funding>>
    BY <1>8 DEF StopSession, Types, AgentTypes, Served, requests, chain
  <2>2. agent # None
    BY <2>1, RowsAreAgents, AgentAssumption
  <2> QED BY <1>8, <1>w, <2>1, <2>2 DEF StopSession
<1> QED BY <1>1, <1>2, <1>3, <1>4, <1>5, <1>6, <1>7, <1>8 DEF Next

----------------------------------------------------------------------------
(* What was credited is kept, unless two requests met.                     *)

\* The requests that will write back what they have read.
Holding == {p \in Processes :
                funding[p].at \in {"reserve", "start", "credit", "fail", "finish"}}

\* Nothing was credited before there was an agent.  While no two requests have
\* met, one is under way at most, and the row and what it has read of the row
\* list what was credited.
KeptInv ==
    /\ agent = None => credited = {}
    /\ ~raced =>
         /\ agent # None => agent.funding.transactions = credited
         /\ \A p, q \in Processes :
                funding[p].at # "idle" /\ funding[q].at # "idle" => p = q
         /\ \A p \in Holding : funding[p].seen.transactions = credited

LEMMA KeptInit == Init => KeptInv
BY DEF Init, KeptInv, Holding, NoRequest

\* A step of one request that credits nothing.
LEMMA KeptStep ==
    ASSUME Types, KeptInv, NEW p \in Processes, funding[p].at # "idle",
           NEW request, FundTo(p, request), UNCHANGED history,
           agent # None /\ agent' # None,
           \/ agent'.funding.transactions = agent.funding.transactions
           \/ p \in Holding /\ agent'.funding.transactions = funding[p].seen.transactions,
           \/ request.at \notin {"reserve", "start", "credit", "fail", "finish"}
           \/ request.seen.transactions = agent.funding.transactions
           \/ p \in Holding /\ request.seen.transactions = funding[p].seen.transactions
    PROVE  KeptInv'
<1>1. funding'[p] = request /\ \A q \in Processes : q # p => funding'[q] = funding[q]
  BY DEF FundTo, Types, RequestTypes
<1> QED BY <1>1 DEF KeptInv, Holding, history

\* A step that leaves the requests alone, or ends one, and the list as it is.
LEMMA KeptAlone ==
    ASSUME Types, KeptInv, UNCHANGED history,
           agent' # None => agent # None /\ agent'.funding = agent.funding,
           agent # None => agent' # None,
           \/ UNCHANGED funding
           \/ \E p \in Processes : FundTo(p, NoRequest)
    PROVE  KeptInv'
<1>1. \A q \in Processes : funding'[q] = funding[q] \/ funding'[q] = NoRequest
  BY DEF FundTo, Types, RequestTypes
<1>2. NoRequest.at = "idle"
  BY DEF NoRequest
<1> QED BY <1>1, <1>2 DEF KeptInv, Holding, history

LEMMA FundKeepsCredits ==
    ASSUME Types, KeptInv, NEW p \in Processes, Fund(p) PROVE KeptInv'
<1>u. ASSUME funding[p].at # "idle"
      PROVE  funding[p] \in Requests /\ agent \in Rows /\ agent # None
  BY <1>u, UnderWay
<1>n. agent' # None
  BY FundKeepsTypes
<1>i. NoRequest.at = "idle"
  BY DEF NoRequest
<1>1. CASE BeginFund(p)
  <2>1. PICK request : FundTo(p, request) /\ request.seen = agent.funding
    BY <1>1 DEF BeginFund
  <2>2. /\ agent # None /\ UNCHANGED <<agent, credited>>
        /\ raced' = (raced \/ \E q \in Processes : funding[q].at # "idle")
    BY <1>1 DEF BeginFund, Provisioned, tables
  <2>3. funding'[p] = request /\ \A q \in Processes : q # p => funding'[q] = funding[q]
    BY <2>1 DEF FundTo, Types, RequestTypes
  <2> QED BY <2>1, <2>2, <2>3 DEF KeptInv, Holding
<1>2. CASE ReserveFund(p)
  <2>1. /\ funding[p].at = "reserve" /\ p \in Holding
        /\ UNCHANGED <<agent, history>>
    BY <1>2 DEF ReserveFund, Holding
  <2>2. PICK request : /\ FundTo(p, request)
                       /\ \/ request.at = "idle"
                          \/ request.seen = funding[p].seen
    <3>1. ASSUME NEW name
          PROVE  LET r == [funding[p] EXCEPT !.at = "start", !.operation = name]
                 IN r.seen = funding[p].seen
      BY <1>u, <2>1 DEF Requests
    <3>2. \/ FundTo(p, NoRequest)
          \/ \E name : FundTo(p, [funding[p] EXCEPT !.at = "start", !.operation = name])
      BY <1>2 DEF ReserveFund
    <3> QED BY <1>i, <3>1, <3>2
  <2> QED BY <1>u, <1>n, <2>1, <2>2, KeptStep
<1>3. CASE StartFund(p)
  <2>1. funding[p].at = "start" /\ p \in Holding /\ UNCHANGED history
    BY <1>3 DEF StartFund, Holding
  <2>2. PICK request : FundTo(p, request) /\ request.at \in {"idle", "send"}
    <3> DEFINE r == [funding[p] EXCEPT !.at = "send", !.seen = NoFunding,
                         !.todo = {a \in Assets : funding[p].amounts[a] > 0}]
    <3>1. r.at = "send"
      BY <1>u, <2>1 DEF Requests
    <3>2. FundTo(p, r) \/ FundTo(p, NoRequest)
      BY <1>3 DEF StartFund
    <3> HIDE DEF r
    <3> QED BY <1>i, <3>1, <3>2
  <2>3. funding[p].seen \in Records
    BY <1>u, <2>1, RequestFields
  <2>4. agent'.funding.transactions = funding[p].seen.transactions
    BY <1>3, <1>u, <2>1, <2>3 DEF StartFund, InitialFunding, Rows, Records
  <2> QED BY <1>u, <1>n, <2>1, <2>2, <2>4, KeptStep
<1>4. CASE SendAsset(p)
  <2>1. funding[p].at = "send" /\ UNCHANGED <<agent, history>>
    BY <1>4 DEF SendAsset, tables
  <2>2. PICK request : FundTo(p, request) /\ request.at = "receipt"
    <3> DEFINE t == [asset |-> First(funding[p].todo),
                     amount |-> funding[p].amounts[First(funding[p].todo)],
                     number |-> Cardinality(sent) + 1]
               r == [funding[p] EXCEPT !.at = "receipt",
                         !.todo = @ \ {First(funding[p].todo)}, !.transaction = t]
    <3>1. r.at = "receipt"
      BY <1>u, <2>1 DEF Requests
    <3>2. FundTo(p, r)
      BY <1>4 DEF SendAsset
    <3> HIDE DEF r
    <3> QED BY <3>1, <3>2
  <2> QED BY <1>u, <1>n, <2>1, <2>2, KeptStep
<1>5. CASE ReadReceipt(p)
  <2>1. funding[p].at = "receipt" /\ UNCHANGED <<agent, history>>
    BY <1>5 DEF ReadReceipt, tables
  <2>2. PICK request : FundTo(p, request) /\ request.seen = agent.funding
    <3> DEFINE r == [funding[p] EXCEPT !.at = "credit", !.seen = agent.funding]
    <3>1. r.seen = agent.funding
      BY <1>u, <2>1 DEF Requests
    <3>2. FundTo(p, r)
      BY <1>5 DEF ReadReceipt
    <3> HIDE DEF r
    <3> QED BY <3>1, <3>2
  <2> QED BY <1>u, <1>n, <2>1, <2>2, KeptStep
<1>6. CASE CreditFund(p)
  <2> DEFINE r == [funding[p] EXCEPT !.at = "send", !.transaction = None,
                                     !.seen = NoFunding]
  <2>1. /\ funding[p].at = "credit" /\ p \in Holding /\ FundTo(p, r) /\ raced' = raced
        /\ credited' = credited \cup {funding[p].transaction}
        /\ agent' = [agent EXCEPT !.funding = Credited(funding[p])]
    BY <1>6 DEF CreditFund, Holding
  <2>2. r.at = "send"
    BY <1>u, <2>1 DEF Requests
  <2> HIDE DEF r
  <2>3. funding[p].seen \in Records
    BY <1>u, <2>1, RequestFields
  <2>4. agent'.funding.transactions
          = funding[p].seen.transactions \cup {funding[p].transaction}
    BY <1>u, <2>1, <2>3 DEF Credited, Rows, Records
  <2>5. funding'[p] = r /\ \A q \in Processes : q # p => funding'[q] = funding[q]
    BY <2>1 DEF FundTo, Types, RequestTypes
  <2>6. ~raced => \A q \in Processes : funding'[q].at # "idle" => q = p
    BY <2>1, <2>5 DEF KeptInv
  <2> QED BY <1>n, <2>1, <2>2, <2>4, <2>5, <2>6 DEF KeptInv, Holding
<1>7. CASE FailFund(p)
  <2>1. funding[p].at # "idle" /\ UNCHANGED <<agent, history>>
    BY <1>7 DEF FailFund, tables
  <2>2. PICK request : FundTo(p, request) /\ request.seen = agent.funding
    <3> DEFINE r == [NoRequest EXCEPT !.at = "fail", !.seen = agent.funding]
    <3>1. r.seen = agent.funding
      BY DEF NoRequest
    <3>2. FundTo(p, r)
      BY <1>7 DEF FailFund
    <3> HIDE DEF r
    <3> QED BY <3>1, <3>2
  <2> QED BY <1>u, <1>n, <2>1, <2>2, KeptStep
<1>8. CASE WriteFailed(p) \/ FinishFund(p)
  <2>1. /\ funding[p].at \in {"fail", "finish"} /\ p \in Holding
        /\ FundTo(p, NoRequest) /\ UNCHANGED history
    BY <1>8 DEF WriteFailed, FinishFund, Holding
  <2>2. funding[p].seen \in Records
    BY <1>u, <2>1, RequestFields
  <2>3. agent'.funding.transactions = funding[p].seen.transactions
    BY <1>8, <1>u, <2>1, <2>2 DEF WriteFailed, FinishFund, Rows, Records
  <2> QED BY <1>i, <1>u, <1>n, <2>1, <2>3, KeptStep
<1>9. CASE CompleteFund(p)
  <2>1. funding[p].at = "send" /\ UNCHANGED <<agent, history>>
    BY <1>9 DEF CompleteFund
  <2>2. PICK request : FundTo(p, request) /\ request.seen = agent.funding
    <3> DEFINE r == [funding[p] EXCEPT !.at = "finish", !.seen = agent.funding]
    <3>1. r.seen = agent.funding
      BY <1>u, <2>1 DEF Requests
    <3>2. FundTo(p, r)
      BY <1>9 DEF CompleteFund
    <3> HIDE DEF r
    <3> QED BY <3>1, <3>2
  <2> QED BY <1>u, <1>n, <2>1, <2>2, KeptStep
<1> QED BY <1>1, <1>2, <1>3, <1>4, <1>5, <1>6, <1>7, <1>8, <1>9 DEF Fund

LEMMA KeptKept == Types /\ KeptInv /\ [Next]_vars => KeptInv'
<1> SUFFICES ASSUME Types, KeptInv, [Next]_vars PROVE KeptInv'
  OBVIOUS
<1>w. ASSUME agent \in Rows, agent # None, NEW state,
             agent' = [agent EXCEPT !.state = state]
      PROVE  agent'.funding = agent.funding
  BY <1>w DEF Rows
<1>a. ASSUME Served PROVE agent \in Rows /\ agent # None
  BY <1>a, RowsAreAgents, AgentAssumption DEF Served
<1>1. CASE UNCHANGED vars
  <2>1. UNCHANGED <<agent, funding, history>>
    BY <1>1 DEF vars, tables, requests
  <2> QED BY <2>1, KeptAlone
<1>2. ASSUME NEW p \in Processes, Provision(p) PROVE KeptInv'
  <2>1. CASE SaveAgent(p)
    <3>1. /\ UNCHANGED <<funding, credited>> /\ raced' = (raced \/ agent # None)
          /\ agent' = Saved(provisioning[p].wallet, provisioning[p].policy)
      BY <2>1 DEF SaveAgent
    <3>2. agent'.funding.transactions = {} /\ agent'.funding = NoFunding
      BY <3>1 DEF Saved, NewAgent, NoFunding
    <3>3. agent = None => \A q \in Processes : funding[q].at = "idle"
      BY <1>a DEF Types, RequestTypes
    <3>4. agent' # None
      BY <2>1, SavedIsRow, RowsAreAgents, AgentAssumption
    <3> QED BY <3>1, <3>2, <3>3, <3>4 DEF KeptInv, Holding
  <2>2. CASE ~SaveAgent(p)
    <3>1. UNCHANGED <<agent, funding, history>>
      BY <1>2, <2>2
      DEF Provision, ProvisionExisting, BeginProvision, StorePolicy, CreateWallet,
          ListWallets, CreateAgain, StoreWallet, ReadWallet, UpdateWallet,
          FailProvision, tables, requests
    <3> QED BY <3>1, KeptAlone
  <2> QED BY <2>1, <2>2
<1>3. ASSUME NEW p \in Processes, Fund(p) PROVE KeptInv'
  BY <1>3, FundKeepsCredits
<1>4. ASSUME NEW p \in Processes, Archive(p) PROVE KeptInv'
  <2>1. UNCHANGED <<funding, history>>
    BY <1>4 DEF Archive, BeginArchive, RevokeSigner, FinishArchive, FailArchive
  <2>2. CASE FinishArchive(p)
    <3>1. agent \in Rows /\ agent # None
      BY <2>2, <1>a DEF FinishArchive, Types, AgentTypes
    <3>2. agent' \in Rows
      BY <2>2, <3>1, RowWith, RowFields DEF FinishArchive, States
    <3>3. agent'.funding = agent.funding
      BY <2>2, <3>1, <1>w DEF FinishArchive
    <3>4. agent' # None
      BY <3>2, RowsAreAgents, AgentAssumption
    <3> QED BY <2>1, <3>1, <3>3, <3>4, KeptAlone
  <2>3. CASE BeginArchive(p) \/ RevokeSigner(p) \/ FailArchive(p)
    <3>1. agent' = agent
      BY <2>3 DEF BeginArchive, RevokeSigner, FailArchive, tables
    <3> QED BY <2>1, <3>1, KeptAlone
  <2> QED BY <1>4, <2>2, <2>3 DEF Archive
<1>5. CASE LeaseEnds \/ Settle
  <2>1. UNCHANGED <<agent, funding, history>>
    BY <1>5 DEF LeaseEnds, Settle, tables, requests
  <2> QED BY <2>1, KeptAlone
<1>6. CASE SetMandate \/ StartSession \/ StopSession
  <2>1. UNCHANGED <<funding, history>>
    BY <1>6 DEF SetMandate, StartSession, StopSession, requests
  <2>2. agent \in Rows /\ agent # None
    BY <1>6, <1>a
    DEF SetMandate, StartSession, StopSession, Provisioned, Types, AgentTypes, Served
  <2>3. PICK state \in States : agent' = [agent EXCEPT !.state = state]
    <3>1. {"ACTIVE", "READY", "STOPPED"} \subseteq States
      BY DEF States
    <3> QED BY <1>6, <3>1 DEF SetMandate, StartSession, StopSession
  <2>4. agent'.funding = agent.funding
    BY <1>w, <2>2, <2>3
  <2>5. agent' # None
    BY <2>2, <2>3, RowWith, RowFields, RowsAreAgents, AgentAssumption
  <2> QED BY <2>1, <2>2, <2>4, <2>5, KeptAlone
<1>7. ASSUME NEW p \in Processes, Restart(p) PROVE KeptInv'
  <2>1. FundTo(p, NoRequest) /\ UNCHANGED <<agent, history>>
    BY <1>7 DEF Restart
  <2> QED BY <2>1, KeptAlone
<1> QED BY <1>1, <1>2, <1>3, <1>4, <1>5, <1>6, <1>7 DEF Next

\* fundInternal: what the agent shows as funded is the sum of the transactions
\* it lists, however many requests read its row and write it back, and the row
\* lists every transaction that a request has credited, through failures,
\* retries and restarts, unless two requests have met or a late provisioning
\* has saved the row anew.
THEOREM CreditsKept == Spec => []CreditsAreKept
<1>1. Types /\ RecordInv /\ KeptInv => CreditsAreKept
  <2> SUFFICES ASSUME Types, RecordInv, KeptInv, agent # None
               PROVE  /\ \A a \in Assets :
                            agent.funding.funded[a] = Sum(Of(agent.funding.transactions, a))
                      /\ ~raced => agent.funding.transactions = credited
    BY DEF CreditsAreKept, Sum, Of
  <2>1. agent.funding \in Recorded
    BY RecordedAre
  <2> QED BY <2>1 DEF RecordInv, Adds, KeptInv
<1> QED BY TypesInit, TypesKept, RecordInit, RecordKept, KeptInit, KeptKept, <1>1, PTL
        DEF Spec
=============================================================================
