# Aurka: models and proofs

TLA+ modules for the Aurka protocol, the TLC runs that check them on small instances,
and TLAPS proofs of their main properties for every value of the constants.  Paths are
relative to the root of the repository.

## 1. The system

A treasury keeps the assets of a *Space* in one Aqua strategy and lets traders swap
against it inside a policy: weight bounds for every asset, a maximum trade value, a fee.
A watchtower may tighten that policy for a while by signing *risk certificates*.
Settlement happens on chain and trusts none of the off-chain services.

| Component | State it keeps | Operations | Correct when |
| --- | --- | --- | --- |
| Policy registry (`contracts/src/AurkaPolicyRegistry.sol`) | policies, their assets, bounds and settlement configuration, a nonce | creation (also by the factory), setters of governance, two-step transfer | every policy admits a portfolio; a nonce names one policy |
| Risk mode registry (`RiskModeRegistry.sol`) | watchtowers with an authorization epoch, the last certificate and its bounds | `setWatchtower`, `submitRiskCertificate`; a certificate lapses by time, revocation or a change of policy | certificates only tighten; none comes back; limits stay satisfiable |
| Settlement router (`AurkaSepoliaSwapVMRouter.sol`, `AurkaSepoliaTradeMath.sol`; earlier `AurkaSwapVMRouter.sol`) | per direction a capacity epoch with its consumption and balance checkpoint; used intents, nonces, proposals | two activations, `executeWithSwapVM` | no replay; fills within capacity; settlement under the limits its epoch was derived from; a safe portfolio afterwards |
| Settlement authority, oracle, price protection (`AurkaSettlementAuthority.sol`, `ChainlinkPriceOracle.sol`, `libraries/PriceProtection.sol`) | none of their own | authoritative portfolio, capacity baseline, freshness | what the router computes from is what the chain holds now |
| Safe fill and fee (`libraries/DirectSettlement.sol`, `PortfolioBounds.sol`, `OptionSpaceFee.sol`) | none: pure | values, bounds, largest safe fill, fee and its shares | a result is safe; fees add up, are never refused, and splitting saves and costs rounding only |
| Upstream execution (`AurkaSepoliaUpstreamExecutor.sol`, `AurkaSwapVMExecutionGuard.sol`, order validator) | a one-time authorization of an order | the swap | exactly the authorized order runs |
| Vault and factory (`AurkaSpaceVault.sol`, `AurkaSpaceVaultFactory.sol`) | vaults, whether they are finalized | create, initialize, dock, withdraw | a Space is either whole or absent |
| Risk worker (`packages/services/src/risk-*.ts`) | job leases and one workflow per position in SQLite | `tick` | one certificate at a time, whatever crashes |
| Delegated sessions (`agent/delegated.ts`, `packages/wallet`) | sessions, trades, recoveries; in memory the queue of the wallet | authorize, start and tick, approve, stop, recover, reconcile | budgets hold; a stopped session never trades; nothing is sent twice |
| Trading agents (`agent/trading-agents.ts`) | agents, wallets, funding steps with leases | provision, fund, mandate, archive | one wallet for an owner, one pending funding at a time, a credited funding stays in the row |
| Event indexer (`indexer.ts`, the projections of `db/repository.ts`) | events, block headers, a checkpoint, derived capacity and settlements | `sync` | the store says what the chain says, reorganizations or not |
| Settlement service, solver, API, SDK, applications | a store of quotes, intents, executions; projections | HTTP | answers agree with the chain, which checks everything again |

How they interact: the router reads both registries, the oracle and Aqua's balances on
each call and keeps none of them; an epoch and a proposal name what was read by nonce
and hash.  Certificates, intents and proposals are signed messages that anyone may
submit, late, twice and in any order.  Services hold leases in a database and await RPC
and wallet calls between their writes.

What is hard here: authority that moves between signing and settling; delayed and
replayed messages; several fills of one capacity; rounding in opposite directions; a
search that assumes monotone safety; crashes between a wallet call and the write that
remembers it.  `PROJECT.json` lists these hazards at their lines.

## 2. Modules

| Module | Models | Notes |
| --- | --- | --- |
| `AurkaPolicyRegistry` | the policy registry | one action per external function; the contract has no operation that touches two policies, so one policy is modelled |
| `RiskModeRegistry` | the risk registry, extending the module above | certificates signed so far are a growing set; signing stands for the worker's context reads, submission may come at any later time |
| `PolicyAuthority` | no code: what both registries together promise | limits only widen by lapsing to the hard policy or by governance; nonce and certificate name the limits |
| `OptionSpaceFee`, `DirectSettlement` | the pure libraries | operators only; integers are unbounded, see section 6 |
| `SafeFillSearch` | the bisection of `_solve` | one step per iteration; `SearchInvariant` ties its result to `IsFill`, the description the other modules use |
| `SplitFills` | the fills of one epoch, fees only | compares any sequence of fills with a single one |
| `AurkaSepoliaSwapVMRouter` | the router, over `PolicyAuthority` | epochs, activations, settlement, with oracle, clock and treasury moving between calls |
| `RiskCertificateWorker` | the worker's ticks, over the job and workflow tables, the wallet and a chain | see below |
| `SessionBudget` | no code: what the limits of a session promise its owner | every trade's input is put aside before it is sent, and comes back only if it never is |
| `DelegatedSession` | one session: authorization, start and ticks, approval, stop, recovery, reconciliation, the wallet's queue | implements `SessionBudget` |
| `TradingAgents` | the agent of one owner: provisioning with its checkpoints and lease, funding, mandate, archive | several processes over one database |
| `Indexer` | `sync` with its checkpoint, headers, events and projections | over a chain that reorganizes while it reads |
| `MC*` | small instances | |
| `*Proofs` | the proofs | section 4; `FillsProofs` is about `SplitFills` and `SafeFillSearch`, whose specification is `SearchSpec` |

A transaction is atomic, so each external function is one action; a check the code makes
after a write is a guard on what is written.  A hash is the record that is hashed.  A
signed message is a member of a set of messages there could be; one whose signature
fails is no member.  A value the caller passes and the code compares with one it
computes is not an input of the model.

`RiskModeRegistry` is shown to implement `PolicyAuthority` (`ImplementsPolicyAuthority`,
by TLC and by proof), and the router is modelled over `PolicyAuthority`'s actions: what
holds of the router holds over the real registries as far as they keep that promise.

In `RiskCertificateWorker` a step of a process is the code between two awaits; what it
awaits is answered in a step of its own, so everything else may happen before the answer
and after it.  Two reads that nothing can tell from one are merged: the code that calls
the context twice around an evaluation, the code that reads a wallet's policy.  `owner`
is the row of `risk_jobs`: a lease that is alive, or one whose process crashed or was too
slow (`Claim` takes it either way; taking it from a live process counts as a failure,
which is a bound of the model and not a promise of the code).  `workflow` is the one row
of `risk_workflows`, `rows` is `risk_certificates`.  The chain is a sequence of blocks
with one transaction each, of which the `finalized` first stay; a block hash is the
chain up to the block.  What the registry accepts is taken from `RiskModeRegistry` in
short: the present authority, the next nonce, not expired.

`DelegatedSession`, `TradingAgents` and `Indexer` are cut in the same way, from await to
await, and a crash may come at any step.  In `DelegatedSession` the place of an operation
(`operation[h].at`) is the await it is suspended at, `seen` the session it read before,
and `walletOperations` the promise chain of `withWalletOperation`; `requested` and
`mined` are the wallet provider and the chain.  A trade is a member of a set of
proposals, its input a number.  In `TradingAgents` a process has one request of each
kind in flight (the maps of promises in the class); the lease may end at any time while
its holder goes on; the wallet provider answers an idempotency key it has seen with the
wallet it made, or refuses it for another body.  In `Indexer` a block is named by the
branch that ends in it, because its hash commits to all below, so "the stored hash is
canonical" is "the branch is a prefix of the chain"; a step of `sync` is the answer of
one call of the source, and each transaction of the store is a step, since the process
may end between two.  `damaged` is a history variable: it says that one of the two
accidents of section 5 has happened, and no action reads it.

In `TradingAgents` a funding that reads its row and writes it back does so in two steps,
each time: at its start (`BeginFund`, `StartFund`), for a receipt (`ReadReceipt`,
`CreditFund`), on a failure (`FailFund`, `WriteFailed`) and at its end (`CompleteFund`,
`FinishFund`).  In one process nothing comes between the two; another process may.  So a
credit may be lost: two processes fund the agent, one has its receipt and has read the
row, the other fails and reads it too, the first writes its credit and the second the row
without it.  `saveTradingAgent`, called late by a process that has lost its lease, does
the same to the row of an agent in use.  The history variable `raced` says that one of
these has been possible, `credited` what requests have credited.  `CreditsAreKept` says
that without either no credit is lost, whatever fails, is retried or restarts, and that a
row that lost one still counts what it lists.  The repository promises no more: the
comment at `trading-agents.ts:1373` is about the requests of one process.  A transaction
whose receipt came too late for its request is never credited at all, and the retry sends
it again; the property is about what was credited.

Operators named `Faulty...` stand before the definition they break: the code with one
plausible mistake.  No specification uses them; with any of them in the place of the
definition the run named in `PROJECT.json` fails.

## 3. Runs

| Run | Checks | Bounds and why they are enough |
| --- | --- | --- |
| `risk_registry` | the weights always admit a portfolio; a nonce names one policy; certificates only tighten, none returns, limits stay satisfiable; implements `PolicyAuthority` | weights in quarters, three tokens, so that creation, an added third asset and a rebound fit in three nonces, with a failing input for every validation; two certificates are the least that can be reordered, three authorization epochs allow revoke and re-authorize, clocks one tick ahead; 590,130 states |
| `router` | replay, capacity, flow of value, limits in force, safety of the portfolio | two tokens, two policies, one certificate, two price rounds, three intents (two share an id, two a trader nonce, one is whole): partial fills, a second fill of an epoch, an epoch replaced after a trade and a certificate that comes and lapses all occur |
| `router_reset` | finds the behaviour of section 5 | the same instance |
| `risk_worker` | what the worker records is final, certificates have no rivals, the workflow goes forward | two processes, two certificates (the least that can be rivals), one reorganization, two failures: a lost answer and a crash, or two lost leases, in one behaviour; 1,059,566 states up to symmetry |
| `risk_worker_settles` | no certificate stays signed or submitted for ever, while policy or authority change | one certificate, one act of governance, two failures, without symmetry |
| `split_fills` | fees add up, are never refused, splitting saves and costs rounding only | every split of epochs of 7, 12 and 33 units, over a few hundred fee configurations; three times 33 is just below the scale of 100, where the rounding is still one unit |
| `safe_fill_search` | the bisection is safe, ends, and is maximal for pairs | portfolios of two and three assets, with and without consumed capacity; one of the two fees is within the hypothesis of `SearchMaximalForPairs`, the other beyond it |
| `delegated` | the budget is neither lost nor spent twice, a confirmed stop is final, one operation has the session's signer (a recovery's transfer, by the owner's authorization, is not counted) and none waits for one that is gone, a recovery is sent once and not beside a trade; implements `SessionBudget` | two operations (the least that interleave; any number in sequence), two proposals of cost 2 and 1 under a budget of 2 and two trades, so that the budget ends before, with or without the count, one recovery, one stop; 1.37 million states up to symmetry |
| `delegated_recovery` | finds the second behaviour of section 5 | two recoveries, one proposal |
| `agents` | one wallet, one pending funding; the row counts what it lists, and lists every credited transaction unless two fundings have overlapped or its row was saved anew | two processes, two configurations, one without the faucet, two batches of amounts, one unit of the shared budget, two transactions, two requests at a time and one crash; 1.87 million states up to symmetry |
| `indexer` | the store agrees with the branch of its checkpoint, the projections with the events; every sync ends | five blocks in all on branches of at most four, two trades and the activation of their epoch, one crash: a branch of three replaced below its end, walked back in two steps, and a trade orphaned and mined again in another place; 235,002 states, no symmetry because of the liveness |
| `indexer_reorg` | finds the third behaviour of section 5 | four blocks, no crash |

Deadlock is not checked in these runs: the bounded inputs run out, and a contract may
rest for ever; the worker's certificates, the proposals of a session and the blocks run
out as well.

Fairness: `SafeFillSearch` assumes weak fairness of its one step, because an EVM call
runs to its end.  `RiskCertificateWorker` assumes weak fairness, for each process, of
claiming a job that is due (the runner's timer calls `tick` for ever, and a lease
lapses), of the answers (a call returns or throws; throwing is `CallFails` and bounded by
`FailureBound`) and of going on after an answer (the event loop), and of `Expire`
(time passes).  Nothing is assumed of the chain: a transaction may never be included,
and no block need become final, which is why `WorkflowSettles` rests on expiry.
`Indexer` assumes weak fairness of the steps of a running `sync`: the RPC client and `retryBounded` end a call
that is not answered, which is the action `Fail`; blocks are bounded, so reorganizations
end.  Nothing in `src/` calls `sync` on a schedule, so that it starts is not assumed.
No liveness is claimed of the contracts: nobody has to call them; nor of sessions and
agents, whose next step is the owner's.

`SplittingSavesOnlyRounding` and `SplittingCostsOnlyRounding` allow the rounding of the
utilizations and rates, `Rounding`: one unit while three baselines fit in the scale, as
they do in the 10^18 of the code.  That splitting never saves anything, which the test
`testSplitPremiumIsNotMateriallyCheaper` suggests for two halves of one configuration,
is not so: of 810,000 units with a slope of 100, a third and then the rest cost 2700,
the whole 2701.

## 4. Proofs

All theorems hold for every value of the constants that satisfies the named
assumptions (finite token sets, natural numbers, a positive `Bps` and `Scale`, fees and
limits of their types, a `None` that is no record).  Two state a hypothesis of their own,
`SearchMaximalForPairs` and `OneWalletOfTwo`; TLC has a counterexample to each without it.

* `RiskModeRegistryProofs`, first part, the policy registry: type and feasibility are
  inductive together, because the setters need the fee and the weights of the others to
  be valid; nonce binding is an action property of each setter.
* Its second part, the risk registry: `RiskInvariant` is inductive.  Its parts are what a
  single property lacks: a signed certificate never belongs to a future epoch, policy or
  nonce, so authority that has moved on never meets it again (`RiskInert`); the stored
  certificate tightens the policy whose nonce it carries (`RiskFeasible`,
  `RiskImplements`).
* `DirectSettlementProofs`: the premium is at most the slope, since
  u0*u0 + u0*u1 + u1*u1 <= 3 * Scale * Scale; hence a valid fee is never above its cap,
  and never above the fill; the shares add up, and a fill of nothing pays none of them.  The worth of a portfolio is a fold over
  its tokens; what it is worth after two values changed (`NavOfTrade`) is shown from a
  least subset for which the claim would fail.
* `FillsProofs`, first part, lifts them to every sequence of fills.  For the splits, the
  ideal fee of consuming x of an epoch is a cube of x, so that the ideal fees of
  consecutive fills telescope to that of one; `NearIdeal`, the inductive invariant, bounds how far the fees
  paid are from it, a rounding for each fill and one for the epoch.
* Its second part, the search: the bisection keeps a safe value below and an unsafe one
  above, without any assumption of monotone safety (`SearchSafe`), and each round halves
  what is left (`SearchHalves`), so that the loop is as long as the limit has bits.  For two
  assets safety is monotone (`SmallerIsSafe`), so that the result is the largest safe fill
  (`SearchMaximalForPairs`): what the treasury keeps of a fill grows by no more than the
  fill (`TreasuryGrowth`), hence the weight of the input asset only grows.  The rounding
  of the utilization makes that depend on `FineGrained`: at 10,000 basis points, a scale
  of 10^18 and the highest fee, a baseline of at most 98 * 10^18 value units.  With a
  scale of 1 the run of section 3 violates `MaximalForPairs`.
* `AurkaSepoliaSwapVMRouterProofs`: `RouterInvariant` is inductive: an epoch whose nonce
  and certificate are the present ones was opened under the present limits, which is
  what lets `RouterSettlesUnderLimits` compare names only; `SettledOnce` and
  `CapacityMatchesFlow` have their own inductive strengthenings in that module.
  `RouterSettlesSafely`: the bounds are rounded inwards, so that a portfolio inside the
  rounded ones is inside the exact ones (`WeightBounds`), and the portfolio's worth grows
  by the treasury's share of the fee.
* `DelegatedSessionProofs`: one inductive invariant for any number of operations,
  proposals, recoveries and crashes.  Only the head of the wallet's queue uses the
  signer; a stop raises the generation, and a tick past its checks has read generation
  0, so that after the stop none starts to use the signer, and the revocation waits for
  those that do (`StopFinal`).  A trade belongs to the tick that reserved it until it has
  a hash (`SentAccounted`), a recovery to the operation that claimed it (`RecoveryOnce`).
  `QueueLive` needs no more than that: each step keeps its place in the queue, joins it
  or leaves it as its head.  `BudgetAccounted` ties the session's counters to the sum
  over its trades, and `BudgetKept` is the refinement: under the mapping that the run
  checks, every step is a step of `SessionBudget` or a stutter.
* `RiskCertificateWorkerProofs`: a process that has the job when it resumes has had it
  since its tick began, because only an idle process claims one.  So what it read of the
  workflow is current, and what it read of the chain is out of date in one direction: a
  final prefix stays (`OutcomesAreFinal`).  `WorkflowGoesForward` is an action property of
  every write of a tick.  For `OneCertificateUnderWay` the invariant is strengthened by
  `RivalInv`: until a reorganization every certificate sent is the stored one or dead
  for the chain, and a process about to send sends the stored one.
* `TradingAgentsProofs`: reservation and completion are the only writers of the table of
  fundings; the uniqueness of the pending row follows from the condition inside the
  reservation's transaction and from nothing the request read before.  A transaction on
  its way is carried by one request and is in no record any request has read, so that a
  record, even one written over another, counts what it lists (`RecordInv`).  And while no
  two requests have met, `KeptInv`: one is under way, and the record it will write back
  lists what was credited, as the row does.  The two make `CreditsKept`.
  `OneWalletOfTwo` is about at most two configurations, as when a deployment changes its
  faucet once: a wallet under a configuration's key is made after the owner's key was
  refused with another body, which leaves one wallet to make.  With three configurations
  TLC finds two wallets (three processes whose leases ended, one configuration each): the
  provider refused the owner's key to the first, which keeps the key's body, and the second
  and third each list no wallet before the other has made one under its own key.

* `IndexerProofs`: `IndexerInv` is inductive.  `IndexMatchesChain` alone is not: a
  rollback needs that the stored headers below the checkpoint are of the checkpoint's
  branch (`Store`), for the ancestor it finds among them to be below the checkpoint; a
  batch needs that its logs and headers were read from one chain (`Reading`: what was
  read is still of the present chain unless `torn`), and while it is stored, that events
  stored and events pending are together those of the branch in which the batch ends,
  the pending ones later (`Batch`).  A block is whole in the store when the next pending
  event is of a higher one, which is why a crash there does no harm (`WholeBlocks`).  From
  it follow `IndexFollowsChain` and `IndexIsReplay`.  The replay, like the sort, is a fold
  that takes the last event last (`FoldStep`): projecting one more event on what is
  stored is the replay of all (`EpochOfMore`), because the pending event is later than
  all stored ones, and a settlement record holds the two events of its trade whatever it
  held before (`SettlementsReplayed`), because no other event of a branch fills the same
  half (`EventsOfBranch`).  `SyncDescends` is the core of `SyncEnds`: a stage and what is
  left of it fall with every answered call, because a rollback ends in a checkpoint that
  is canonical, and a mined block raises neither; only a reorganization can.

What a sum or a fold over a set is cannot be proved by the library's induction over
sets; the proof modules that need it show it by a least counterexample, from the
well-foundedness of the subset order (`LeastSubset`).

The theorems state every invariant and every action property that a passing run checks,
and both refinements.  Only model-checked are the three liveness properties, `SearchEnds`,
`WorkflowSettles` and `SyncEnds`: what is under fairness, and `ENABLED` in it, is beyond
the prover.  Of the first and the last the measure that falls is proved (`SearchHalves`,
`SyncDescends`); what is left to TLC is that a step is always possible and, for `SyncEnds`,
that reorganizations come to an end.  The three runs of section 5 that find a violation
are counterexamples and have nothing to prove.

## 5. Findings

`contracts/src/AurkaSwapVMRouter.sol:326` says that the same epoch id can never be reset
to lower utilization.  `_activateCapacityEpoch`, in both routers, compares with the epoch
that is held and with nothing before it, and takes the balances the epoch claims as
they come.  Run `router_reset`: an epoch is filled, another is opened, and the first is
opened again with its consumption at zero.  The first fill afterwards needs the
balances the epoch names, so the reset matters once the treasury holds them again.

`docs/privy-integration.md:73` says that a recovery is blocked while a submitted or
ambiguous transaction needs reconciliation.  `recover` (`agent/delegated.ts:1859-1868`)
is blocked by an earlier recovery only when that one has a hash.  Run
`delegated_recovery`: the transfer of a recovery is carried out, its answer is lost, its
row stays `UNKNOWN` without a hash, and the next recovery is claimed and sent.

`indexer.ts:65` calls the indexer reorg-safe, and it is whenever the chain rests while
`sync` reads: rollbacks of any depth restore the store (`indexer`).  But `sync` reads
checkpoint, logs and headers one after the other, and checks only that each log it got
is of a canonical block.  Run `indexer_reorg`: a block without events is replaced, after
the logs were read and before its header is, by one with an event; the header of the new
block is stored, the checkpoint passes it, and the event is never read again.  With
confirmations it takes a reorganization deeper than they are.  The other accident that
`IndexMatchesChain` excepts is a crash: `ingest` moves the checkpoint to the whole block
after the first of its events (`indexer.ts:83-91`), so that a process that ends there
never reads the others, and one that ends between an event and its checkpoint keeps an
event that a reorganization before the next `sync` orphans unseen.

## 6. Not modelled

* Overflow of 256-bit integers: products of values and prices are bounded checks that
  revert in Solidity; the models compute without bound.
* Cryptography: signatures and hashes do their work; the reentrancy lock as well.
* The decoding of strategies, and the deviation of a signed price from the oracle's.
* Around the risk worker: the evaluation of a certificate's limits (a certificate is its
  nonce and authority), the provider's own retries, a transaction of somebody else that
  carries the worker's certificate first and makes the worker's own revert, a context
  read half before and half after a block, and the `renew:` job row that the risk
  service queues beside the worker's own and nothing claims.
* Two policies over one position (they share a capacity slot, see the hazards).
* Around delegated sessions: the proposal itself (language model, quotes, cooldown and
  the cap of one trade), the signature and replay guard of the owner's requests, the
  worker's backoff, the amounts of allowances and transfers.  That the database calls
  are synchronous is assumed, as `better-sqlite3` makes them.
* Around trading agents: what a mandate says, balances, the caps and times of funding
  requests, the texts of policies.  Signer and execution policy are the same in all
  configurations.
* Around the indexer: the feed of removed logs (`projectRemovedLog`; nothing in `src/`
  but tests calls it), `replay`, positions that are stored under the hash of an unknown
  Space, blocks with more than one transaction, and two calls of `sync` at a time.
* Components marked `not_modelled` in `PROJECT.json`: each with its reason there.

## 7. Plan

In this order:

1. `SpaceLifecycle`: vault and factory, from creation to withdrawal, with the vault that
   `createVault` alone leaves unfinalized.
2. `SettlementService`: quotes, proposals and executions with their idempotency keys and
   what a crash between them leaves, composed with the indexer's settlements.
3. `UpstreamAuthorization`: the one-time authorization of the executor and its guard,
   composed with the router.
4. `OneUsesWallet` across several sessions of one wallet, with its proof.
