-------------------------------- MODULE Indexer --------------------------------
(***************************************************************************)
(* The event indexer: ChainEventIndexer of packages/services/src/          *)
(* indexer.ts and the tables of db/repository.ts it projects into, over a  *)
(* chain that grows and reorganizes while sync runs.                       *)
(*                                                                         *)
(* The hash of a block commits to everything below it, so a block is named *)
(* by the branch that ends in it: a sequence of blocks.  Block number n of *)
(* the code is position n + 1 here, and the empty branch stands for "no    *)
(* checkpoint" and for the ancestor -1.  A block holds one transaction at  *)
(* most: the activation of a capacity epoch, or a trade, which emits       *)
(* FeesRouted and then TradeExecuted.  There is one direction of one       *)
(* position, hence one row of capacity_epochs.                             *)
(*                                                                         *)
(* sync runs from await to await; each transaction of the store is a step  *)
(* of its own, because the process may end between two of them.            *)
(***************************************************************************)
EXTENDS Integers, Sequences, FiniteSets, SequencesExt

CONSTANTS
    Trades,         \* transactions that settle a trade
    Activation,     \* the transaction that activates the capacity epoch
    None,           \* an absent value
    Confirmations,  \* blocks sync stays behind the latest one
    MaxLength,      \* bound: blocks of a branch
    MaxBlocks,      \* bound: blocks ever made
    CrashBound      \* bound: crashes of the process

ASSUME IndexerAssumption ==
    /\ Confirmations \in Nat
    /\ MaxLength \in Nat \ {0} /\ MaxBlocks \in Nat \ {0} /\ CrashBound \in Nat
    /\ Activation \notin Trades /\ None \notin Trades /\ None # Activation

Transactions == Trades \union {Activation}
Blocks == [id : 1 .. MaxBlocks, tx : Transactions \union {None}]

VARIABLES
    chain,        \* the canonical branch, as the RPC source would tell it now
    made,         \* blocks made so far: their ids
    events,       \* chain_events, keyed by transaction and log index
    headers,      \* indexing_headers: one branch for each block number
    checkpoint,   \* indexing_checkpoints: the branch up to the last block read
    epoch,        \* the consumed value of capacity_epochs, or None without a row
    settlements,  \* settlement_records, one for each trade
    sync,         \* where sync is, and its local variables
    damaged,      \* history: one of the accidents of IndexMatchesChain
    crashes

stored == <<events, headers, checkpoint, epoch, settlements>>
network == <<chain, made>>
vars == <<stored, network, sync, damaged, crashes>>

----------------------------------------------------------------------------
(* The chain and what a source answers about it.                           *)

Branch(n) == SubSeq(chain, 1, n)

\* getBlockHash of the number of a stored block answers its stored hash.
Canonical(branch) == IsPrefix(branch, chain)
On(branch) == {branch[n].tx : n \in DOMAIN branch}

\* The consumed value the contract reports for the last block of a branch.
ConsumedAfter(branch) ==
    Cardinality({n \in DOMAIN branch : branch[n].tx \in Trades})

Event(branch, index, name) ==
    [tx |-> Last(branch).tx, index |-> index, name |-> name, block |-> branch,
     consumed |-> ConsumedAfter(branch)]

\* The logs of the last block of a branch.
LogsAt(branch) ==
    CASE Last(branch).tx = Activation ->
             {Event(branch, 0, "CapacityEpochActivated")}
      [] Last(branch).tx \in Trades ->
             {Event(branch, 0, "FeesRouted"), Event(branch, 1, "TradeExecuted")}
      [] OTHER -> {}

\* getLogs for the blocks from .. to of a branch.
Logs(branch, from, to) ==
    UNION {LogsAt(SubSeq(branch, 1, n)) : n \in from .. IF to < Len(branch) THEN to ELSE Len(branch)}

Earlier(a, b) == \/ Len(a.block) < Len(b.block)
                 \/ Len(a.block) = Len(b.block) /\ a.index < b.index

\* Events are taken up by block and by log index: last comes one that is not earlier than
\* any other.
Newest(logs) == CHOOSE e \in logs : \A other \in logs : ~Earlier(e, other)
FoldInOrder(op(_, _), base, logs) ==
    MapThenFoldSet(op, base, LAMBDA e : e, Newest, logs)
InOrder(logs) == FoldInOrder(LAMBDA e, sorted : Append(sorted, e), <<>>, logs)

----------------------------------------------------------------------------
(* The projections.                                                        *)

\* applyProjectedEvent: an activation writes the row, a trade updates it.
Projected(value, event) ==
    CASE event.name = "CapacityEpochActivated" -> 0
      [] event.name = "TradeExecuted" /\ value # None -> event.consumed
      [] OTHER -> value

\* Bug: a record once orphaned stays so when its trade is mined again.
FaultySettled(records, event, orphaned) ==
    IF event.tx \notin Trades THEN records
    ELSE [records EXCEPT ![event.tx] =
            [trade |-> IF event.name = "TradeExecuted" THEN event.block ELSE @.trade,
             fee |-> IF event.name = "FeesRouted" THEN event.block ELSE @.fee,
             orphaned |-> @.orphaned \/ orphaned]]

\* applySettlementEvent: each of the two events of a trade fills its half.
Settled(records, event, orphaned) ==
    IF event.tx \notin Trades THEN records
    ELSE [records EXCEPT ![event.tx] =
            [trade |-> IF event.name = "TradeExecuted" THEN event.block ELSE @.trade,
             fee |-> IF event.name = "FeesRouted" THEN event.block ELSE @.fee,
             orphaned |-> orphaned]]

\* rebuildProjectedState over the events kept.
ReplayedEpoch(kept) ==
    FoldInOrder(LAMBDA e, value : Projected(value, e), None, kept)
ReplayedSettlements(records, kept, orphaned) ==
    FoldInOrder(LAMBDA e, acc : Settled(acc, e, orphaned), records, kept)

\* The row that an event's transaction and log index name is replaced.
Upserted(event) ==
    {e \in events : e.tx # event.tx \/ e.index # event.index} \union {event}

----------------------------------------------------------------------------
(* sync.                                                                   *)

Idle == [at |-> "idle", to |-> 0, next |-> 0, logs |-> {}, headers |-> {},
         todo |-> <<>>, torn |-> FALSE]
At(place) == sync.at = place

\* sync throws, or returns: nothing of it is kept but what is stored.
Leave == sync' = Idle

Start ==
    /\ At("idle")
    /\ sync' = [Idle EXCEPT !.at = "latest"]
    /\ UNCHANGED <<stored, network, damaged, crashes>>

\* getLatestBlock has answered; the checkpoint is read.
Latest ==
    /\ At("latest")
    /\ LET to == Len(chain) - Confirmations
       IN  IF to < 1 THEN Leave
           ELSE sync' = [sync EXCEPT !.to = to,
                                     !.at = IF checkpoint = <<>> THEN "logs" ELSE "verify"]
    /\ UNCHANGED <<stored, network, damaged, crashes>>

\* getBlockHash of the checkpoint has answered.
Verify ==
    /\ At("verify")
    /\ CASE Len(checkpoint) > Len(chain) -> Leave
         [] Canonical(checkpoint) ->
              IF Len(checkpoint) + 1 > sync.to THEN Leave
              ELSE sync' = [sync EXCEPT !.at = "logs"]
         [] OTHER -> sync' = [sync EXCEPT !.at = "walk", !.next = Len(checkpoint) - 1]
    /\ UNCHANGED <<stored, network, damaged, crashes>>

\* Bug: the block next to the ancestor is spared.
FaultyBeyond(ancestor, block) == Len(block) > Len(ancestor) + 1
Beyond(ancestor, block) == Len(block) > Len(ancestor)

\* rollbackToBlock, one transaction: the records of the orphaned branch are
\* marked, its events and headers deleted, the projections rebuilt and the
\* checkpoint put back.
DropAbove(ancestor) ==
    LET gone == {e \in events : Beyond(ancestor, e.block)}
        kept == events \ gone
    IN  /\ events' = kept
        /\ headers' = {h \in headers : ~Beyond(ancestor, h)}
        /\ settlements' = ReplayedSettlements(
                              ReplayedSettlements(settlements, gone, TRUE), kept, FALSE)
        /\ epoch' = ReplayedEpoch(kept)

\* Bug: the checkpoint stays at the orphaned block.
FaultyRollbackTo(ancestor) == DropAbove(ancestor) /\ UNCHANGED checkpoint
RollbackTo(ancestor) == DropAbove(ancestor) /\ checkpoint' = ancestor

\* getBlockHash of the next lower block with a stored header has answered;
\* with none left, the ancestor is -1.  After the rollback sync calls itself.
Walk ==
    /\ At("walk")
    /\ LET lower == {h \in headers : Len(h) <= sync.next}
           candidate == CHOOSE h \in lower : \A k \in lower : Len(k) <= Len(h)
       IN  IF lower = {} \/ Canonical(candidate)
           THEN /\ RollbackTo(IF lower = {} THEN <<>> ELSE candidate)
                /\ sync' = [Idle EXCEPT !.at = "latest"]
           ELSE /\ sync' = [sync EXCEPT !.next = Len(candidate) - 1]
                /\ UNCHANGED stored
    /\ UNCHANGED <<network, damaged, crashes>>

\* getLogs has answered for the range, of which the chain may have lost the
\* end since getLatestBlock.
ReadLogs ==
    /\ At("logs")
    /\ sync' = [sync EXCEPT !.at = "header", !.next = Len(checkpoint) + 1,
                            !.logs = Logs(chain, Len(checkpoint) + 1, sync.to),
                            !.torn = @ \/ Len(chain) < sync.to]
    /\ UNCHANGED <<stored, network, damaged, crashes>>

SameNumber(h, others) == \E k \in others : Len(k) = Len(h)

\* getBlockHash of one block of the range has answered.  After the last one
\* the logs are held against the headers, which are saved.
ReadHeader ==
    /\ At("header")
    /\ LET read == sync.headers \union {Branch(sync.next)}
       IN  IF \/ sync.next > Len(chain)
              \/ sync.next = sync.to /\ \E e \in sync.logs : e.block \notin read
           THEN /\ Leave
                /\ UNCHANGED <<stored, damaged>>
           ELSE IF sync.next < sync.to
           THEN /\ sync' = [sync EXCEPT !.next = @ + 1, !.headers = read]
                /\ UNCHANGED <<stored, damaged>>
           ELSE /\ sync' = [sync EXCEPT !.headers = read, !.todo = InOrder(sync.logs),
                                        !.logs = {}, !.at = "project"]
                /\ headers' = {h \in headers : ~SameNumber(h, read)} \union read
                /\ damaged' = (damaged \/ sync.torn)
                /\ UNCHANGED <<events, checkpoint, epoch, settlements>>
    /\ UNCHANGED <<network, crashes>>

\* ingest: projectEvent, one transaction ...
Project ==
    /\ At("project") /\ sync.todo # <<>>
    /\ LET event == Head(sync.todo)
       IN  /\ events' = Upserted(event)
           /\ settlements' = Settled(settlements, event, FALSE)
           /\ epoch' = Projected(epoch, event)
    /\ sync' = [sync EXCEPT !.at = "mark"]
    /\ UNCHANGED <<headers, checkpoint, network, damaged, crashes>>

\* ... and setCheckpoint to the block of that event, another.
Mark ==
    /\ At("mark")
    /\ checkpoint' = Head(sync.todo).block
    /\ sync' = [sync EXCEPT !.at = "project", !.todo = Tail(@)]
    /\ UNCHANGED <<events, headers, epoch, settlements, network, damaged, crashes>>

\* setCheckpoint to the end of the range.
Finish ==
    /\ At("project") /\ sync.todo = <<>>
    /\ checkpoint' = CHOOSE h \in sync.headers : Len(h) = sync.to
    /\ Leave
    /\ UNCHANGED <<events, headers, epoch, settlements, network, damaged, crashes>>

\* A call of the source fails, its retries included.
Fail ==
    /\ sync.at \in {"latest", "verify", "walk", "logs", "header"}
    /\ Leave
    /\ UNCHANGED <<stored, network, damaged, crashes>>

\* The process ends.  Between an event and its checkpoint, or between two
\* events of one block, that leaves a part of a block in the store.
Crash ==
    /\ ~At("idle") /\ crashes < CrashBound
    /\ crashes' = crashes + 1
    /\ damaged' = \/ damaged
                  \/ At("mark")
                  \/ /\ At("project") /\ sync.todo # <<>>
                     /\ Head(sync.todo).block = checkpoint
    /\ Leave
    /\ UNCHANGED <<stored, network>>

----------------------------------------------------------------------------
(* The chain.                                                              *)

\* A branch grows by a block.  A transaction is in a branch once, and a trade
\* needs its epoch.
Extended(branch) ==
    {Append(branch, [id |-> made + 1, tx |-> t]) :
        t \in {None} \union (IF Activation \in On(branch) THEN Trades \ On(branch)
                             ELSE {Activation})}

Mine ==
    /\ made < MaxBlocks /\ Len(chain) < MaxLength
    /\ made' = made + 1
    /\ chain' \in Extended(chain)
    /\ UNCHANGED <<stored, sync, damaged, crashes>>

\* The blocks above position n are replaced by another one, so the chain may
\* become shorter for a while.  sync reads on: what it has read so far is then
\* of one branch and the rest of another, if a block it has looked at is
\* replaced.
Reorg ==
    /\ made < MaxBlocks
    /\ made' = made + 1
    /\ \E n \in 0 .. Len(chain) - 1 :
         /\ chain' \in Extended(Branch(n))
         /\ LET touched == \/ At("logs") /\ n < Len(checkpoint)
                           \/ At("header") /\ n < sync.to
            IN  sync' = [sync EXCEPT !.torn = @ \/ touched]
    /\ UNCHANGED <<stored, damaged, crashes>>

----------------------------------------------------------------------------

Init ==
    /\ chain = <<[id |-> 1, tx |-> None]>>
    /\ made = 1
    /\ events = {} /\ headers = {} /\ checkpoint = <<>> /\ epoch = None
    /\ settlements = [t \in Trades |-> [trade |-> None, fee |-> None, orphaned |-> FALSE]]
    /\ sync = Idle
    /\ damaged = FALSE
    /\ crashes = 0

\* What a running sync does when its calls are answered.
SyncStep == \/ Latest \/ Verify \/ Walk \/ ReadLogs \/ ReadHeader
            \/ Project \/ Mark \/ Finish

Next == \/ Start \/ SyncStep \/ Fail \/ Crash
        \/ Mine \/ Reorg

\* The source answers every call: retryBounded and the RPC's own timeouts end
\* those that are never answered, which is then Fail.
Spec == Init /\ [][Next]_vars /\ WF_vars(SyncStep)

----------------------------------------------------------------------------
(* Properties.                                                             *)

EventsOf(branch) == Logs(branch, 1, Len(branch))
Ingesting == sync.at \in {"project", "mark"}

(***************************************************************************)
(* The stored events are those of the branch that the checkpoint names, no *)
(* more and no fewer, after any sequence of reorganizations between calls  *)
(* of sync and within its walk to the common ancestor, of failed calls and *)
(* of crashes; except after the accidents damaged records: a batch whose   *)
(* reading a reorganization crossed, and a crash between an event and the  *)
(* checkpoint of its block or between two events of one block.             *)
(***************************************************************************)
IndexMatchesChain == ~damaged /\ ~Ingesting => events = EventsOf(checkpoint)

(***************************************************************************)
(* The derived tables are what a rebuild from the stored events gives,     *)
(* whether they came by ingestion, in any number of syncs and crashes, or  *)
(* by a rollback, barring the same accidents: the capacity consumed, which *)
(* trades are orphaned, and the block of each half of a settlement.        *)
(***************************************************************************)
ProjectionIsReplay ==
  ~damaged =>
    /\ epoch = ReplayedEpoch(events)
    /\ \A t \in Trades :
         LET own == {e \in events : e.tx = t}
         IN  IF own = {} THEN settlements[t].trade # None => settlements[t].orphaned
             ELSE /\ ~settlements[t].orphaned
                  /\ \A e \in own : e.block = IF e.name = "FeesRouted"
                                              THEN settlements[t].fee
                                              ELSE settlements[t].trade

(***************************************************************************)
(* Every sync ends, however often it meets a reorganization and calls      *)
(* itself again: a rollback leaves a checkpoint that is not rolled back    *)
(* again unless the chain has moved.                                       *)
(***************************************************************************)
SyncEnds == ~At("idle") ~> At("idle")

(***************************************************************************)
(* "Reorg-safe event projector" (indexer.ts:65): whatever the chain does,  *)
(* the events stored are those of the branch of the checkpoint.            *)
(***************************************************************************)
ReorgSafe == ~Ingesting => events = EventsOf(checkpoint)

\* The type of every variable.
TypeOK ==
    /\ chain \in Seq(Blocks) /\ made \in 1 .. MaxBlocks
    /\ \A e \in events : e.block \in Seq(Blocks) /\ e.tx \in Transactions
    /\ headers \subseteq Seq(Blocks) /\ checkpoint \in Seq(Blocks)
    /\ epoch \in Nat \union {None}
    /\ sync.at \in {"idle", "latest", "verify", "walk", "logs", "header", "project", "mark"}
    /\ damaged \in BOOLEAN /\ crashes \in 0 .. CrashBound
================================================================================
