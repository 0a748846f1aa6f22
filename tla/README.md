# A TLA+ verification of the Dinastycoin node

This directory specifies, model-checks and partly proves the parts of the Dinastycoin daemon
(`src/src/`, a C++ node of the Monero family) whose correctness depends on long sequences of
operations, on interleavings of connections, or on what a failure leaves behind:

* the **hard fork tracker**, which says which block version is in force;
* the **transaction pool**, which lives half in the database and half in memory;
* the **blockchain** proper: main chain, alternative branches, invalid blocks, checkpoints,
  batches and restarts;
* the **download of the chain** from several peers at once through the block queue.

Modules are checked with TLC on small instances; theorems about them, for every value of the
constants, are checked with TLAPS.

## How the parts interact

Blocks come in through the protocol handler. While a node is behind, each connection asks its peer
for hashes, reserves spans of them in the block queue, puts the answers there, and whichever
connection gets `m_sync_lock` hands the first span to the core (`BlockSync`, `BlockQueue`). The
core opens a database batch around the span (`prepare_handle_incoming_blocks`), puts the blocks'
transactions in the pool (`TxPool`), and offers each block to `Blockchain::add_new_block`
(`Blockchain`), which takes the transactions out of the pool and extends the main chain, keeps the
block as an alternative, or switches branches; `cleanup_handle_incoming_blocks` commits or aborts
the batch. Each block added to or popped from the main chain is told to the hard fork tracker
(`HardFork`), whose table was filled at start-up from the compiled-in ones (`ForkTable`), and to
the pool, which clears its cache of input checks.

The components are specified separately. What one needs of another appears in it as a set of
possible outcomes: `TxPool` has blocks that are added, refused or popped, for any reason;
`Blockchain` has blocks whose transactions may be missing from the pool (`Missing`); `BlockSync`
adds spans of valid blocks. `TableIsAsAssumed` shows that what
`ForkTable` leaves behind is a table as `HardFork` assumes it.

## Modules

| module | models | checked by | proofs in |
|---|---|---|---|
| `HardFork` | `cryptonote_basic/hardfork.cpp`, start-up of `Blockchain::init` | `MCHardFork` | `HardForkProofs` |
| `ForkTable` | `HardFork::add_fork`, tables of `hardforks/hardforks.cpp` | `MCForkTable` | `HardForkProofs` |
| `TxPool` | `cryptonote_core/tx_pool.cpp`, its callers in `blockchain.cpp` and `cryptonote_core.cpp` | `MCTxPool` | `TxPoolTypeProofs`, `TxPoolProofs`, `TxPoolExactProofs` |
| `Blockchain` | `cryptonote_core/blockchain.cpp`, `checkpoints/checkpoints.cpp`, `core::update_checkpoints`, `core::init` | `MCBlockchain` | `BlockchainProofs` |
| `Ledger` | abstract: what readers of the main chain may rely on | (via `Blockchain`) | `LedgerProofs` |
| `BlockQueue` | `cryptonote_protocol/block_queue.cpp` | (via `BlockSync`) | `BlockSyncProofs` |
| `BlockSync` | `cryptonote_protocol/cryptonote_protocol_handler.inl` | `MCBlockSync` | `BlockSyncProofs` |
| `DataLemmas` | facts about sequences, finite sets and folds the proofs share | | `DataLemmas` |

`PROJECT.json` maps every definition to the lines it translates. Operators commented as mutants
(`PopBlockKeepsFork`, `EnforceBelowTop`, ...) are variants of the operator that follows them, with a
plausible mistake; no specification uses them. Each property is known to fail for one.

### HardFork

State: `chain` (major and minor version of each block), `hf_versions` (the database's version per
height), `versions` (the window of votes), `current_fork_index`, and `release`, the number of table
entries the running release knows. `last_versions` counts the window and is not a variable.
Actions: `AddBlock` (a block that passes `check`, then `add`), `PopBlock` (`on_block_popped`),
`Reorganize` with `ReplayBlock` (`reorganize_from_block_height`, one block per step under its lock),
`Restart` (`init`, `rescan_from_block_height`; possibly a newer release), `StartupPop` and
`StartupDone` (the loop of `Blockchain::init` that pops blocks of the wrong version).

### ForkTable

The loop of `Blockchain::init` that hands a table to `add_fork`, whose result is ignored.

### TxPool

State in the database: `chain`, `pool` (metadata: relay method, receive time, the block used, the
block it last failed at). In memory: `spent` (`m_spent_key_images`), `sorted`
(`m_txs_by_fee_and_receive_time`), `weight` (wraps at `SizeModulus`), `timed_out`, `cache`. `batch`,
`prune.pool` and `template.pool` hold what an abort or a crash restores. Each operation of the code
is an action; `prune`, `fill_block_template` and the returning of a block's transactions take one
transaction per step, so that a crash can come between any two. A transaction has the key images it
spends and the transactions its rings need; input verification (external to the pool) is a function
of these and of the chain. Left out, since nothing depends on it: `double_spend_seen`, relay times,
`m_cookie`, the cache of parsed transactions.

### Blockchain and Ledger

State: `main`, `alt`, `invalid`, the loaded checkpoints `points`, the open `batch` with what its
abort restores, `updating` (`m_checkpoints_updating`), `running`. A block's ancestors and cumulative
difficulty are fixed by its hash and therefore constants. What validation finds is a constant
(`Kind`), except that transactions may be missing and `BlockchainDB::add_block` may throw (`Faults`):
because the database fails, or because two transactions of the block spend one key image.
`add_new_block` is one step under `m_blockchain_lock`: on top (`AddToMain`), alternative or switch
(`HandleAlternative`, `SwitchTo`, `SwitchFails` with the rollback and its own possible failure), or
refusal. Further: `update_checkpoints`, `BatchStart`/`BatchEnd`, `pop_blocks`,
`flush_invalid_blocks`, `Restart` (a stop or a crash anywhere).

`Ledger` has only the visible `chain` and the `saved` one. `Adopt` replaces the chain by the path to
a heavier block (or to a checkpoint), `Commit` saves it, `Lose` goes back to what was saved.
`Blockchain` implements it under the mapping `chain <- main`, `saved <- IF batch.open THEN
batch.main ELSE main` (property `KeepsLedger`).

### BlockQueue and BlockSync

`BlockQueue` has one operator per method of `block_queue`, from queues to queues: each holds the
mutex. `BlockSync` interleaves the handlers of the connections between any two calls to the queue,
`pc` being where the handler of a connection is: `OnCallback`; `HandleChainEntry`, `ScanChainEntry`;
`HandleObjects`; `TryLock`, `NextSpan`, `AddToChain`, `RemoveAdded` (`try_add_next_blocks`);
`RequestStart`, `Pick`, `Reset`, `Reserve`, `Skip` (`request_missing_objects`). `Connect` and
`TimedSync` are `process_payload_sync_data`; `CheckStandby` and `KickIdle` the timers. An answer
arrives at any time, in order per connection; a timeout may come before it; a peer may leave.

Assumptions of `BlockSync`:

* peers are honest, unpruned and on one chain, so that a hash is a height; they differ in length;
* heights are within `CRYPTONOTE_PRUNING_TIP_BLOCKS` of the top, where every stripe is 0;
* dropping a connection and `on_connection_close` are one step, and the spans left by the closed
  connections of one peer share an owner; scores of hosts are left out;
* the decisions at the start of `request_missing_objects` and in `Reserve` see one state of the
  queue;
* an exception that leaves a handler is caught by the network library (`call_back_starter` for a
  callback, `handle_invoke_map` for an answer) and the connection stays open: after the throw in
  `Reset` it is idle, with `m_requested_objects` filled and no request sent.

Two branches are absent because they cannot be reached under these assumptions: the drop of a
connection that can neither add nor download (the next span is filled whenever it gets there), and
the "inconsistent context" one of the reservation.

## Runs

| run | configuration | shows |
|---|---|---|
| `hardfork_scheduled` | `HardForkScheduled.cfg` | `VersionIsScheduled`: without voting the tracked and stored versions are the scheduled ones, through pops, rescans, restarts and upgrades; `StartupFinishes` |
| `hardfork_voting` | `HardForkVoting.cfg` | `RescanIsTransparent`: with votes, a rescan ends where adding the same blocks from genesis does, on chains whose blocks are not replaced |
| `fork_table` | `ForkTable.cfg` | `OrderedHeights` for all small tables; `ShippedForksScheduled`: which shipped entries are scheduled |
| `txpool_exact` | `TxPoolExact.cfg` | `MemoryExact`, `WeightExact`: memory is what `init` would rebuild; `NoDoubleSpend`; `InitReturnsTrue`: every restart succeeds; `PruneEnforcesLimit`; with public arrivals and no aborted batch |
| `txpool_all` | `TxPoolAll.cfg` | `IndexSound` with all relay methods, promotions and stem loops |
| `txpool_faults` | `TxPoolFaults.cfg` | `CacheFresh`, `TemplateValid` with aborted batches |
| `txpool_init` | `TxPoolInit.cfg` | violation: `InitReturnsTrue`, once transactions are promoted |
| `chain_switch` | `BlockchainAll.cfg` | `OnePlace`, `CheckpointsHold`, `FailedSwitchReverts` with pops and a checkpoint loaded late |
| `chain_heaviest` | `BlockchainHeaviest.cfg` | `HeaviestKnown`, `NeverLighter`, and `KeepsLedger`, the refinement |
| `chain_faults` | `BlockchainFaults.cfg` | `MainIsPath` with database failures and pruned blocks |
| `chain_update` | `BlockchainUpdate.cfg` | violation: `UpdateCompletes` |
| `block_sync` | `BlockSync.cfg` | `NoPhantoms`, `HaveIsRequested`, `NoWedge`, mutual exclusion (in `TypeOK`), `DownloadCompletes` |

### Bounds, and why they are enough

* *Hard forks*: three forks, chains of up to 5 blocks, windows of 2 and 3. The window fills and
  slides, both forks are crossed upwards and downwards, and upgrades from one fork to three pop
  several blocks. `MaxMinor` 4 lets a block vote for a version that no release knows.
* *Fork tables*: all tables of up to three entries over small fields, so that each comparison of
  `add_fork` fails alone and together with others, and the three shipped tables.
* *Pool*: three transactions with two key images, of which two conflict, or two transactions when
  every relay method is used; `MaxWeight` 2 so that pruning removes some and keeps some; chains of
  one or two blocks, so that a ring member can be confirmed, popped and confirmed again; one tick of
  the clock, which separates the two lifetimes.
* *Blockchain*: 12 blocks in four branches of which two share a prefix. A shorter branch can be the
  heavier one, switches go back and forth up to four blocks deep, one block has wrong inputs, one a
  wrong miner transaction, some may lack transactions; checkpoints at heights 3 and 4 decide against
  the heavier branch. Database failures multiply the outcomes of every switch and rollback, so
  `chain_faults` leaves out `a4`, the top of a branch, and gives the wrong miner transaction to `c3`,
  the top of the heaviest one: a switch of several blocks still fails at each of them, and its
  rollback at each of the old ones.
* *Download*: two peers with 4 and 3 blocks, spans of 2, `MaxFilled` 1 so that the queue gets full,
  one connection late or lost (`MaxTrouble`). Spans overlap, are taken over, flushed and filled out
  of order. What two troubles add is described under *Known limits*.

`CHECK_DEADLOCK FALSE` is used for `ForkTable` alone, whose loop ends.

### Fairness

`HardFork`: weak fairness of the start-up loop and of the replay loop: once entered they run to
their end on one thread. `BlockSync`: handlers that run go on, peers can be reached again, timers
keep firing (weak fairness of `Run`, `OnCallback`, `Connect`, `TimedSync`). Strong fairness is
assumed where a step is disabled and enabled again by others: the delivery of an answer (callbacks
of the connection come in between), `check_standby_peers` (every second) and the callback it posts
at once against the timed synchronization (every minute), and getting `m_sync_lock` in `TryLock`
against the moments in which `request_missing_objects` of other connections holds it.

## Proofs

Every theorem holds for all values of the constants under the `ASSUME`s of its module, which TLC
evaluates in the runs. The bounds (`MaxHeight` and so on) are constants, too, so the results are not
about a bounded system.

| theorem | statement | further assumptions |
|---|---|---|
| `HardForkProofs!TypeCorrect` | `Spec => []TypeOK` | |
| `HardForkProofs!VersionsFollowSchedule` | `Spec => []VersionIsScheduled` | thresholds are 0 |
| `HardForkProofs!RescansAreTransparent` | `SpecNoPop => []RescanIsTransparent` | |
| `HardForkProofs!TableIsOrdered` | `FillSpec => []OrderedHeights` | |
| `HardForkProofs!TableIsAsAssumed` | `FillSpec => [](handed # 0 => IsForkTable(HeldTable))` | the tables start with version 1 |
| `HardForkProofs!ShippedForksAreKept` | `FillSpec => []ShippedForksScheduled` | |
| `TxPoolProofs!CacheIsFresh` | `Spec => []CacheFresh` | |
| `TxPoolProofs!TemplatesAreValid` | `Spec => []TemplateValid` | |
| `TxPoolProofs!IndexIsSound` | `Spec => []IndexSound` | no batch is aborted |
| `TxPoolTypeProofs!EveryType` | `Spec => []TypeOK` | `Tx` is finite |
| `TxPoolExactProofs!MemoryIsExact` | `Spec => []MemoryExact` | `PublicOnly` |
| `TxPoolExactProofs!WeightIsExact` | `Spec => []WeightExact` | `PublicOnly` |
| `TxPoolExactProofs!PoolHasNoDoubleSpend` | `Spec => []NoDoubleSpend` | `PublicOnly` |
| `TxPoolExactProofs!DaemonStarts` | `Spec => []InitReturnsTrue` | `PublicOnly` |
| `TxPoolExactProofs!PruningIsEnforced` | `Spec => PruneEnforcesLimit` | `PublicOnly` |
| `BlockchainProofs!BlockchainTypes` | `Spec => []TypeOK` | |
| `BlockchainProofs!MainChainIsPath` | `Spec => []MainIsPath` | |
| `BlockchainProofs!CheckpointsAreKept` | `Spec => []CheckpointsHold` | checkpoints compiled in |
| `BlockchainProofs!BlocksAtOnePlace` | `Spec => []OnePlace` | the database does not fail, and no block spends a key image twice |
| `BlockchainProofs!FailedSwitchIsReverted` | `Spec => FailedSwitchReverts` | the same, nothing pruned, checkpoints compiled in |
| `BlockchainProofs!ChainNeverLighter` | `Spec => NeverLighter` | the same |
| `LedgerProofs!LedgerIsKept` | `Spec => KeepsLedger` | the same, and no `pop_blocks` |
| `LedgerProofs!HeaviestIsMain` | `Spec => []HeaviestKnown` | the same, and no `pop_blocks` |
| `BlockSyncProofs!IndicesMatchSpans` | `Spec => []NoPhantoms` | |
| `BlockSyncProofs!ArrivedIsRequested` | `Spec => []HaveIsRequested` | |
| `BlockSyncProofs!OneConnectionAdds` | `Spec => []TypeOK` | |
| `BlockSyncProofs!OnlyTheThrowWedges` | `Spec => []NoWedge` | |

`PublicOnly`: `Tx` is finite, transactions arrive with the methods `fluff` and `block` only, and no
batch is aborted (the database does not fail, and no block spends a key image twice). These are the
conditions of the run `txpool_exact`; *Known limits* says why they cannot be dropped.

The arguments:

* **`VersionsFollowSchedule`**. `VersionIsScheduled` speaks of phase `run` only and says nothing of
  the database, so it is not inductive. `ScheduledInv` adds that every block votes for its version
  and was stored with it, that the whole chain follows the table of *some* earlier release, and what
  the fork index is inside the two loops. The popping loop then stops at a block on which the old
  and the new table agree, below which they agree as well because the table is ordered.
* **`RescansAreTransparent`**, about `SpecNoPop`: blocks are added and the tracker is
  reorganized from any height, but no block is popped. `FromGenesis` is a tracker that is fed with the
  chain from its first block. `RescanInv` says of *every* height, not only of the top, that the
  version stored for it is that of the fork `FromGenesis` has there and that its block passed the
  check of that fork. A rescan that starts below therefore picks the same fork, rebuilds the same
  window, and its replay loop is never stopped by a block.
* **`TableIsOrdered`, `TableIsAsAssumed`, `ShippedForksAreKept`**. One invariant on the order of what
  was accepted. For `TableIsAsAssumed`, `FilledInv` adds that the first entry is accepted and stays
  first: the assumption of `HardFork` on its table then holds of every table the loop can leave behind,
  whatever it refused. For a shipped table, `ShippedInv` adds that all entries so far were accepted, up
  to the one that is out of order.
* **`CacheIsFresh`, `TemplatesAreValid`, `IndexIsSound`**. `CacheInv` relates each known entry of the
  cache to `InputsOk` on the present chain, and adds that a batch that changed the chain has emptied
  the cache: only the blocks' own transactions arrive before it ends, and they bypass the cache, so
  that an abort brings back a chain about which nothing is cached. `TemplateInv` needs it for the
  transactions that are chosen by a cached answer. `IndexInv` adds that the key images of a
  transaction that are in the index are the first ones of its inputs, without which the removal,
  which stops at the first one missing, would leave some behind; and that a prune that is undone
  brings back no fewer transactions than the pool has.
* **`MemoryIsExact`, `WeightIsExact`, `PoolHasNoDoubleSpend`, `DaemonStarts`, `PruningIsEnforced`**.
  All five follow from `ExactInv`. Memory is exact because a transaction is only ever added while the
  pool does not have it. For arrivals that is a guard of `core::add_new_tx`; for what a popped or
  refused block gives back it needs `PlacesInv`: no transaction is twice on the chain, or both there
  and in the pool, and those still to be given back (`todo`) are in neither and distinct. `MemoryInv`
  is the exactness itself, `PoolsInv` says that the pools that an open batch, a prune loop or a
  template would restore are free of double spends as well, and `PruneInv` that the prune loop has
  passed only transactions kept by a block. The list by fee is characterised by `Lists` (each
  transaction once, with its time, in order), which insertion and deletion at a place keep. Weights
  and the rebuilt list are folds over finite sets: `DataLemmas` shows that the function a fold is
  defined by exists, and, by an induction over subsets, what it returns.
* **`EveryType`** holds without `PublicOnly`. Its only part that takes an argument is that the
  iterator of the prune loop stays within the list.
* **`MainChainIsPath`, `BlocksAtOnePlace`, `CheckpointsAreKept`**. `ChainInv` says of both the main
  chain and the one an abort would restore that they are paths; `PlaceInv` and `CheckInv` extend it
  in the same way to alternatives, invalid blocks and checkpoints: a property of the current chain
  alone is not preserved by an abort or a crash.
* **`FailedSwitchIsReverted`, `ChainNeverLighter`**. From `ChainInv` and `CheckInv`: the blocks
  removed agree with the checkpoints, hence each can be added again, and the rollback is complete.
* **`LedgerIsKept`**. A step simulation on top of the above: a switch, however deep, is one `Adopt`;
  a failed one stutters; `BatchEnd` is `Commit`, a crash `Lose`.
* **`HeaviestIsMain`**. `HeaviestInv` says of each alternative block that the checkpoints below it
  are on its path and on the main chain, and that it is no heavier than the main chain or misses one
  of the main chain's checkpoints; and the same of what an open batch would restore. A switch makes
  the blocks it takes off the chain alternatives, which are lighter than the new top; a switch that
  fails takes the failed block and those above it out of the alternatives, and what is left of the
  branch was there before.
* **`IndicesMatchSpans`, `ArrivedIsRequested`**. `QueueOK` joins the two properties, each of which a
  method needs for the other, with the types of spans. One lemma per method of the queue shows that it
  keeps `QueueOK`; handlers change the queue only through them.
* **`OneConnectionAdds`, `OnlyTheThrowWedges`**. `SyncInv` says of each connection, at each place its
  handler can be at, what it holds: whoever is in the loop of `try_add_next_blocks` has the lock and
  nobody else does; one that waits for a timeout has an answer on its way; one that is idle while
  synchronizing has an answer, a callback, or blocks noted as requested, which only the throw leaves
  behind; a handler that stopped between two calls to the queue still has the span it was told about
  and has noted its blocks as requested. A step changes the context of one connection; the closing of one
  only renames, for another that is adding a span to the chain, the owner of that span.

Only model-checked: the liveness properties `StartupFinishes` and `DownloadCompletes`, which need
fairness and `ENABLED`; and `CheckpointsHold` for checkpoints that are loaded late, which is not true
of every height (*Known limits*).

## Findings

1. **A pool that `init` refuses** (`txpool_init`, `tx_pool.cpp:1633`). `tx_pool.h` documents `init`
   with "@return true". A promoted transaction can have two entries in the list by fee. When `prune`
   meets the second one it finds no metadata and returns without commit: what it removed is in the
   database again but not in memory. A transaction that spends the same key image is then accepted,
   and at the next start `insert_key_images` fails for one of the two.
2. **Enforcing two checkpoints** (`chain_update`, `blockchain.cpp:4611`).
   `check_against_checkpoints` skips checkpoints "for a block we don't have yet" by a height it read
   before the loop. After a rollback for one checkpoint, the next one asks for a block that is gone,
   and the exception leaves `m_checkpoints_updating` set, so that no later update takes place.

`ShippedForksScheduled` records that versions 13 and 14 of the stagenet table are not dated after
version 12, and that `add_fork` therefore drops them without a message.

## Known limits of the code that the properties work around

* With an aborted batch, the pool's memory does not follow the database (`m_batch_success`), so
  `IndexSound` and `MemoryExact` are claimed without such aborts. `WeightExact` is claimed without
  promotions, which add the weight again.
* With an aborted batch, a block can be an alternative again that `m_invalid_blocks` keeps, so
  `OnePlace` is claimed without. A batch is aborted when the database fails, and on a healthy one
  when transactions of one block spend one key image.
* With a database failure, a block that spends a key image twice or pruned blocks, a failed switch
  may leave the shorter chain, since the result of the rollback is ignored.
* After `pop_blocks`, a heavier alternative branch that starts exactly at the tip is not adopted
  (`build_alt_chain` asserts that the main chain is higher), so `HeaviestKnown` is claimed without
  pops.
* A checkpoint at height 1 or 2 that is loaded late is not enforced (`pt.first - 2`). The runs load
  one at height 3 late.
* With voting, `on_block_popped` puts stored versions into the window in place of votes. What a
  reorganisation finds after blocks were popped and replaced can therefore differ from a scan from
  genesis, and `RescanIsTransparent` is claimed without pops. No shipped table has voting.
* *That the downloaded blocks are also added* is not a property of the code: `try_add_next_blocks`
  is called after an answer and from standby only. When the lock was taken just then and all
  connections become normal, the spans stay in the queue until a new block or peer appears. This
  happens in the model with one late connection. `DownloadCompletes` therefore asks that the blocks
  are on the chain or in the queue.
* `request_missing_objects` asks the queue for the next span if it is still scheduled, and in a second
  critical section calls `reset_next_span_time`, which asserts that the span is there and has no
  blocks (`block_queue.cpp:332`, `335`). If its blocks arrive on another connection in between, or it
  is flushed, the assertion throws; in the model this takes 15 steps. The connection stays open with
  its blocks noted as requested and no request sent. `kick_idle_peers` and `check_standby_peers` do
  not see it, and `process_payload_sync_data` returns at once for it, so that only a callback already
  pending serves it again. This is part of the model. `NoWedge` says that nothing else leaves a
  connection so, and `DownloadCompletes` that the download completes unless one stays so for good.
* With two late connections, an answer can take over the hashes of a span that was reserved again
  with another size; the queue then counts a block as present that did not arrive, and the download
  may not complete.

## Not modelled

* **Relay of blocks and transactions** (fluffy blocks, Dandelion++, `levin_notify`): timers and
  random choices between peers; their effect on the pool is `TxPool`'s arrival of transactions with
  any relay method.
* **`get_relayable_transactions`** and the relay times; the pool's and the chain's queries.
* **Pruned peers, blocks that fail to verify during the download, peers on different branches,
  `update_sync_search`**: left out of `BlockSync` to keep two full connections within reach of TLC.
* **The database** (LMDB): storage; its batches are taken to be atomic.
* **The peer-to-peer layer and epee**: peer lists, handshakes, bans, sockets.
* **Cryptography, ring signatures, difficulty, formats, the miner**: functions of data that cannot be
  enumerated at a size that matters, outside the scope of TLC and of these provers. Their verdicts
  are inputs.
* **Daemon and RPC**: their state-changing calls are actions above; the rest is reporting.
* **Wallets, hardware devices, command line tools**: clients of the node.
* **`translations/*.ts`**: Qt translation tables, XML data without operations.
