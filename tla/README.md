# A verification project for rcoin

rcoin is a full node for a proof-of-work coin: a fork of Bitcoin Core 0.16 with
Equihash and built-in miner threads. This directory holds TLA+ models of the
part of it that decides what the node believes: the set of unspent coins, how
it reaches the disk and survives a crash, how the active chain is chosen,
how the script checks of a block are spread over threads, what the memory pool
keeps, how blocks are downloaded from peers and how the subscribers of the node's
signals are called. TLC checks the models on
small instances; TLAPS proves most of the safety properties for every instance.
Paths below are relative to the repository (`src/` there is the C++ code).

## 1. Inventory

| component | state | operations | talks to |
|---|---|---|---|
| coins views (`coins.h`, `coins.cpp`) | per cache: entries with DIRTY and FRESH flags, best block | lookup, AddCoin, SpendCoin, Uncache, SetBestBlock, BatchWrite, Flush | validation above, the database below |
| chainstate database (`txdb.cpp`) | coin records, DB_BEST_BLOCK, DB_HEAD_BLOCKS; block tree records | BatchWrite in several batches, WriteBatchSync | caches above, LevelDB below |
| connecting and disconnecting blocks (`validation.cpp`, `undo.h`) | undo files, pcoinsTip | ConnectBlock, DisconnectBlock, ConnectTip, DisconnectTip | coins views, script check queue, memory pool |
| flushing and start-up (`validation.cpp`, `init.cpp`) | dirty index entries, everything on disk | FlushStateToDisk, LoadBlockIndex, ReplayBlocks, LoadChainTip, VerifyDB | databases, block files |
| chain selection (`validation.cpp`, `chain.*`) | block index, candidates, unlinked blocks, failed blocks, active chain, sequence numbers | AcceptBlockHeader, AcceptBlock, ActivateBestChain, FindMostWorkChain, preciousblock, invalidateblock, reconsiderblock | called by the message handler, the miners, import and RPC threads |
| script check queue (`checkqueue.h`) | queue, nIdle, nTotal, nTodo, fAllOk | Add, Wait, Loop | ConnectBlock (master), worker threads |
| block file pruning (`validation.cpp`) | files to unlink | FindFilesToPrune, UnlinkPrunedFiles | flushing |
| memory pool (`txmempool.*`, `policy/`) | entries with ancestor and descendant totals, links, spent-by map, fee deltas, disconnectpool | AcceptToMemoryPool, addUnchecked, removeForBlock, removeForReorg, replacement, expiry, trimming | chain selection, miner, relay |
| scheduler and validation interface (`scheduler.*`, `validationinterface.cpp`) | task queue, stop flags, thread count, per-client callback queue | schedule, serviceQueue, stop, AddToProcessQueue, ProcessQueue, EmptyQueue, SyncWithValidationInterfaceQueue | wallet, index, notifications; Shutdown |
| block download and relay (`net_processing.cpp`) | mapBlocksInFlight, mapBlockSource, per-peer state | headers, block, cmpctblock and blocktxn handlers, SendMessages, timeouts, FinalizeNode | chain selection, connections |
| miner threads (`miner.cpp`, `rpc/mining.cpp`) | block template | CreateNewBlock, ProcessNewBlock | memory pool, chain selection |
| the rest | connections, proof of work, scripts, deployments, wallet, fees, RPC, GUI, vendored code | | |

`PROJECT.json` lists all of these with what is and what is not modelled.

What is hard in this code:

* **Flags far from their effect.** A wrong DIRTY or FRESH flag in a coins cache
  shows only when the cache is written down, many calls later.
* **Crashes.** A flush is several database batches after several file writes; the
  process can die between any two of them, also during the recovery from an
  earlier crash, and while a reorganisation is half on disk.
* **Several threads in ActivateBestChain.** It releases `cs_main` between turns
  and keeps its target across the release, while other threads receive blocks,
  move the tip and mark blocks invalid.
* **Long legal histories.** Blocks arrive before their parents, are found invalid
  late, are invalidated and reconsidered by hand; the index and the candidates
  have to satisfy what `CheckBlockIndex` asserts after all of it.
* **Condition variables.** The queue's counters are changed in different critical
  sections; a lost wake-up stops the node inside a block. The scheduler drops its
  lock around a task, its stop races the waits, and boost interrupts its threads
  wherever they are.
* **Totals kept by increments.** Every mempool entry carries sums over its
  ancestors and descendants, changed by additions, removals, prioritisation and,
  while the links are incomplete, by reorganisations.
* **The same block from several sides.** A block may be in flight from one peer,
  pushed by another, relayed as a compact block by a third and submitted by RPC;
  answers come late or never and peers leave at any time.

What makes each component correct, in a sentence: the cache stack reports what
plain maps would; the UTXO set is that of the active chain and a restart always
finds a database it can bring to a consistent state; the active chain is the
best valid one when all calls have returned; Wait returns the conjunction of
all checks, always and only after the last one; callbacks are run one at a time,
once and in order, and none is forgotten at shutdown; the memory pool holds what could
be mined next, with exact totals, and a reorganisation loses nothing that could
stay; the lists and counters of blocks in flight agree, nobody is banned for what
another did, and the blocks of an answering peer arrive. The list of hazards in
`PROJECT.json` names the lines and the property that watches each.

## 2. Modules

| module | models | proofs |
|---|---|---|
| `UtxoSet` | abstract specification of the coins: three plain maps (view, tip, database) | |
| `Coins` | `coins.h`, `coins.cpp`: a view over `pcoinsTip` over the database | `CoinsProofs` |
| `BlockTree` | `chain.h`, `chain.cpp`: ancestors, heights, forks | `BlockTreeProofs` (lemmas) |
| `ChainFlush` | ConnectTip, DisconnectTip, undo data, FlushStateToDisk, CCoinsViewDB::BatchWrite, crash, ReplayBlocks, LoadChainTip, VerifyDB | `ChainFlushProofs` |
| `MCChainFlush` | the block trees on which `ChainFlush` is checked | |
| `ChainState` | block index, candidates, ActivateBestChain and its callers | `ChainStateProofs` |
| `MCChainState` | the block tree on which `ChainState` is checked | |
| `CheckQueue` | `checkqueue.h` | `CheckQueueProofs` |
| `CallbackQueue` | abstract specification of the validation interface's queue: a FIFO queue with one server | |
| `Scheduler` | `scheduler.*`, the threads that add callbacks or wait for them, and Shutdown | `SchedulerProofs` |
| `Mempool` | CTxMemPool, AcceptToMemoryPool, UpdateMempoolForReorg | `MempoolProofs` |
| `MCMempool` | the blocks and transactions on which `Mempool` is checked | |
| `BlockDownload` | block download in `net_processing.cpp` | `BlockDownloadProofs` |
| `MCBlockDownload` | the blocks and peers on which `BlockDownload` is checked | |

`ChainFlush` builds on `Coins`: there `pcoinsTip` is a plain map, which is what
the refinement of `UtxoSet` by `Coins` allows. `ChainState` and `ChainFlush` share
`BlockTree` and divide the work of validation: `ChainState` decides where the tip
goes and takes the effect of a block on the coins as a verdict; `ChainFlush`
lets the tip go anywhere and computes the effects. `Mempool` and `BlockDownload`
use the same `BlockTree`; chain selection is an input of the first (any block may be
connected or disconnected) and one step of the second (what `ChainState` shows at
the end of ActivateBestChain).

Definitions whose comment begins with "Mutant:" are deliberately
wrong variants of the definition that follows them. No specification uses
them; `PROJECT.json` says which property each of them breaks when it is put
in the place of the right one.

### Coins

State: `view`, `tip` and `db` are the cacheCoins maps of the open view and of
`pcoinsTip` and the records of the database, with `viewBest`, `tipBest` and `dbBest` as
their hashBlock. An entry is `[cached, coin, dirty, fresh]`. One action per
operation: `Lookup` (HaveCoin, AccessCoin, GetCoin, with the fetch through both
caches), three forms of AddCoin by what the caller passes as
possible_overwrite, `SpendCoin`, `GetBestBlock`, `SetBestBlock`, `FlushView`, `DropView`,
`TipLookup`, `Uncache`, `FlushTip`. Everything runs under `cs_main`, so an
operation is a step. Memory accounting, which only decides when to flush, is
left out: a flush may happen at any time.

### ChainFlush

State: `index` and `undo` in memory and on disk, the active tip, `pcoinsTip`, the
coin records with `best` and `heads`, and the BatchWrite under way (`target`,
`pending`). A coin is the height and coinbase mark of its record. The inputs of a block are
checked by `CheckTxInputs`; the undo data is computed by `BlockUndo`, and
`DisconnectBlock` goes over transactions and inputs in the code's order, with the
clean and failed outcomes of the code. The loops of the code (over the
transactions of a block, over its inputs, over the blocks of a branch) are
recursive functions from the number of turns to the state reached. A flush is `FlushStateToDisk` (files and
index, then the start of the batch write), any number of `PartialBatch` steps
with any split of the pending outpoints, and `FinalBatch`. `Crash` is possible in
every state but the stopped ones; `Restart` and `LoadChainTip` are the start-up. ReplayBlocks
writes through the same partial batches and may crash again. State `"stuck"`
is a start-up that refuses the database.

A crash is a crash of the process: what LevelDB has accepted stays.

### ChainState

State: the flags of the index entries as sets (`known`, `data`, `linked` for nChainTx,
`scripts` for BLOCK_VALID_SCRIPTS, `failedValid`, `failedChild`), g_failed_blocks, sequence ids,
setBlockIndexCandidates, mapBlocksUnlinked, the tip, and per thread where it is
in ActivateBestChain and its pindexMostWork. A step is what a thread does
between taking and releasing `cs_main`. `aborted` records that an assert of the code
failed. ReceivedBlockTransactions links waiting descendants in any order
its queue can visit them; FindMostWorkChain is the best candidate without a
failed block on the way, with its marking of the others; a turn of
ActivateBestChain connects up to the first improvement or finds an invalid block.

Two constants restrict what threads and operators do, so that the questions can
be asked apart. `Overlap = FALSE` lets one call of ActivateBestChain run at a time, with no
invalidateblock, reconsiderblock or preciousblock during it (headers and blocks
still arrive between its turns). `AnyReconsider = FALSE` admits reconsiderblock
only to undo an invalidateblock of the same block. Both are TRUE in the running program;
section 5 says what happens then.

### CheckQueue

A step is a critical section of the queue's mutex. The three ways a critical
section of Loop can end (`LeaveLoop`, `StartWaiting`, `TakeBatch`) are shared by the
three ways it can begin (`EnterLoop`, `WakeUp`, `FinishBatch`). notify_one picks any waiting worker; `SpuriousWakeUp` ends a wait without a
notification. The queue is a set, from which a batch is any subset of
the size the code computes.

### Scheduler

State: `taskQueue` in the order of times (relative to the clock), the thread
count and stop flags, the client's `m_callbacks_pending` and
`m_are_callbacks_running`, and per actor where it is. Actors are the service
threads, the threads that emit signals and the main thread. A step is a
critical section of one of the two mutexes; between the check of
MaybeScheduleProcessQueue and its call of schedule the lock is released, so these are
two steps. The waits of serviceQueue end by notification, spuriously, by timeout or by
an interruption. A notification picks any thread that waits; a thread that
leaves serviceQueue notifies another, never itself. Both ways to stop are modelled: Shutdown's interrupt_all and
join_all, followed by the last signal and EmptyQueue on the main thread; and
`stop(drain)`, which the tests use. `ImplementsCallbackQueue` maps the running
callbacks and the pending list to `CallbackQueue`.

### Mempool

State: the pool as one record (`tx`, `delta`, `anc`, `desc`, `parents`, `children`, `next`,
`size`, `mapDeltas`), the entries old enough to expire, the tip, and a
reorganisation under way (`disconnectpool`, `phase`, `vHashUpdate`). Functions of CTxMemPool
are operators from pool to pool (or, where ties leave a choice, to a set of
pools); actions are AcceptToMemoryPool, PrioritiseTransaction, ConnectTip,
DisconnectTip, and the loop and the end of UpdateMempoolForReorg. UpdateForDescendants
is modelled with the code's exclusion of the transactions being put back;
its cache of descendants, which only saves walks, is not. A loop of the code over
inputs, the transactions of a block or a queue is a function of the number of turns taken, so
that a proof can follow it turn by turn. `BlocksAssumption` says what ConnectBlock made sure of
before a block reaches the pool: on a chain a transaction stands once, spends outputs
of transactions before it, and none that one before it spends.

### BlockDownload

State: the block index as far as downloading looks at it, what each peer is known
to have (`best`, `unknown`, `common`), `download` (mapBlocksInFlight and the peers' lists
and counters), `source` (mapBlockSource), `ban`, and `asked`, the requests a peer
has not answered. One action per message handler and path through it (the
handler of cmpctblock has seven), `SendMessages` with FindNextBlocksToDownload, the two
timeouts, `FinalizeNode`, and `SubmitBlock` for blocks that come from RPC or a miner.

The handlers of block, blocktxn and cmpctblock release `cs_main` between noting the block's source
and ProcessNewBlock. They are two steps: the first leaves the block in `handling`, `HandleBlock` is
the second. The message handler serves nobody in between (one thread, net.cpp:2013), but other threads
submit blocks and delete other peers; the peer being served is referenced and stays.

A peer answers late, never, or, if it is not honest, with garbage: a malformed compact block
or blocktxn, or, under the hash of a block in `Garbles`, a *mutated* body
(CheckBlock fails, no header is looked at, nothing is stored) or a *malleated* one (the witnesses
are not those committed to; ContextualCheckBlock finds it after the header has been accepted and
does not mark the block as failed). FillBlock checks the transactions but not the witnesses, so
a compact block may be malleated and not mutated. `Bad` blocks fail in
ContextualCheckBlock or in ConnectBlock, whichever TLC picks. The walk of
FindNextBlocksToDownload is a recursive function whose value after each block
holds what was found, the staller, and whether the walk has ended.

## 3. Runs

| run | instance | what it shows |
|---|---|---|
| `coins_cache` | 2 outpoints, 3 coins (one unspendable), 2 best blocks | the flags are truthful, no logic_error can be thrown, every call has its effect, and the stack refines `UtxoSet` |
| `chain_flush` | 6 blocks, two branches, 9 transactions | the UTXO set is that of the active chain, the database is consistent or between its heads, start-up never refuses it, the tip can be disconnected |
| `genesis_undo`, `genesis_replay` | 3 blocks, one spending the genesis coin | violations, see section 5 |
| `chain_selection` | 8 blocks on three branches, 2 threads | the assertions of CheckBlockIndex, a valid and best active chain, termination of ActivateBestChain |
| `stale_mostwork`, `stale_invalid`, `reconsider` | 4 blocks in a row, 2 threads | violations, see section 5 |
| `check_queue` | 2 workers and the master, 4 checks (one fails), batches of at most 2 | exact counters, right result, Wait returns |
| `scheduler` | 2 service threads, 2 producers, 3 callbacks, a periodic task | callbacks refine `CallbackQueue` and are never forgotten, threads are counted, both stops end, nothing runs early with one thread |
| `mempool` | 5 blocks on two branches, 12 transactions | totals are exact also inside a reorganisation, indexes and inputs are what CTxMemPool::check asserts, replacement pays, reorganisations lose nothing |
| `block_download` | 2 peers, 4 blocks (one invalid, one that may come garbled) | lists and counters agree; an honest peer is banned for nothing but what another sent while it was noted as the source; blocks of a prompt peer arrive |

Why the bounds are enough to be interesting:

* `coins_cache`: entries of different outpoints interact only through lookups and
  the flush of the whole map, so two show all interference; two spendable
  coins tell an overwritten coin from a kept one; three layers are what the
  node has. The run is complete; `CoinsProofs` removes the bounds.
* `chain_flush`: transaction t1 is confirmed on both branches at different
  heights, so that rolling one branch back and the other forward has to
  replace coins and not only add them; t2 and t3 spend the same coin; t3 spends a
  coin made in its own block; coinbases are spent, so that the coinbase mark matters
  (Maturity 1). Both branches are two blocks long: a flush can fall
  in the middle of a reorganisation of depth two. VerifyDB goes as deep as a branch.
  The genesis coin is not spent here: `genesis_undo` asks about it.
* `chain_selection`: a1 fails its scripts at the bottom of a branch of three, so
  that the node disconnects b blocks for a3 and has to return, and a2 and a3 are marked as its
  children; c2 fails ContextualCheckBlock beside b2; b2, in the middle of a
  branch, may be invalidated and reconsidered, also before the data of b1 is there; a1 may
  be made precious, which ties it against b1. MIN_BLOCKS_TO_KEEP is 2, so that unrequested blocks
  can be too far ahead; the reverse sequence counter ends at -2, so that
  it reaches its limit.
* `check_queue`: two workers and the master give batches of one and of two, an
  idle and a busy worker at the same time, and two blocks in a row with
  different results. `CheckQueueProofs` removes the bounds for the safety part.
* `scheduler`: with two service threads, notifications can reach the wrong one,
  both can hold a ProcessQueue task, and one can leave while the other runs a task;
  three callbacks are one that runs, one added meanwhile (also by the callback
  itself) and one emitted by Shutdown. p1 stands for the import thread, which
  is in threadGroup and still emits signals after interrupt_all; p2 for RPC threads,
  which wait for their callback. The periodic task makes timed waits with
  a task inserted before the one waited for.
* `mempool`: A, B and C are a diamond of which a1 and a2 confirm parts, so that they are put
  back under entries already in the pool; D conflicts with A and is in the other
  branch; H depends on F, which is not standard and cannot come back; E spends
  a coinbase that a reorganisation makes immature; B has a lock time that a
  reorganisation makes it miss. The limits on ancestors, descendants, replacements, the pool
  and disconnectpool are all smaller than what the transactions need. Fee deltas
  are not negative, so that the rounding of CFeeRate plays no part.
* `block_download`: the window and the blocks per peer are 1, so that every
  limit is met; the chain is one block longer than window and limit together. x3
  is relayed as a compact block by the honest p, before validation, and sent
  by q; a2 may come from p, q or RPC while it is in flight from any of them. q may send
  a2 mutated or malleated, in full or as a compact block, at any time: also before and after
  the genuine a2 of p, which waits for a1 with p noted as its source.

Deadlock is checked in every run but `block_download`, where each NodeId
connects once and all peers may be gone.

### Fairness

* `ChainState`: a thread that is in ActivateBestChain takes `cs_main` again and goes
  on. The loop of the code has no wait in it but the lock; between turns it
  calls SyncWithValidationInterfaceQueue only when the queue is long. No fairness
  is assumed of anything that arrives. (The formula is
  weak fairness written out: a turn is possible exactly when `MayActivate` holds and
  changes the state unless it is `Fruitless`, which no turn of the code is.)
* `CheckQueue`: a thread that can take the mutex takes it in the end, a batch
  that was begun ends, and ConnectBlock, which holds the control, goes on to
  Wait, as every path through it does, at the latest in the destructor. No
  fairness is assumed of spurious wake-ups.
* `Scheduler`: every thread that can go on does, the clock too, tasks and callbacks end, the node
  starts at least one service thread (init.cpp:1285), and a timed wait is not
  cut short by spurious wake-ups each time just before its end (strong fairness of `Timeout`).
  Nothing is assumed of the producers: neither signals nor shutdown have to come.
* `BlockDownload`: the message handler serves every peer again and again, the socket
  thread deletes disconnected peers, a block that stays first in flight has its timeout, and
  a `Prompt` peer sends what it is asked for. These are weak fairness of
  SendMessages, Banned, FinalizeNode, DownloadTimeout and the answers,
  written as what each action puts an end to. The thread is busy with a block in between, so what is
  weak is the fairness of its turns; `HandleBlock` ends each.
  No fairness is assumed of other peers. `BlocksArrive` has one antecedent: malleated
  blocks stop coming. A peer that relays a malleated compact block is never punished (its source is noted
  with FALSE), and each relay may take the block over from the peer it is in flight
  from before asking or failing; nothing in the code counts how often.

## 4. Proofs

`CoinsProofs`, for any outpoints, coins and blocks. The inductive invariant is
`TypeOK /\ FlagsSound`: FRESH entries hide nothing below, clean entries mirror
the layer below, and a hidden spent coin is DIRTY. It is needed for both
layers at once, because a flush of the view changes the layer below it into
what the view was, and because a lookup changes `tip` under an open view. From
it follow: `TypeCorrect`, `FlagsCorrect`, `LogicErrorFree` (the throws of AddCoin and BatchWrite are unreachable),
`EffectsCorrect` (the action property) and `CachesImplementUtxoSet` (the refinement,
initial states and step by step). Assumed: the spent coin is no
unspent one, and the null hash is no block's hash.

`CheckQueueProofs`, for any finite number of workers and checks, any failing
subset and any positive batch size. `TodoCounts` and `CountersRight` with `TypeOK` are not
enough for `WaitRight`, the property that matters: `ResultSoFar` adds that fAllOk is the
conjunction of the checks completed since the control was opened, that
a thread which skips its batch does so only after another check has failed, and
that nothing is outstanding outside a control. The
proof goes by the shape of the module: `Ready` says what holds after the
clean-up of a critical section, each beginning establishes it, and each
ending turns it into the invariant. Theorems: `TypeCorrect`, `TodoCorrect`, `CountersCorrect`,
`WaitCorrect`.

`BlockTreeProofs` holds no result of its own but the lemmas that the modules which
walk the tree rest on. `Chain` is defined as the least set with its tip that is
closed under pprev, and induction over the tree is stated with a set of blocks in the place
of a predicate: a set that has the genesis block and the children of its
members has every block. From it: chains are finite and nested, heights grow by one, a branch from
a fork is listed in order, a loop over a branch keeps what each turn keeps (`RunUp`, `RunDown`).
Assumed (`TreeAssumption`): every block but the genesis block has a parent, and descends from it.
The set of blocks may be infinite.

`ChainFlushProofs`, for any tree and any transactions. About a block that
ConnectBlock accepts, two facts carry the rest: applying it gives every
outpoint it touches the value in the UTXO set of the block, undoing it the value in the UTXO set of its
parent, *whatever was there before*, and both leave the other outpoints alone. A database torn
between two heads therefore becomes the set of the fork when it is rolled back and
the set of the new head when it is rolled forward, although each record
may come from either head and some were already rolled. `Inv` says so of every moment:
`MemoryRight` (coins, index and undo data in memory are those of the active chain),
`DbRight` (the database is that of its best block, or each record is that of one of its
heads, and everything a replay needs is on disk) and `WriteRight` (what a batch write
still has to write). Theorems: `TypeCorrect`, `UtxoSetCorrect`,
`DatabaseCorrect`, `TornDatabaseCorrect`, `DiskOrdered`, `RecoveryNeverStuck`,
`TipUndoable`. Assumed: `TxAssumption`, which is what CheckBlock, the coinbase rules and the rule against duplicate transactions make sure
of (the first transaction is the coinbase, no output is spent twice by a
transaction, none is twice on a chain), and `GenesisKept`: the
database has been flushed once and no transaction spends an output of the genesis block. The last
is needed: `genesis_undo` and `genesis_replay` are counterexamples without it.

`ChainStateProofs`, for any tree, any work, any verdicts of validation and any number of
threads. Three layers of invariants:

* `Basic`, with no hypothesis, also with overlapping activations and any
  reconsiderblock: types; linked blocks have linked ancestors; blocks that wait are not linked; every target is
  linked; no block with data failed ContextualCheckBlock, none on the active chain its scripts. Theorems `TypeCorrect` and `NoInvalidBlockActive`: whatever the race, no block that fails
  ContextualCheckBlock or its scripts is ever on the active chain. The races of section 5 cost asserts and the
  best chain, not this.
* `Marks`, if `AnyReconsider` is FALSE: how the failure flags, g_failed_blocks and the unlinked
  blocks fit. Theorem `FailedBlocksCorrect`: the assert of AcceptBlockHeader.
* `Turns`, under `OneAtATime` (neither `Overlap` nor `AnyReconsider`, and no two
  precious blocks with the same work): there is a candidate that will connect, the *threshold*, such that every linked block as good as it that is not
  failed is a candidate. It is the tip for which the candidates were last pruned: the active one
  when no call is under way, perhaps a better one during a call. This is what survives the fall back from an invalid branch, where the tip is for a while
  below what the candidates were pruned for. Theorems `AssertsHold`,
  `ActiveChainSound`, `LinksCorrect`, `CandidatesCorrect`, `BestChainReached`.

Assumed: work grows along a chain and the comparator's addresses differ.

`SchedulerProofs`, for any finite number of service threads, any producers and callbacks. `Inv`
adds to the three invariants: at most one actor runs callbacks and the flag says
whether one does (`OneRuns`), the phases of a shutdown, what a draining thread knows
of the queue, and that a single thread in a timed wait wakes up in time for the first
task, whatever was scheduled since (`TimedRight`). `NeverForgotten` is inductive only with the first two: a
callback added while another runs relies on the runner to schedule again, and
one added after the last service thread has gone on EmptyQueue.
Theorems: `TypeCorrect`, `NothingForgotten`, `CounterCorrect`, `DrainCorrect`,
`TasksOnTime` (an action property) and `SchedulerImplementsQueue` (the refinement).

`BlockDownloadProofs`, for any tree, any peers and any limits.
`HonestPeersSafe` is the action property `HonestBannedForGarbled`, not "honest peers are
not banned", which is false of the code (section 5). It needs that only blocks over an invalid one are marked as failed,
that whoever would be punished for a block has it (`HonestInv`), and, as the source may be used
many steps after it was noted, what the block being handled is and who sent it (`HandlingRight`).
`InFlightCorrect` needs the same agreement of mapBlocksInFlight, the peers' lists and the counters
at every stage inside a handler, since a handler removes, appends and searches
in turn (`DownloadInv`; the lemmas `ErasedRight`, `AppendedRight`,
`SearchRight` follow the functions of the code). Assumed: an honest peer has no block over an
invalid one, and relays compact blocks, which it may before validation, only over valid parents.

`MempoolProofs`, for any finite set of transactions, any limits and any tree of valid blocks.
`Inv` has these parts:

* `Sound`: mapNextTx names for each spent output the entry that spends it, and mapLinks
  is symmetric and joins each entry to the entries it spends. During a reorganisation the links
  from an entry put back to children that were never confirmed are
  missing, and no others: UpdateTransactionsFromBlock adds them at the end. The size of the pool
  and the totals of every entry are the sums over what these links reach (`Summed`).
* `Known`: the priority of an entry is the one mapDeltas has for it. PrioritiseTransaction adds
  the same amount to both, and the fee that MayReplace computes from mapDeltas is the one the
  entry will have.
* `Funded`: every input of an entry is an output of an entry or unspent on the chain, or of a
  transaction that waits in disconnectpool.
* `Apart`: pool, disconnectpool and the active chain share no transaction.
* `Ordered`: what was put back spends nothing that still waits, and what waits spends,
  of the entries, only what was put back: the earliest is put back first. What was put back
  stays until the end, and vHashUpdate has it in the order of the chain (`InOrder`).
* `OneChain`: what was put back and what waits came from one chain and so spends
  no output twice. Without it a transaction put back might conflict with one put back before.
* `Ripe`: outside a reorganisation every entry is final and none spends an immature coinbase.

The lemmas follow the functions of the code: a walk over the links finds the least
closed set (`ReachFacts`), removing an entry with its descendants leaves no entry
without its inputs (`RecursivelyRemoved`, `Trimmed`, `ReorgRemoved`), a replacement never removes a parent of the
transaction that replaces (`ParentsKept`), and the links that a reorganisation left out are
all there at its end (`AllLinked`).

For the totals, `SumUnion` and `TotalUnion` say that a sum over disjoint parts is the sum of
theirs, and each update of the code is matched with the change of one walk: an entry that
is added is reached by its ancestors only (`AddedSummed`), entries that are removed with all
their descendants are subtracted from the ancestors that reached them (`RemovedSummed`; with all their
ancestors, from their descendants, in a block), a prioritisation is told to both sides (`PrioritisedSound`).
UpdateTransactionsFromBlock is the hard case. It goes from the latest entry put back to the
earliest, and `PartlySummed` says what the totals are in between: an entry R that has not had its turn counts
only descendants that were put back too, and one that was never confirmed does not
count R as an ancestor. The turn of an entry whose
ancestors are all still to come (`InOrder`) adds exactly what it then reaches (`BlockSummed`).
In the other order a child would be counted twice or never.

Theorems: `InvHolds`, `IndexesCorrect`, `InputsCorrect`, `TotalsCorrect` and, as an action property,
`ReplacementsPay`, which sums the fees of the whole pool before and after.
Assumed: `MempoolAssumption` and `LimitsAssumption` (types of the parameters), `BlocksAssumption`
(blocks are valid).

Only model-checked:

* the liveness properties (`ActivationEnds`, `WaitReturns`, `CallbacksRun`, `ShutdownEnds`,
  `BlocksArrive`), which need fairness;
* of `Mempool`, the action property `NothingLost`. It needs to know of every transaction that
  has left why it cannot come back: an input is spent on the chain, a parent has left, or a limit was met by
  entries that were put back and stay. `Inv` says nothing of what has left, nor of the order
  within disconnectpool.

## 5. Where the code and its promises part

Five runs are expected to be violated; each states what a comment or a help text of the
repository says.

* `genesis_undo`: in this fork ConnectBlock connects the coinbase of the genesis
  block like any other, while comments say it is skipped and cannot be spent. If a
  block spends it, the undo record carries height 0, which ApplyTxInUndo
  reads as missing metadata, and the block cannot be disconnected.
* `genesis_replay`: for the same reason a crash during the very first flush can
  lose that coin: the replay starts above the genesis block.
* `stale_mostwork`: a thread that slept in ActivateBestChain with an old target
  takes the tip back to it; all calls have returned and the best chain is
  not active until the next block arrives.
* `stale_invalid`: the same window with an invalidateblock in it: the thread
  connects the invalidated block and the assert of PruneBlockIndexCandidates fails.
* `reconsider`: reconsiderblock of a descendant clears the flags of the invalidated
  ancestor and leaves it in g_failed_blocks; the next header on that branch
  fails the assert of AcceptBlockHeader.

`chain_selection` therefore sets `Overlap` and `AnyReconsider` to FALSE: with one
activation at a time, and reconsiderblock as the undoing of an invalidateblock,
the same properties hold within its bounds. What else it leaves out:

* Between the turns of a call that has fallen back from an invalid branch,
  valid blocks as good as the tip are missing from the candidates: they were pruned
  when the tip was higher. The assertion at validation.cpp:4424 would fail then, and another
  thread's AcceptBlock may call CheckBlockIndex at that moment (3284, with -checkblockindex). `CandidatesRight` asks for
  these blocks when no call is under way, and for a valid candidate to return to always.
* A block whose data comes while its parent is marked as failed is not entered into
  mapBlocksUnlinked (2871). If an ancestor's data is missing, invalidateblock of the parent,
  then the data of the child, then that of the ancestor leave the child with all data on its chain and no
  nChainTx, against the assertion at 4404. `LinksRight` excuses a block under a failed one.
* reconsiderblock after which a known block without data or a second failed
  block is on the branch (`UndoesInvalidation`): for the same reason nothing links
  the block afterwards (the assertion at 4446); ancestors
  whose flags were cleared are not put back among the candidates (4415), and
  siblings keep BLOCK_FAILED_CHILD (4424).
* Two precious blocks with the same work. The counter of preciousblock starts again
  at -1 when the tip has more work than at the last call (2672). A second
  preciousblock of a tip that was preferred earlier, with a lower id, lifts its id back to -1; the other block is then
  the better one without being a candidate, and it does not become
  active. Also, a later call need not override an earlier one as
  rpc/blockchain.cpp:1381 says. `chain_selection` has one precious block, `OneAtATime` at most one of a work.
* invalidateblock of the genesis block.
* A block that fails ContextualCheckBlock is marked but not entered into g_failed_blocks, as
  in the code; the failure is found by its own flag.

Observations about the newer modules, each excluded from its run as said:

* With two threads servicing the queue a task can run before its time: a thread
  whose timed wait has ended takes whatever is first by then
  (scheduler.cpp:65-77). The node starts one thread, and `OnTime` is stated for one.
* `stop(drain = true)` never ends if a periodic task exists, which schedules itself
  again for ever; `ShutdownEnds` says so. Only tests call it.
* A thread of threadGroup that waits in SyncWithValidationInterfaceQueue (the import thread
  through ActivateBestChain, validation.cpp:2594) when interrupt_all has ended the
  scheduler thread is never answered, and join_all (init.cpp:216) waits for it. In the run
  only p2, which is not in threadGroup, waits.
* mapBlockSource.emplace keeps the first source of a block (net_processing.cpp:2666), and the
  note stays while the block waits for its ancestors. If another peer then sends the same
  header with mutated transactions, CheckBlock fails with DoS 100 and BlockChecked
  (954-958) bans the first sender, which did nothing wrong; the sender of the mutated
  body is not punished. With `ban \cap Honest = {}` as an invariant, TLC finds this in the instance of
  `block_download`: honest p sends a2 before a1 is there, q sends a2 mutated.
  `HonestBannedForGarbled` says that there is no other way to ban an honest peer at once.
* A compact block that arrives while the block was submitted by RPC is ignored at
  net_processing.cpp:2399 and stays in flight; the peer is then
  disconnected by the download timeout although it answered. `BlocksArrive` allows for it (the peer is given up).

## 6. Not modelled, and the plan

Not modelled at all: the interpretation of scripts, Equihash and difficulty
arithmetic (data out of TLC's reach; here they are verdicts), wallet, RPC,
REST, ZMQ and GUI (formatting and I/O), sockets and the address book, fee
estimation, vendored libraries. Not modelled within the parts above: disk-full and other system errors
(they end the process, which is the crash of `ChainFlush`), reindexing,
RewindBlockIndex, the fork warnings. Of the memory pool: the rolling minimum fee, saving and
loading (LoadMempool calls PrioritiseTransaction without `cs_main`, validation.cpp:4584 and 4614, so it may fall
inside a reorganisation; `Mempool` has it under the lock, as the RPC does), fee estimation. Of the
peer logic: headers synchronisation (getheaders and its timeouts), relay of
transactions and addresses, eviction.

Simplified within the modules, where it matters for reading a result:

* `BlockDownload` counts only misbehaviour worth 100 at once. The small scores
  (10 for a header with an unknown parent, 20 for every tenth headers message that does not
  connect, 10 for transactions that are not final) are left out, and with them the bans they add up to,
  also of honest peers. A block message over an unknown parent has no score:
  BlockChecked (954) skips reject code 0.
* A block whose own transactions fail CheckBlock is not among the `Bad` ones; a mutated body takes the same
  path through ProcessNewBlock.
* In `BlockDownload`, ProcessNewBlock from its own LOCK to the end of ActivateBestChain is one
  step, and so is the mark of a reconstructed block after it. `ChainState` has the turns of ActivateBestChain
  and what falls between them.
* `Mempool` has one absolute height per transaction for lock times: relative locks and
  LockPoints are collapsed into it.
* `NothingLost` speaks of reorganisations after which all that is owed fits into the pool, which in
  the run leaves out the one that disconnects both blocks of the a branch.

The next steps:

1. The proof of `NothingLost` of `Mempool`: an invariant on what is owed and has left, and one on the order
   of disconnectpool.
2. `ChainFlush` with pruning: UnlinkPrunedFiles comes before the coins are
   flushed (validation.cpp:2104); which files a restart may still need.
3. Block assembly (miner.cpp) over `Mempool`: the package selection keeps parents before children.
4. The headers synchronisation and the eviction of outbound peers in `net_processing.cpp`.
