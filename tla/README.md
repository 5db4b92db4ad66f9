# A TLA+ model of the Avian node's chain state

Avian is a Bitcoin/Ravencoin descendant: a node that keeps a tree of blocks,
activates the branch with the most work, and maintains two replicated state
machines along it, the set of unspent coins and the registry of assets (issued
names, metadata, verifier strings, address tags, freezes). This directory
models the part of the node where those are kept (the layered caches, the way
they reach the disk, the choice of the active chain), the download that brings
the blocks, and the two thread pools around it: the script check queue and the
scheduler.

    tlc -config MCCoinsCache.cfg MCCoinsCache      # one run
    tlapm LayeredCacheProofs.tla                   # the proofs of one module

`PROJECT.json` lists runs, mutants, the definition-to-source map, findings,
hazards and theorems. Paths below are relative to the repository's `src/`
directory, which appears as `src/src/` in `PROJECT.json`.

## 1. The parts of the system

| part | state | operations | what is hard about it |
|---|---|---|---|
| Coin caches, `coins.{h,cpp}` | a hash map per `CCoinsViewCache` with DIRTY and FRESH flags; a view per block over `pcoinsTip` over the database | FetchCoin, AddCoin, SpendCoin, BatchWrite, Flush, Uncache | flags are promises about the layer below, made by one call and used by another, much later |
| Coin database and recovery, `txdb.cpp`, `validation.cpp` | best block, head blocks, coins, block index | FlushStateToDisk, BatchWrite, ReplayBlocks | crashes between two batches, and again during the replay; four stores written in sequence |
| Block tree, `validation.cpp`, `chain.*` | mapBlockIndex, setBlockIndexCandidates, mapBlocksUnlinked, g_failed_blocks, status flags | AcceptBlockHeader, AcceptBlock, ActivateBestChain, InvalidateBlock, ResetBlockFailureFlags, PreciousBlock | blocks out of order, reorganizations that fail half way, cs_main released between steps |
| Script check queue, `checkqueue.h` | queue, nIdle, nTotal, nTodo, fAllOk | Add, Wait, Loop | lost wake-ups, a verdict taken early, state left for the next block |
| Tags and freezes, `assets/assets.cpp`, `assets/restricteddb.cpp` | add and remove sets per layer, LRU caches, database | AddQualifierAddress ..., Flush, DumpCacheToDatabase | connect, undo, read and dump in any order must give the answer of the chain |
| Issue and reissue, `assets/assets.cpp`, `coins.cpp` | new, removed and reissued assets, verifier sets, undo data | AddNewAsset, AddReissueAsset, RemoveReissueAsset ... | the same, with partial undo records |
| Balances of `-assetindex`, `assets/assets.cpp`, `assets/assetdb.cpp` | mapAssetsAddressAmount and its dirty sets | transfer, spend, undo, dump | amounts cached in several layers |
| Mempool and its asset maps, `txmempool.cpp` | entries, mapReissuedAssets, tag and freeze maps | add, remove, removeForBlock, reorg | ancestor accounting; maps that must follow both block and pool |
| Messages, snapshots, rewards, `assets/messages.cpp`, `assets/rewards.cpp` ... | dirty caches and databases | expiry, orphaning, snapshot at a height | reorganizations across the height |
| Verifier expressions, `LibBoolEE.cpp` | none | parse, evaluate | precedence |
| Scheduler and serial client, `scheduler.{h,cpp}`; validation interface on top | taskQueue, nThreadsServicingQueue, stop flags, m_callbacks_pending, m_are_callbacks_running | schedule, serviceQueue, stop, AddToProcessQueue, ProcessQueue, EmptyQueue | lost wake-ups, callbacks lost between two locks, order, an interruption at any point of a shutdown |
| Difficulty and version bits, `pow.cpp`, `versionbits.cpp` | a cache | DGW, LWMA, threshold states | integer division, boundaries, cache |
| Block download, `net_processing.cpp` | mapBlocksInFlight, CNodeState, four global counters | headers, inv, block, cmpctblock, blocktxn, SendMessages, FinalizeNode | late, lost and duplicate answers; four timeouts; a peer finalized while cs_main is released |
| Relay and addresses, `net.cpp`, `addrman.cpp` | address tables, inventories | relay | randomised tables |
| Validation of transactions and scripts, signature caches | cuckoo tables | VerifyScript ... | a large sequential function |
| Mining, wallet, RPC, REST, ZMQ, GUI, Lua flight plans | | | clients of the above |

How they interact. A thread holding `cs_main` takes a block: AcceptBlock puts
it in the tree, ActivateBestChain chooses a target and calls ConnectTip or
DisconnectTip. Each opens an empty `CCoinsViewCache` over `pcoinsTip` and an
empty `CAssetsCache` over `passets`; ConnectBlock hands the scripts to the
check queue and applies the transactions to both; at the end both are flushed
down one layer. FlushStateToDisk later writes the block index, `pcoinsTip` and
`passets`, in this order. At start-up ReplayBlocks repairs the coin database.
Blocks come from peers: the message handler asks for headers and blocks under
`cs_main`, releases it, and calls ProcessNewBlock. What was connected is told
to the wallet and others through the serial client of the scheduler, whose
callbacks must come in the order of the chain's changes.

## 2. Modules

| module | models | state to code |
|---|---|---|
| `CoinStore` | the abstract promise: one coin map, transactions, a durable copy | |
| `CoinsCache` | the two caches and the database as maps of flagged entries | `view`: the block's `cacheCoins`; `pcoinsTip`; `pcoinsdbview`; `thrown`: a `std::logic_error` |
| `BlockTree` | the tree that `pprev` spans, and the ancestors of a block | `Parent`: `pprev` |
| `BlockTreeProofs` | induction and recursion along a tree, used by the proofs below | |
| `ChainstateFlush` | flush, partial batches, crash, restart, replay, for coins, block index and asset names | `heads`/`best`: DB_HEAD_BLOCKS and DB_BEST_BLOCK; `pending`: dirty entries; `assetsAdd`/`assetsDel`: dirty sets of `passets` |
| `ChainstateFlushProofs` | theorems about `ChainstateFlush` | |
| `RestrictedTags` | tags, sub-qualifier tags, frozen addresses, global freezes | `passets`: the four dirty containers; `lru`: the three read caches; `db`: `prestricteddb` |
| `LayeredCacheProofs` | theorems about `CoinsCache` and about `RestrictedTags` | |
| `AssetMetadata` | issue, reissue, verifier, undo records | `passets`: the seven dirty containers; `metaLru`, `verLru`; `metaDB`, `verDB` |
| `AssetMetadataProofs` | theorems about `AssetMetadata` | |
| `ChainSelection` | block tree, candidates, activation by threads, operator | one variable per container or flag of the code |
| `ChainSelectionBase`, `ChainSelectionProofs` | theorems about `ChainSelection` | |
| `CheckQueue` | the thread pool | one variable per member and per local of Loop that survives an unlock |
| `CheckQueueProofs` | theorems about `CheckQueue` | |
| `SerialQueue` | the abstract promise of the serial client: callbacks one at a time, in order, each once | |
| `Scheduler` | `CScheduler`, `SingleThreadedSchedulerClient`, and the shutdown that interrupts, joins and empties | one variable per member; `pc`, `back`, `task`, `callback`, `until`: the program counter and the locals of each thread |
| `SchedulerProofs` | theorems about `Scheduler` | |
| `BlockDownload` | which headers and blocks are asked of whom, what the answers do to the tables, who is given up | `nodeState[p]`: the fields of `CNodeState` by name; `partialBlock`: entries with a PartiallyDownloadedBlock; `processing`: what the handler does after it released `cs_main`; `requests`: the wire |

An action is one call with the lock held, from lock to unlock, and includes
everything the call changes. `MCxxx` modules give the constants their values.
A definition preceded by "Variant:", or named as its neighbour with a suffix,
is a form of the next definition with a slip in it; no specification uses it,
and the mutants of `PROJECT.json` substitute it to see that a property notices.

`CoinsCache` and `ChainstateFlush` split the coin layers between them. The
former has every flag and takes a database batch as one step. The latter takes
the cache as what `CoinsCache` shows it to be (a map, and which of its entries
are not yet stored) and cuts the batch anywhere. `RestrictedTags` and
`AssetMetadata` share the shape of `CAssetsCache` but no container, so they are
separate. Blocks are history variables there: the code finds them on disk.

Type invariants also say what shape the containers keep: FRESH comes with
DIRTY, head blocks and best block are not both recorded, a key is not both
added and removed, a header's parent is known.

## 3. Runs

Passing:

| run | bounds | states | shows |
|---|---|---|---|
| `coins_cache` | 2 outpoints, 2 coins | 6 980 | CachesCoherent, NoLogicError, and that `CoinsCache` implements `CoinStore` |
| `chainstate_flush` | a tree of 6 blocks with a fork, 5 outpoints, 2 assets, 2 crashes | 184 129 | CoinsMatchTip, DatabaseMatchesBest, the assertion of BatchWrite (ReplayFlushesSameTip), AssetsMatchTipUnlessTorn, and Recovers |
| `restricted_tags` | 1 qualifier, 1 sub-qualifier, 1 restricted asset, 1 address; 2 blocks of up to 2 changes | 401 874 | AnswersMatchChain (for tags, root tags, freezes), ReadCacheInDatabase |
| `asset_metadata` | 2 assets, 3 issues, 2 reissues; 3 blocks of up to 2 transactions, one of an asset | 378 384 | ExistsMatchesChain (with unique names), MetaMatchesChainUnlessStale, VerifierMatchesChain |
| `chain_selection` | 8 blocks, one unacceptable and one unconnectable, 1 thread | 1 990 | CheckBlockIndex (the assertions of that function about candidates, failed, linked and waiting blocks), FailedBlocksMarked (the assertion of AcceptBlockHeader), BestChainActive, ActivationReturns |
| `chain_operator` | 6 blocks, one unconnectable; invalidate, reconsider, prefer | 313 192 | ActiveChainValid, SuccessorLeft (the comment of PruneBlockIndexCandidates), WorkGivenUpOnlyForInvalid |
| `check_queue` | 1 master, 2 workers, up to 4 checks in any number of Add calls | 731 223 | CountersExact, VerdictOfAllChecks, NextBlockStartsClean, WaitReturns |
| `scheduler` | 2 service threads, 1 caller, the main thread; 2 callbacks, a repeating function, clock to 1 | 268 453 | NoLostSchedule, ShutdownComplete, that the client implements `SerialQueue` (OneAtATime), ScheduledWorkRuns, StopAndShutdownEnd |
| `block_download` | 2 peers on the branches of a fork, 4 blocks, one invalid; compact blocks; 1 announcement | 1 074 544 | the limit of blocks in transit (TypeOK), DownloadTablesAgree |
| `block_sync` | the same peers, one prompt and one that need not answer and may come back once; 1 block mined locally | 61 163 | PromptPeerKept, SyncsToPromptPeer |

Violated, each with a finding in `PROJECT.json` that quotes the line of the
repository it contradicts:

| run | property | what happens |
|---|---|---|
| `crash_assets` | AssetsMatchTip | A crash after the coins are flushed and before the asset dump ends. The coin database has a single head, ReplayBlocks returns at once, and the asset database stays behind. |
| `chain_stale_target` | BestChainActive | Two threads in ActivateBestChain. One keeps its `pindexMostWork` over an unlock in which the other activates a better chain, then reorganizes away from it; both return. |

Five more configurations are kept beside the runs, to be run by hand. TLC
finds a violation in each; they mark where a property of the passing runs ends.

| configuration | module | property | what happens |
|---|---|---|---|
| `MCTagsUndo` | `MCRestrictedTags` | UndoRestores | A block that adds or removes a sub-qualifier tag is disconnected. `Flush` pours the removals of the root map into its additions, and the answer for the root qualifier is not the one before the block. |
| `MCAssetUndo` | `MCAssetMetadata` | MetaMatchesChain | An issue and a reissue are undone before a dump. `mapReissuedAssetData` still serves the metadata. `stale` in `AssetMetadata` marks such names, and the passing run excepts them. |
| `MCChainMarked` | `MCChainSelection` | FailedBlocksMarked | `reconsiderblock` on a descendant of an invalidated block clears the mark of the latter but leaves it in `g_failed_blocks`: the next header above it meets the assertion. |
| `MCSchedulerEarly` | `MCScheduler` | AtOrAfterItsTime | Two service threads wait for one function. One takes it; the other, timed out as well, takes the next one, before its time (`scheduler.h`: "Call func at/after time t"). The node runs one service thread, and `validationinterface.cpp` asks not to rely on that. |
| `MCBlockDownloadMined` | `MCBlockDownload` | PromptPeerKept | A block asked of a peer as a compact block reaches the node by `submitblock`. The peer's answer is dropped at "Nothing to do here" with the block still in flight, and the download timeout disconnects the peer that answered. |

Other bounds show more of the same kinds. When a block may hold two transactions
of one asset (`Spec` in place of `MempoolSpec`, `MaxTxs = 2`), the uniqueness in
`ExistsMatchesChain`, `VerifierMatchesChain` and `MetaMatchesChainUnlessStale`
fail: a name whose issue was undone can be issued twice in one block
(`CheckIfAssetExists` looks at the removals of `passets` first); a second
verifier set in one block is not inserted; two reissues in one block are undone
with the first undo record. ConnectBlock accepts such blocks, but no mempool
makes them: it refuses an issue of a name that a pooled issue has
(ContextualCheckNewAsset), a reissue of an asset that the chain does not have, and
a second reissue of an asset (`mapReissuedAssets`, `validation.cpp:992`). So the
passing run and the theorems about look-ups speak of `MempoolSpec`. With `Operated` not empty, `BestChainActive` and
`CheckBlockIndex` fail for reasons close to `MCChainMarked`: ancestors cleared
by ResetBlockFailureFlags do not become candidates, other branches above them
stay marked, and a block received while its parent is marked is in no list.
There `CandidatesNotEmpty` fails too: `reconsiderblock` on a chain that
ConnectBlock rejects can leave `setBlockIndexCandidates` empty.

Why the bounds are enough to be interesting. A coin's life (created, flushed,
spent, undone, recreated) involves one outpoint; two let one entry be flushed
or evicted while the other is not. The crash tree has a fork, a transaction in
both branches, an output created and spent in one block, and two crashes, so
that a replay is itself interrupted. Four tag keys are one of each kind. One asset
has two issues, so that its name returns after an undo, a reissue that only adds and
one that changes units and verifier; a second asset shares its blocks. The
chain trees have a branch that is better by its header but invalid, and
branches of equal work. Four checks are the fewest for which a thread takes
two at a time. Two callbacks are the fewest for which one is added, or is left
over, while another runs; one may be added by a callback. A fork with one block
in transit per peer and a window of one or two makes a peer stall the window,
lets two peers be asked for one block in turn, and lets a branch be useless.
Bounds are constants named `Max...`: `MaxCrashes`, `MaxHeight`, `MaxChanges`,
`MaxTxs`, `MaxPrecious`, `MaxChecks`, `MaxCallbacks`, `MaxTime`, `MaxConnects`,
`MaxAnnounces`. The limits and timeouts of `BlockDownload` that are constants of
the code keep their names there and get small values; a timeout of 0 runs out
at the first tick after the one in which it was set.

Deadlock is checked except in `scheduler`, `block_download` and `block_sync`,
where the system stops: the shutdown ends, or every peer is gone for good.

Fairness. `ChainstateFlush`: weak fairness of the steps of a flush, which the
thread that holds `cs_main` carries through, and of a restart; none of blocks,
partial batches or crashes. `ChainSelection`: weak fairness of each thread
inside ActivateBestChain, whose loop waits only for `cs_main`. `CheckQueue`:
weak fairness of each thread inside Loop or running a batch, which waits only
for a mutex held for a few instructions; none of spurious wake-ups and none of
the master before it calls Wait. `Scheduler`: weak fairness of each thread's
next step, of the clock and of the main thread once the shutdown has begun;
functions and callbacks return, and nothing makes a caller call or the node
stop. `BlockDownload`: the message handler visits the peers in turn and cannot
be kept from one by the messages of another, so SendMessages of each peer is
strongly fair; the socket thread finalizes disconnected peers, the handler goes
on after an unlock, the clock moves (weakly fair); prompt peers connect and
answer, the others need not.

## 4. Proofs

The first half of `LayeredCacheProofs` proves, for every set of outpoints and coins,
finite or not:

* `CoinsInvariance`: `CoinsSpec => []Inv`;
* `CoinsTypeCorrect`, `Coherence`, `NoThrow`: the three invariants of the run;
* `Refinement`: `CoinsSpec => ImplementsCoinStore`.

Assumptions: the marker `Spent` is no coin (`SpentAssumption`) and `NoEntry` is
no cache entry (`NoEntryAssumption`).

`CachesCoherent` says of each entry, against the layer below it: without DIRTY
it repeats the coin below; with FRESH the layer below has no coin and the entry
is unspent (that FRESH comes with DIRTY is part of the entry's type). `NoLogicError` follows from it only for the steps to
come, so the invariant carries both; it also carries that a closed view is
empty, since Begin opens a view without clearing it. The argument is by entry:
`FetchedFacts`, `AddedFacts`, `SpentFacts`, `MergedFacts` and `WrittenFacts`
say what each call makes of one coherent entry (its type, its coin, its
coherence), and each action is these facts at one outpoint, or at all of them
for the flushes. The delicate one is `MergedFacts`: a child coherent with a
coherent parent merges into an entry coherent with what is below the parent.
AddCoin does not look at the layer below when it sets FRESH; that this is right
rests on the guard of `AddNew` (a non-coinbase transaction id has no coin yet)
and on the look-up that precedes every other call.

The refinement maps `durable` to the database, `committed` to what is read
through `pcoinsTip` and `working` to what is read through `view`. Fetch, TipFetch and
Uncache are stutters; AddNew, AddCoinbase and ApplyTxInUndo are Put, SpendCoin
is Put of Spent, FlushView is Commit, DropView is Abort, FlushTip is Persist and
CoinsCrash is Crash.

`SchedulerProofs` proves, for any finite sets of service threads and callers, any
functions and delays, and any bounds on callbacks and clock:

* `Invariance`: `Spec => []IInv`;
* `TypeCorrect`, `NothingLost`, `ShutdownLeavesNothing`: the three invariants of
  the run (TypeOK, NoLostSchedule, ShutdownComplete);
* `SerialImplementation`: `Spec => OneAtATime`, the client implements
  `SerialQueue`.

Assumptions: `SchedulerAssumption`, which says that the kinds of threads are
finite and disjoint, that `ProcessQueue` and `None` are no functions, that `None`
is no callback, and that delays and bounds are natural numbers.

None of the properties is inductive. `IInv` adds to them: that a running
callback belongs to one thread, with `m_are_callbacks_running` set, and that
this thread is inside it or inside a call it made (`CallbackInv`; the flag
alone does not say whose it is); that `nThreadsServicingQueue` is the number of
threads between their entry to serviceQueue and their exit, however they leave,
that callers are never inside a callback, and that after the join every service
thread has left for good (`ShutdownInv`); and that a thread has ProcessQueue in
hand only on the way into `taskQueue` or into ProcessQueue itself
(`ScheduleInv`). Each part has a lemma that says what a thread's step must keep
(`ClientStep`, `ScheduleKept`, `ShutdownKept`), and a proof by actions that each
action does. `Kept` says that the others stay where they are or are notified,
so notifications are treated once. `InsertedFacts` and `TailFacts` are about
`taskQueue`: insertion keeps every entry and the order, and taking the head
loses only the head.

`CheckQueueProofs` proves, for any finite sets of masters and workers, any number
of checks and any batch size:

* `Invariance`: `Spec => []IInv`;
* `TypeCorrect`, `VerdictIsRight`, `NothingLeaks`, `CountersCorrect`: the four
  invariants of the run (TypeOK, VerdictOfAllChecks, NextBlockStartsClean,
  CountersExact).

Assumption: `QueueAssumption`, which says that masters and workers are finite and
disjoint, that `None` is no master and that a batch has room for one check.

The difficulty is the time between the end of a batch, when `vChecks` is
cleared, and the next clean-up, when `nNow` is subtracted from `nTodo`: no
variable says then which checks the thread answers for. `IInv` therefore says
that there is an assignment `H` of sets of checks to threads such that the
queue and these sets are disjoint, `nTodo` is the size of their union (`Out`), a
thread at work or about to clean up has `nNow` checks in its set, and its `fOk`
speaks for them (`Batch`). `fAllOk` speaks for every check of the block outside
`Out` (`Account`), so when `nTodo` is zero it speaks for all. `Middle` is the
state inside Loop between the clean-up, or the end of a wait, and the choice to
take, return or sleep; `EnterMiddle` and `WakeMiddle` lead to it, and `TakeStep`,
`ReturnStep` and `SleepStep` lead from it, so the two entries share one proof.

`CountersExact` adds `nNow` over the threads, while `IInv` has the size of a set.
`SharesAddUp` relates the two. The sum takes one thread after the other out of a
set, so the sets of threads form a tree (the parent of a set is what is left of
it), and the induction of `BlockTreeProofs` applies.

`BlockTreeProofs` is the library of the next three. The induction theorems of
the standard library take an operator as a parameter, which the provers cannot
instantiate; but its `WFMin` speaks of a set, and from it follow `LeastNumber`,
`NumberInduction`, `LoopInduction`, `TreeInduction` (to show something of every
block, cite it with the set of blocks that have it) and `TreeRecursion` and
`LoopExists` (a function defined by recursion along `pprev`, or round by round,
exists, so the CHOOSE behind its definition has its defining equation). The rest
is about `Ancestors`: chains are linear, two blocks have a last common ancestor.
What these lemmas need of a tree is a rank that grows from parent to child:
nHeight, nChainWork, a number, the size of a set.

`ChainstateFlushProofs` proves, for any tree of blocks, any outpoints and assets
and any number of crashes:

* `Invariance`: `Spec => []IInv`;
* `TypeCorrect`, `CoinsCorrect`, `DatabaseConsistent`, `HeadsAgree`,
  `AssetsCorrect`: the five invariants of the run (TypeOK, CoinsMatchTip,
  DatabaseMatchesBest, ReplayFlushesSameTip, AssetsMatchTipUnlessTorn);
* `StartUpSucceeds`: start-up never ends in a refusal, the safety part of
  Recovers.

Assumptions: `ParentAssumption`, `HeightAssumption`, `BlockAssumption` (types,
and a genesis block without coins or assets) and `TxidAssumption`: no two blocks
of a chain create the same outpoint. The last is a fact about hashes, not about a
check: the BIP30 loop of ConnectBlock and the coinbase height check are commented
out (`validation.cpp:2463`, `validation.cpp:4263`). Without it undoing a block
would remove a coin that an earlier block created.

A crash may come at any point, so `IInv` says what the disk holds apart from what
the memory holds. `IndexInv`: the index on disk has, with undo data, every block of
the chains that best block and head blocks name, because FlushStateToDisk writes
it first. `CoinsInv`: in a transition each single coin of the database is as in
the old or as in the new state. `PhaseInv`: what the program counter tells about
head blocks. `AssetsInv`: until a flush is torn, the asset database is that of the best block.
That blocks with undo data spent only coins that were there (`SpendsUnspent`) is
what makes the replay right. `RollbackValue` and `RollforwardValue` give the
value of one coin after the loops of ReplayBlocks, started on a database that is
half old and half new: a coin that the branch touched ends as it is at the fork,
or at the new tip, whatever it was before; others had the same value in both
states. `ReplayCorrect` joins them.

The second half of `LayeredCacheProofs` proves of `RestrictedTags`, for any names, addresses, lengths of the chain and
numbers of outputs in a block:

* `Invariance`: `Spec => []IInv`;
* `TypeCorrect`, `AnswersCorrect`, `ReadCacheCorrect`: the three invariants of
  the run (TypeOK, AnswersMatchChain, ReadCacheInDatabase);
* `UndoCorrect`: `PlainUndoRestores`, the part of UndoRestores (which
  `MCTagsUndo` refutes) that the code keeps.

Assumption: `NamesAssumption` (kinds of names are disjoint; a sub-qualifier has one
root). AnswersMatchChain is not inductive: undoing a change restores the earlier
status only if the change was one, so `IInv` carries that every block of the
chain changed the status it found, once per key (`BlocksInv`). This is what
VerifyQualifierChange and its siblings check, against the tip. `KeyInv` says what
each dirty set says of a key. For a qualifier with sub-qualifiers only one direction
holds, since both root maps are poured into one. `AppliedFacts` and
`RevertedFacts` describe the cache of a block after its outputs, in either order.

`AssetMetadataProofs` proves, for any assets, issues and reissues, lengths of the
chain and numbers of transactions in a block:

* `TypeCorrect`: `Spec => []TypeOK`, for blocks of any transactions;
* `AssetInvariance`: `MempoolSpec => [](TypeOK /\ OnePerBlock /\ AssetInv)`;
* `AssetsExist`, `AssetMetadataMatches`, `VerifiersMatch`: `MempoolSpec` implies
  the other three invariants of the run (ExistsMatchesChain,
  MetaMatchesChainUnlessStale, VerifierMatchesChain).

Assumption: `TxAssumption` (types of the fields; an issue sets them all; `Keep` and
`None` are no values of them). That a block has one transaction of an asset is not
an assumption on the constants but the guard of `MempoolSpec`; section 3 says what
happens without it.

The three properties are not inductive, for two reasons. A look-up goes through
seven containers, two read caches and two databases, and agreeing with the chain
now says nothing about what is found after the next dump: `LayersAgree` adds that the
read caches repeat the database, that a map entry of a reissue comes with a
reissue to write or to undo, and that a removed asset has its verifier removed
too. This part is kept for stale assets as well; they need it, because a dump ends
their being stale. And an undo subtracts what was added and takes back what the
undo record says: `FitsIn` adds, for each height, that a reissue found an asset the
chain below had issued and that could be reissued, and that its undo record holds the units,
ipfs hash and verifier of that time. ReissuedMeta and the undo are then inverse
(`UndoneRestores`). The loops over the transactions are recursive functions;
with one transaction of an asset the loop does to that asset what
the one transaction does (`ConnectedFacts`, `UndoneFacts`, `SaidByBlockFacts`), so each
action is a case for an issue, a reissue, or a block without the asset.

`ChainSelectionBase` and `ChainSelectionProofs` prove, for any finite tree of
blocks, any invalid blocks and any order of arrival:

| theorem | property | threads | operator |
|---|---|---|---|
| `BaseInvariance`, `TypeCorrect` | Base, TypeOK | any | any calls |
| `ActiveChainCorrect` | ActiveChainValid | one | any calls |
| `ActiveChainCorrectThreads` | ActiveChainValid | any | none |
| `WorkCorrect` | WorkGivenUpOnlyForInvalid | one | any calls |
| `SuccessorCorrect` | SuccessorLeft | one | any calls |
| `FailedBlocksCorrect` | FailedBlocksMarked | any | none |
| `CandidatesCorrect` | CandidatesNotEmpty | any | none |
| `CheckBlockIndexCorrect` | CheckBlockIndex | one | none |
| `BestChainCorrect` | BestChainActive | one | none |

"One" thread means one at a time inside ActivateBestChain, the hypothesis
`OneThread`; "none" is `Operated = {}`, which leaves `preciousblock`. No
hypothesis can be dropped. With two threads TLC finds a violation of
WorkGivenUpOnlyForInvalid, SuccessorLeft, CheckBlockIndex and (run
`chain_stale_target`) BestChainActive; with an operator, of FailedBlocksMarked,
CandidatesNotEmpty, CheckBlockIndex and BestChainActive; with both, of
ActiveChainValid. The cause is always `pindexMostWork` kept over an unlock, or a
mark that ResetBlockFailureFlags clears.

Assumptions: `ParentAssumption` and `TreeAssumption`: finitely many blocks, numbered,
with work that grows along `pprev`.

The invariants, each on top of the ones before it:

* `Base`: nChainTx is set only above blocks that have it; candidates, tip and
  targets are such blocks; a waiting block waits under its parent. The one hard step is
  ReceivedBlockTransactions, whose loop over a growing queue is the function
  `NewlyLinked`: `QueueFacts` shows that it meets only blocks that waited and
  leaves nobody behind who waited for a block it met.
* `SafeInv` (one thread): candidates have at least the work of the tip, and a
  target carried into the next round is a candidate without an invalid block.
* `DataInv` (no operator): a failed block has an invalid ancestor, and a failed
  block that is not linked has an ancestor whose data will never be accepted
  (`Blocked`); a block with its data is linked, waiting, or blocked so.
* `SupplyInv` (no operator): candidates sort no worse than the tip, and some
  candidate is sound (its chain has neither a failed nor an unconnectable block)
  with every valid block that sorts no worse beside it. This is the
  reason for "we can't delete the current block itself, as we may need to return
  to it later": when ConnectBlock rejects a block, this candidate is left.
* `BestInv` (both): every candidate that sorts better than the target of a
  thread, or than the tip when nobody is at work, is invalid.

Every action has a lemma that says what it does to each variable
(`LinkFacts`, `StepEffects`, `InvalidateEffects`, `ResetEffects` ...), so that
the proofs of the invariants do not unfold actions.

Only model-checked. The liveness properties (Recovers, ActivationReturns,
WaitReturns, ScheduledWorkRuns, StopAndShutdownEnd, SyncsToPromptPeer) are beyond
the prover. `BlockDownload` (TypeOK, DownloadTablesAgree, PromptPeerKept) has no
proofs: it has many actions that each rewrite several tables at once, and
PromptPeerKept depends on the pace of the clock.

## 5. Not modelled

See `components` in `PROJECT.json` for the list with reasons. Within modelled
parts: pruning, `-reindex`, failing disk writes, the address, spent and
timestamp indexes; heights and block hashes stored with assets; several
null-asset outputs in one transaction; owner tokens, unique assets and
channels; shutdown of the check queue by interruption; refusals of headers by
depth (`-maxreorg`), which appear as headers that do not arrive;
EvictExtraOutboundPeers and the stale-tip check, which depend on the connection
slots of `CConnman`; unsolicited blocks; one-shot, client-only and manual peers.

The map covers a small share of the repository by lines. Nine tenths of it are
vendored or generated (leveldb, lua, secp256k1, univalue, the hash functions of
`algo/` and `crypto/`), the GUI and its translations, RPC help and argument
parsing, and wallet code that is a client of the parts above. What is modelled
is the stateful core: the code with several writers, layers, threads or crashes.

## 6. What could follow

1. Asset balances: `mapAssetsAddressAmount` through transfer, undo and dump,
   against a sum over the chain.
2. Asset mempool state: `mapReissuedAssets` and the tag and freeze maps with
   removeForBlock and reorganizations, composed with `AssetMetadata`.
3. Version bits and difficulty: pure functions against reference definitions
   over bounded inputs.
4. Messages, snapshots and rewards across reorganizations.
5. Two nodes with the depth rule of ContextualCheckBlockHeader.
6. Proofs about `BlockDownload`.
