# Bitcoin XT: the chain state in TLA+

Bitcoin XT is a full node. It receives headers and blocks from peers, from a
miner and over RPC, keeps every block it has heard of in a tree (the block
index), makes the branch with the most work its active chain, and keeps the set
of unspent coins of that chain. All of this must survive concurrent callers,
blocks that turn out to be invalid in the middle of a reorganisation, an
operator who invalidates and reconsiders blocks, the deletion of old block
files, and a crash at any instant. The blocks come from peers that may answer
late, wrongly or never.

This project models that core and the download that feeds it. Paths below are relative to the repository;
line numbers are those of the modelled revision.

## Contents

| Module | Models |
| --- | --- |
| `BlockTree` | block index, candidates, `ActivateBestChain`, operator calls, pruning flags (`src/main.cpp`, `src/chain.h`) |
| `MCBlockTree` | small trees for TLC |
| `BlockTreeInvariant`, `BlockTreeProofs`, `BlockTreeBest` | theorems about `BlockTree`: the basic invariants; status bits, links and the active chain; candidates and the best chain |
| `CoinsView` | what a stack of coin views promises: plain maps |
| `CoinsCache` | `CCoinsViewCache` with its DIRTY and FRESH flags (`src/coins.cpp`), implementing `CoinsView` |
| `MCCoinsCache`, `CoinsCacheProofs` | instance for TLC; invariants and refinement proved |
| `ChainState` | block and undo files, block index database, coin database, flush, crash, replay, unlinking of pruned files (`src/main.cpp`, `src/txdb.cpp`, `src/init.cpp`) |
| `MCChainState` | small trees with coins for TLC |
| `ChainStateProofs` | theorems about consistency, and about what a replay finds |
| `CheckQueue`, `MCCheckQueue` | the script check queue (`src/checkqueue.h`) |
| `CheckQueueProofs` | its counters and its verdict, for any number of workers |
| `InFlight` | queues of requested blocks, the index over them, workers and builders of thin blocks (`src/inflightindex.cpp`, `src/thinblock.cpp`, `src/thinblockmanager.cpp`, parts of `src/main.cpp`) |
| `BlockDownload`, `MCBlockDownload` | peers, announcements, requests, answers, timeouts and disconnects around `InFlight` (`src/main.cpp`, `src/nodestate.cpp`, `src/blockheaderprocessor.cpp`, `src/blockannounce.cpp`, `src/blockprocessor.cpp`, `src/thinblockconcluder.cpp`, `src/net.cpp`) |
| `InFlightProofs`, `BlockDownloadProofs` | what each operation on the tables keeps; theorems about `BlockDownload` |

Run `tlc -config X.cfg M` for the pairs in the table of runs, and `tlapm M.tla`
for a module with theorems.

## Inventory

What the node consists of, the state of each part, who changes it, and what is
hard about it.

* **Block index and activation** (`src/main.cpp`, `src/chain.h`).
  State: `mapBlockIndex` with a status per block, `setBlockIndexCandidates`,
  `mapBlocksUnlinked`, `chainActive`. Operations: `AcceptBlockHeader`,
  `AcceptBlock`, `ReceivedBlockTransactions`, `FindMostWorkChain`,
  `ActivateBestChain` and its steps, `InvalidateBlock`, `ReconsiderBlock`,
  `FindFilesToPrune`. Hard: `cs_main` is released between two steps of an
  activation; four redundant structures have to agree; blocks come in any
  order, fail late, and disappear again when they are pruned.
  Must hold: the assertions of `CheckBlockIndex`, the active chain is valid and
  the best one, every call returns.
* **Coin caches** (`src/coins.cpp`). State: entries with a coin and two flags,
  layered. Hard: the flags permit writes to be skipped; one wrong flag loses or
  resurrects a coin blocks later. Must hold: a stack of caches cannot be told
  from a stack of maps.
* **Persistence** (`src/main.cpp`, `src/txdb.cpp`). State: `blk` and `rev`
  files, the block index database, the coin database, and everything of it in
  memory. Operations: `FlushStateToDisk`, `BatchWrite`, `Shutdown`,
  `ReplayBlocks`, `LoadBlockIndexDB`, `LoadChainTip`, `UnlinkPrunedFiles`.
  Hard: four stores that are not written atomically, only some of the writes
  synced, a flush of the coins in several batches, a replay that may crash too.
  Must hold: after any crash the node starts and has the coins of its tip.
* **Script check queue** (`src/checkqueue.h`). Worker threads and a master that
  joins them. Hard: condition variables, interruption, results merged later.
  Must hold: `Wait()` returns the verdict on exactly the checks of the block.
* **Block download** (`src/main.cpp`, `src/inflightindex.cpp`,
  `src/nodestate.cpp`, `src/blockheaderprocessor.cpp`). State: for each peer a
  queue of requested blocks with two counters, its best known and last common
  block, whether it stalls; for the node an index of pointers into those queues
  and three totals. Operations: `inv`, `headers`, `block`, `SendMessages`,
  `FindNextBlocksToDownload`, the two timeouts, `InitializeNode`,
  `FinalizeNode`. Hard: one request is recorded in five places that different
  handlers update; a block may be asked of two peers, come unasked, come late,
  or never. Must hold: the records agree, a request ends, the best chain comes.
* **Thin blocks** (`src/thinblock*.cpp`, `src/xthin.cpp`, `src/compact*.cpp`):
  several peers work on one block builder and finish, fail or leave; the worker
  and the manager each remember who works on what. Must hold: they agree.
* **Block announcements** (`src/blockannounce.cpp`, `src/blocksender.cpp`): which
  announced block is asked for at once, as a thin or a full block.
* **Memory pool, orphans, respends** (`src/txmempool.cpp`,
  `src/mempoolaccepter.cpp`, `src/respend/`): a graph of transactions with
  cached totals over ancestors and descendants.
* **Scheduler and HTTP work queue** (`src/scheduler.cpp`,
  `src/httpserver.cpp`): thread pools with stop, drain and interruption.
* **Network and address manager** (`src/net.cpp`, `src/addrman.cpp`).
* **Deployments and limits** (`src/versionbits.cpp`, `src/maxblocksize.cpp`):
  pure functions of the chain.
* **Wallet, mining, fees, RPC, GUI** (`src/wallet/`, `src/miner.cpp`,
  `src/policy/`, `src/rpc/`, `src/qt/`).

How they interact: `BlockDownload` asks peers for blocks. Peers, the miner and RPC threads call `ProcessNewBlock`,
which changes the index and then activates. Connecting a block goes through a
block view on top of `pcoinsTip` and through the check queue, writes undo data
and commits the view. A flush then carries files, index and coins to disk, and
deletes pruned files. After a restart the replay and the load of the index put
the parts together again.

## Plan

Order: what protects the user's coins comes first, then what feeds it.

1. (done) `BlockTree`, `CoinsView`/`CoinsCache`, `ChainState`, `CheckQueue`
   with their runs and theorems.
2. (done) Block download with announcements and thin blocks, from the same
   tables; theorems about the agreement of the tables.
3. Memory pool with its cached totals against a reference definition; orphans;
   respend detection.
4. Restart in `BlockTree`: `LoadBlockIndexDB` rebuilds candidates, links and
   sequence ids from what was written, and `BLOCK_FAILED_CHILD` is not always
   written. Composition: `ChainState`'s connect and disconnect take place on
   `CoinsCache`'s views, so its map `pcoinsTip` is `CoinsView`.
5. Scheduler and HTTP work queue, two pools in the manner of `CheckQueue`.
6. Pure algorithms: skip list and locators, merkle tree, deployment states,
   the block size vote, each against a reference definition.

## The models

### BlockTree

The tree of blocks is a constant: parents, heights, work and the set of
ancestors `ChainOf[b]` of every block that will ever be announced. So are the
verdicts: `BadContext` (refused by `ContextualCheckBlock`), `BadConnect`
(invalid in `ConnectBlock`) and `Corrupt` (the stored copy fails `CheckBlock`,
which the code does not hold against the block). A variable per structure of
the code, with the bits of `nStatus` as sets: `failedValid`, `failedChild`,
`haveData`, `haveUndo`; `hasTx` and `linked` are the blocks with `nTx` and
`nChainTx`. `nFile` is the file of a block and `nHeightLast` the height that
`CBlockFileInfo` keeps of a file: `AddBlock` raises it, `PruneOneBlockFile` resets
it, and `FindFilesToPrune` decides by it.

Each caller of `ProcessNewBlock`, `invalidateblock` or `reconsiderblock` is a
thread with a label. `csMain` is the lock. An action is one iteration of one of
the loops that run under it:

| Action | Code (`src/main.cpp`) |
| --- | --- |
| `AcceptBlockHeader`, `IgnoreBlock`, `RejectBlock`, `ReceiveBlock` | `AcceptBlockHeader`, and `AcceptBlock` by its outcome |
| `LinkBlock`, `FinishAccept` | loop of `ReceivedBlockTransactions`, end of `AcceptBlock` with `FlushStateToDisk`'s pruning |
| `BeginStep`, `FindMostWorkChain` | top of `ActivateBestChain`, one round of the search |
| `DisconnectTip`, `ConnectTip`, `ConnectTipFails` | loops of `ActivateBestChainStep` |
| `InvalidateBlock`, `InvalidateTip`, `FinishInvalidate`, `ReconsiderBlock` | the RPC calls |

`pindexMostWork` is a variable of each thread because the code keeps it while
it releases the lock. The message handler holds `cs_main` during its whole call
(the lock is recursive), which is what `CsMainHolders` says.

Abstractions: the queue of `ReceivedBlockTransactions` and `mapBlocksUnlinked`
are bags, so the order of waiting blocks is left open; when a block file is
full and how many files the prune target asks for are free choices (the sizes in
`CBlockFileInfo` are left out);
`pindexBestInvalid`, `pindexBestHeader` (reporting only) and the invalidation of
the genesis block are left out.

### CoinsView and CoinsCache

`CoinsCache` has the three levels the node uses: database, `pcoinsTip`, and the
view in which a block is connected or disconnected. An entry is a coin with
`dirty` and `fresh`. `AddCoin` with and without `possible_overwrite`,
`SpendCoin`, the fetch that every read causes at both levels, `BatchWrite`
between two caches and to the database, and `SetBestBlock` are actions. So is
`Uncache`, which in this revision only `src/test/coins_tests.cpp` calls. `CoinsView` has the same operations on two plain maps with a best
block each; `ImplementsView` is its specification under the mapping "what
`GetCoin` and `GetBestBlock` would answer".

### ChainState

What is on disk: `blk` and `rev` (what the files hold, per block), with the
blocks whose bytes are written and not yet committed (`blkPending`,
`revPending`); the block index database (`diskIndex`, `diskData`, `diskUndo`,
`diskLast`); the coin database `db` with `DB_BEST_BLOCK` and the two
`DB_HEAD_BLOCKS`. `dbDurable` is the part of the coin database that would
survive a loss of power: the coin batches are not synced, so each write may or
may not get there, which is chosen when it is written.

The label `pc` walks through `FlushStateToDisk` write by write: block files,
block index, unlinking, coin batches (any non-empty part of the dirty coins at
a time, then the final one). A crash can happen between any two. `Start` is
`LoadBlockIndexDB`, the head of `ReplayBlocks` and `LoadChainTip`; the replay
then goes block by block, back to the fork and forward to the new tip, and
flushes like any other flush. `failed` means that the start gives up.

Abstractions: a coin is the height of the block that created it, which is what
makes two versions of a coin differ; the blocks of the tree are valid.
`AcceptBlock` may also store a block that was pruned before. Which files may be
pruned is decided by the heights of the stored blocks and the tip of `pcoinsTip`;
the bookkeeping of `nHeightLast` is in `BlockTree`. A best block that is missing
from the index counts as a failed start (the code would go on without a tip);
theorem `ReplayFindsItsBlocks` shows it does not happen.

`DiskErrors` names the writes that may fail. `"block"`: `WriteBlockToDisk` in
`AcceptBlock`, which calls `AbortNode` without returning (line 3172), so the block
is recorded as stored; `failedWrites` remembers it. `"index"`: `WriteBatchSync` in
`FlushStateToDisk` (`IndexWriteFails`), after the entries were taken out of
`setDirtyBlockIndex`. `"coins"`: a batch of `BatchWrite` (`BatchFails`).
`AbortNode` sets `fRequestShutdown`, after which `ActivateBestChain` takes no
step; blocks may still arrive, be disconnected and be flushed until the process ends.

Not modelled: `VerifyDB`, reindexing, disk space checks, and a failing write of
the index in a flush that prunes. The check of `LoadBlockIndexDB` that the `blk`
files of all stored blocks exist is left out too: by `IndexedBlocksSafe` it can
fail only for a block whose write failed.

### CheckQueue

One action per critical section of the mutex (`Add`; `Lock` and `WakeUp` for
the two ways into the body of `Loop`, each ending in `Return`, `Sleep` or
`Take`) and one for the work between two of them. A check is its result.
`notify_one` picks any waiting thread. Wake-ups may be spurious.
`Interrupted` is the exception that `boost::condition_variable::wait` throws:
workers are interrupted when the node shuts down, while the message handler may
still be connecting a block; a miner thread that is the master can be
interrupted at any time, and the destructor of the control object then waits
once more. `fQuit` is never set by the code.

### InFlight and BlockDownload

`InFlight` has the tables as a record and one operator per function of the code
that changes them: `MarkBlockAsInFlight`, the eraser of a request
(`InFlightEraserImpl`), `addWork`, `stopWork` with `delWorker`, and
`removeIfExists`. `InFlightIndex` is a vector of iterators into the queues; each
of its functions looks for a peer, a block or both, so it is modelled by the
entries it points to, grouped by peer. `aborted` records that an `assert` of the
thin block manager failed.

`BlockDownload` has a connection (`net`) for every peer, from `new` over
`connected` (a `CNodeState` exists), `up` (version handshake done) and `closing`
(`fDisconnect`) to `gone`. `Timely` is a set of peers that stay and answer; the
others announce, send, withhold, send a copy that fails `CheckBlock`, or leave
as they like.

| Action | Code |
| --- | --- |
| `InitializeNode`, `Version`, `Disconnect`, `FinalizeNode` | the life of a connection; `FinalizeNode` with the destruction of the peer's worker |
| `Inv`, `Headers` | `ProcessMessage`, `DefaultHeaderProcessor`, `BlockAnnounceReceiver` |
| `Block` | `ProcessMessage` and `ProcessNewBlock` for a full block |
| `XThinBlock`, `CmpctBlock`, `ReRequestResponse` | the processors of thin blocks, and their concluders with the fallback to a full block |
| `SendCmpct`, `UnexpectedThinError` | what a peer supports; a thin block that was not expected |
| `SendMessages`, `StallTimeout`, `BlockTimeout` | `SendMessages`: sync start, the two timeouts, `FindNextBlocksToDownload` and its requests |
| `RequestNext`, `ReceivedNext`, `StopNext` | one pass of the loops that request blocks, end the requests of a received block, and stop a worker |
| `LeaveInitialDownload` | `IsInitialBlockDownload` turns false, once |

A handler runs under `cs_main` and is one action. Where it loops over requests
or workers it goes on pass by pass, and `loop` stands for the lock it holds
meanwhile. `InitializeNode` takes no lock and may come in between.

Abstractions. A time is modelled by whether a deadline has passed; `Late` is that
of a block request. Headers and blocks are valid (a bad copy fails `CheckBlock`
and is not held against the block); nothing is pruned; `ActivateBestChain`, which
`BlockTree` models step by step, moves the tip to a best received chain at once.
`version` and `verack` are one action; peers that are clients or one-shot are
left out, as is the filter of inventory already known. What a thin block lacks
after the stub is built is an input: nothing, something, or a transaction that
does not fit. `unconnectingHeaders` is kept as whether it is zero.

## Runs

| Run | Instance | Checks |
| --- | --- | --- |
| `tree_concurrent` | `MCTreeConcurrent.cfg`: a tree with two equal branches, one block bad in `ConnectBlock`, one in `ContextualCheckBlock`; message handler and two RPC threads | types, links, order of script checks, candidates are usable, keys of their ordered set stable; every call returns |
| `tree_operator` | `MCTreeOperator.cfg`: one thread, `invalidateblock` on any block, `reconsiderblock` on the first | cause of failures, active chain valid, candidates complete, the first received of the best chains active after each call |
| `tree_prune` | `MCTreePrune.cfg`: two branches, three files | status bits, waiting blocks can be found, recent blocks kept whatever order the files were filled in |
| `tree_race_best` | two RPC threads | violated, see below |
| `tree_reconsider_flags` | one thread, `reconsiderblock` on any block | violated, see below |
| `coins_cache` | two outpoints, two coins, two block hashes | flags, refinement of `CoinsView` |
| `state_recovery` | two branches of two blocks, three outpoints, one file, crashes and power loss | databases and tip consistent, every start succeeds and ends |
| `state_files` | two branches, two files, pruning, failing writes of blocks, index and coins | the index never refers to a missing block, other than one whose own write failed |
| `state_undo_lost` | two files, power loss | violated, see below |
| `state_prune_replay` | two files, pruning | violated, see below |
| `download` | `MCBlockDownload.cfg`: a timely and an arbitrary peer, a chain of two blocks, a window of one block, two requests per peer | index, queues, counters, totals and workers agree; the last common block is had; requests end; the best chain is downloaded |
| `check_queue` | two workers, master, four outstanding checks, batches of two | counters, assertion of the next block, verdict, somebody left to wake the master; `Wait()` returns |

Why the bounds suffice for the cases in question. The trees contain a fork, a
reorganisation of more than one block, equal work on two branches, a block that
fails after others of its branch were connected, and descendants that arrive
before ancestors. `MaxSequenceId` leaves an id for every block and for the
blocks that are received again. Three files allow a pruned one between two that
are kept. Two branches of two blocks make the replay roll back and forward over
coins that exist on one branch only, on both with different heights, or only
inside a block. Four checks and batches of two give batches of both sizes while
other threads hold some; two workers are enough for one to be interrupted after
it swallowed a notification. One arbitrary peer beside a timely one is enough for
a block to be in flight from both, as a thin block from one and a full block from
the other, with the peers answering, failing and leaving in any order.
`tree_prune` switches the deadlock check off: when every block has been received
and the ids are used up, nothing is left to do.

Fairness. In `BlockTree` each caller is strongly fair: `cs_main` is a lock that
others may take again and again, and a caller that wants it gets it in the end.
In `ChainState` a flush or a replay that has begun goes on, and someone starts
the node again; crashes are not fair. In `CheckQueue` each thread is weakly
fair: the mutex is held only inside an action. In
`BlockDownload` the message thread serves every peer in turn, the socket thread
deletes peers that are to be disconnected, deadlines pass, and the timely peer
announces its chain and answers what it is asked for. It is stated as
`[]<>` of "nothing to do", which is the same for actions that finish their work
in a few steps. That the timely peer announces its chain is needed: headers are
asked of a single peer during the initial download (lines 5733-5736) and that
request has no timeout. Nothing is assumed of the other peer. No fairness is
assumed for
spurious wake-ups, interruptions, arrivals or the operator.

## Disagreements between the code and its comments

Four runs end in a violation; PROJECT.json quotes the lines.

* `tree_race_best`: a thread in `ActivateBestChain` keeps a target that another
  thread has overtaken, and leaves the node on a chain with less work. The next
  call that activates repairs it.
* `tree_reconsider_flags`: `reconsiderblock` clears the flags of an ancestor
  and not of the ancestor's other descendants.
* `state_undo_lost`: undo data in a file that is not the last one is not
  committed by `FlushBlockFile`.
* `state_prune_replay`: pruned files are unlinked before the coins that still
  need them for a replay are written.

More of them show up under other constants. They are recorded here and not as
runs of their own:

* `ActiveChainValid` with `SpecWithInvalidate` and two callers that release
  `cs_main`: a block that is invalidated between two steps is connected by a
  thread that still has it on the way to its target.
* `CandidatesComplete` with `SpecWithOperator` when blocks other than the first
  one are reconsidered (`tree_operator` reconsiders the first one only): an
  ancestor whose flag is cleared is not put back among the candidates, which
  `CheckBlockIndex` (lines 4018-4021) asks for.
* `LinkedMeansReceived` with `SpecWithInvalidate`: a block that arrives while
  its parent is marked failed is not entered in `mapBlocksUnlinked` (line 2745)
  and is not found when the parent is reconsidered; and with pruning, because
  `PruneOneBlockFile` (line 3269) removes entries whose blocks still count as
  received (the assertion of line 4002).
* `CandidateKeysStable` with pruning, on a tree with two branches of three
  blocks each: every time `FindMostWorkChain` gives up a chain because of pruned
  data it enters the blocks on the way into the multimap `mapBlocksUnlinked`
  again (lines 2407-2410). When the ancestor arrives once more,
  `ReceivedBlockTransactions` (lines 2728-2741) links such a block twice, and
  the second time assigns a new `nSequenceId` to a member of
  `setBlockIndexCandidates`, whose comparator (line 130) orders by it.
* `CandidatesComplete`, `BestChainActivated` and `FirstSeenActivated` with pruning
  and one caller: a block of the active chain whose file was pruned is downloaded
  again, which brings back its data and not its undo data. A reorganisation that
  starts above it disconnects the blocks down to it and stops there, because
  `DisconnectTip` finds no undo data, so the call returns with a tip in the middle
  of the old branch.
* `CandidatesSound` with pruning and three callers that release `cs_main`: a
  candidate that ties with the tip is pruned and received again before the next
  step; its new `nSequenceId` makes it worse than the tip while it is still a
  candidate. With one caller TLC finds no violation.
* `CallsReturn` with a block in `Corrupt`: `ActivateBestChain` tries the same
  block for ever (lines 2476-2483).
* `TipConsistent`, `DbConsistent` and `SameTransition` with
  `DiskErrors = {"coins"}`: `BatchWrite` erases the entries of a batch from the
  cache before the write that fails; the node asks for a shutdown and may
  disconnect blocks and flush again before it ends (lines 96 and 134 of
  `src/txdb.cpp`).
* `RecoverySucceeds` with `DiskErrors = {"index"}`: the entries whose write failed
  are no longer dirty, the next flush writes coins of a block that the index on
  disk does not have, and the start after it does not find that block (lines
  2172-2178).
* `nQueuedValidatedHeaders` is "Number of blocks in flight with validated
  headers" (line 201), but `FinalizeNode` (line 321) takes the requests of its
  peer out of the index only and leaves the number as it is. It never comes down
  again, and lengthens the timeout of later requests. `TotalsAgree` states what
  is left: the number is never too small, and exact until a peer is deleted.
* The fallback of a thin block to a full one does not look at
  `MAX_BLOCKS_IN_TRANSIT_PER_PEER`, which `src/main.h` line 70 calls the "Number
  of blocks that can be requested at any given time from a single peer".
  `MarkBlockAsInFlight` only warns.
* A peer that sends a thin block unasked becomes a worker for it without an
  entry in its queue. No timeout ends that work, so it lasts until the block is
  concluded or the peer leaves; `RequestsEnd` is about entries of the queues.

## Theorems

All theorems hold for every value of the constants that satisfies the named
assumptions: a tree given by its parents (`TreeAssumption`), which in `BlockTree`
is finite and one over which induction is possible (`TreeInduction`: what holds for
the genesis block and is inherited by children holds for all blocks), finitely many
peers and threads, and parameters of the right type.
`ChainState` also assumes that the blocks are valid (`CoinsAssumption`): each
spends coins that exist and creates coins that do not.

* **`BlockTree`.** A chain of invariants, each inductive together with the ones
  it builds on:

  | Invariant | Says | Carries |
  | --- | --- | --- |
  | `IInv` | types; who is inside a critical section holds the lock and has a target it has not reached; the queue is used by the lock holder only; candidates, the targets of all threads and the active chain consist of received blocks | `TypeCorrect` |
  | `FInv` | + children marked failed have a failed ancestor | `FailedCaused` |
  | `AInv` | + without operator calls a failed block is one the checks refuse, the active chain has passed `ConnectBlock`, script validity is closed under parents | `ActiveValid`, `ScriptsCheckedInOrder` |
  | `HeightsInv` | `TypeOK` + no stored block is higher than the `nHeightLast` of its file | `PruningKeepsRecent` |
  | `SInv` | `IInv` + the index is closed under parents, data was received, only pruning removes it, what has no link has no sequence id | the invariants below |
  | `CheckedInv` | `IInv` + the received blocks contain none that `ContextualCheckBlock` refuses, and the active chain none that `ConnectBlock` refuses | `ActiveAlwaysChecked` |
  | `IdsInv` | `IInv` + every id is below `nBlockSequenceId`, linked blocks have one, and no two blocks the same | `IdsAlwaysDistinct` |
  | `RInv` | `SInv`, `HeightsInv` + threads do not overlap, a kept target is stored, undo data implies data | `StatusBitsAgree` |
  | `WInv` | `SInv` + a stored block is linked, about to be, waiting in `mapBlocksUnlinked`, or below a failed one | `WaitingAlwaysUnlinked` |
  | `DInv` | + a block that waits has a parent that is not stored, that waits too, or that is in the queue | `UnlinkedAlwaysWaiting`, `LinkedExactly` |
  | `CInv` | `SInv` + a block is in the queue or waiting at most once, and not at all once it is linked; candidates are linked and not worse than the tip | `CandidatesAlwaysSound`, `KeysStable` |
  | `BInv` | + see below | `CandidatesAlwaysComplete`, `FirstSeenAlwaysActive`, `BestChainAlwaysActive` |

  The parts about other threads' targets are what makes `IInv` inductive: a stale
  target is still a chain of received blocks. `DInv` is needed because the queue
  takes children out of `mapBlocksUnlinked` one block at a time; in between, a
  waiting block may have all of its ancestors.

  `BInv` is the argument that activation ends at the best chain. `Base(t)` says
  that `t` is a candidate on a chain without invalid blocks, and that every linked
  block below no failed one that is not worse than `t` is a candidate too. Before
  an activation the tip is such a block. During one the tip may be on its way
  between two branches, and some linked block is, so that the search of
  `FindMostWorkChain` cannot run out of candidates; the target is the best
  candidate. When `ActivateBestChain` returns, the tip is the only candidate, so
  every usable block is worse: it has less work, or as much and was linked later
  (`TipFirst`). `InvalidateBlock` ends with putting back every block
  that is not worse than the new tip, which restores `Base`.

  Two hypotheses appear in these theorems and nowhere else. `NoPruning`: no block
  is higher than `PruneAfterHeight`, so that `FindFilesToPrune` never deletes
  anything (this is every node that runs without `-prune`). `Serial`: callers hold
  `cs_main` for their whole call, as the message handler does, or there is only
  one. Neither is a convenience:

  * `StatusBitsAgree` needs `Serial`: when a second thread prunes between two
    steps of an activation, a kept target can be connected from the block in
    memory after its file was deleted, and its undo data is then marked present
    without its data.
  * `LinkedExactly`, `KeysStable`, `CandidatesAlwaysSound` and the theorems on
    `BInv` need `NoPruning`: for each of them the disagreements above give a
    behaviour with pruning. `IdsAlwaysDistinct` and `ActiveAlwaysChecked` have
    neither hypothesis and admit both operator calls.
  * The three theorems on `BInv` need `Serial`; `tree_race_best` is the
    counterexample.
  * `FailedCaused` admits `invalidateblock`; the violated runs show why it cannot
    admit `reconsiderblock`, nor `ActiveValid` the operator. For the same reasons
    the theorems on `BInv` admit `invalidateblock` only, and `LinkedExactly` and `UnlinkedAlwaysWaiting` neither call.
* **`CoinsCache`.** `CachesTyped`, `FlagsAlwaysSound`, `FreshAlwaysUnspent`,
  `CachesImplementView`. `CInv` of `CoinsCacheProofs` joins
  types, `FlagsSound`, `FreshIsUnspent`, that a closed view is empty, and that an
  open one has looked up the best block before the level below changes; the
  refinement follows action by action from it.
* **`ChainState`.** `StateTypes`, `DatabaseConsistent`,
  `RecoveredTipConsistent`, `TransitionResumed`. The invariant: a database
  without head markers has the coins of its best block, one with markers has at
  every outpoint the coin of the new or of the old head; during a replay every
  coin in memory is that of the block reached, or that of the new tip already;
  undo data, where present, is that of the parent's coins. The step of the
  argument is that disconnecting a block, or connecting one, takes "coin of here
  or of the goal" to "coin of the next block or of the goal", so the replay
  need not know which batches had arrived.
  All but the first assume that writes of coins do not fail.

  `BlocksBeforeIndex` has no hypothesis: what the index on disk refers to is
  committed, or is a block whose own write failed. Its invariant `BlkInv` says
  that what is not committed is in the last file, because `FindBlockPos` commits a
  file when it leaves it, and that the index on disk has more blocks than the one
  in memory only while a flush has still to write and unlink what it pruned.
  `UndoBeforeIndex`, without pruning and with one file: the undo data the index
  refers to is committed (`UndoFilesInv`). `ReplayFindsItsBlocks`: no start fails.
  `ChainsInv` says that the disk covers the chains of the best block and of both
  heads with blocks and undo data, and that what memory has more than the disk is
  dirty. It assumes no pruning, one file if power can be lost, and writes of the
  index that do not fail (writes of blocks may fail: with `DiskErrors = {"block"}`
  TLC agrees on the instance of `state_recovery`); for each of these there is a counterexample
  (`state_prune_replay`, `state_undo_lost`, and `DiskErrors = {"index"}` above).
* **`CheckQueue`.** `QueueTyped`, `TodoAlwaysExact`, `ActiveAlwaysCounted`,
  `AlwaysIdleBetweenBlocks`, `WaitResultRight`, `MasterAlwaysAwaited`, for any finite set of workers and
  any batch size. The invariant `QInv` relates the counters to the threads:
  `nTodo` to the checks in the queue and in batches, `nTotal - nIdle` to the threads
  that hold a batch, `nIdle` to those that wait (it may be larger: a thread that an
  interruption throws out of `wait` leaves it as it is), and `fAllOk` together with
  the queue and the batches still out to whether all checks of this block are
  valid. Counting is done with cardinalities of sets of threads and of pairs of a
  thread and a place in its batch, splitting off one thread at a time.
  `MasterAlwaysAwaited` is the safety part of `WaitReturns`: the master sleeps only
  while a worker still holds a batch. `SleepInv` says that meanwhile the queue is
  empty and `nTodo` is not zero; by `QInv` the missing checks are then in a batch.
* **`BlockDownload`.** `TypesHold`, `IndexAlwaysMatches`, `WorkersAlwaysAgree`,
  `LastCommonAlwaysHad`, `TotalsAlwaysAgree`, for any finite set of peers and any tree. `InFlightProofs`
  shows for each operation on the tables, whatever the peer and the block, that
  it keeps `Sound`: index equal to queues, counters equal to what the queue
  holds, workers equal on both sides. The invariant `IInv` of
  `BlockDownloadProofs` adds that the chain below a last common block is had,
  which peers have a state, and what a loop that is under way may still assume
  about the tables: that the blocks to be requested are asked of a peer with a
  state, and the blocks to be stopped are those its worker works on. The last
  part is what makes it inductive, because `InitializeNode` may come in between.
  The total `nQueuedValidatedHeaders` is compared with the number of validated
  entries of the index, the pairs of a peer and a place in its queue. Their
  difference, `Surplus`, is unchanged by every operation on the tables and can
  only grow in `FinalizeNode`. An eraser moves the entries behind the one it takes
  out, so that the pairs before and after it are matched by a bijection
  (`PairsLowered`).

Only model-checked: liveness (`CallsReturn`, `StartEnds`, `WaitReturns`,
`RequestsEnd`, `DownloadCompletes`), which is out of reach of the prover. Every
other property of the passing runs has its theorem. Where a theorem has a
hypothesis, a run may cover more on its instance: `tree_operator` checks the
candidates and the best chain with `reconsiderblock` of the first block.

## Not modelled

PROJECT.json lists every part with the reason. The validity of headers,
transactions and scripts is an input of the models. Sockets, RPC formatting, the
GUI with its translations, and the wallet's own database are outside of what is
modelled. The memory pool, the scheduler and the pure algorithms are on the plan
above. Of the modelled parts the components list what is left out; the largest
are the reload of the block index after a restart, the contents of a thin block
builder, and the announcements sent to other peers.
