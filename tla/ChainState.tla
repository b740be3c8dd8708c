----------------------------- MODULE ChainState -----------------------------
(***************************************************************************)
(* The chain state on disk and its recovery after a crash: the chainstate  *)
(* database (src/txdb.cpp), the block index database, the blk and rev      *)
(* files, FlushStateToDisk, and at startup LoadBlockIndexDB, ReplayBlocks  *)
(* and LoadChainTip (src/main.cpp).  Which blocks are connected is left    *)
(* open (BlockTree decides it); that pcoinsTip is a plain map, whose flush *)
(* writes the coins that differ from the database, is shown in CoinsCache. *)
(***************************************************************************)
EXTENDS Naturals

CONSTANTS
  Blocks, Genesis, Prev, nHeight,
  ChainOf,          \* ChainOf[b]: b and its ancestors
  Outpoints,
  Spends, Creates,  \* the outpoints a block spends and creates
  UTXO,             \* UTXO[b]: the unspent coins after b (reference)
  Spent,            \* no coin; a coin is the height of its block
  NULL,
  MaxFile,          \* bound: number of the last block file
  fPruneMode,       \* -prune
  MinBlocksToKeep,  \* MIN_BLOCKS_TO_KEEP
  PruneAfterHeight,
  PowerLosses,      \* the machine may lose what was not committed
  DiskErrors        \* the writes that may fail: of a block, of the index, of coins

NonGenesis == Blocks \ {Genesis}
Files == 0..MaxFile
Coin == Nat \cup {Spent}

\* UpdateCoins for every transaction of b; RollforwardBlock has the same
\* effect on coins that may or may not have seen b.
ConnectCoins(b, c) ==
  [o \in Outpoints |-> IF o \in Spends[b] THEN Spent
                       ELSE IF o \in Creates[b] THEN nHeight[b] ELSE c[o]]

\* The coins ConnectBlock moves to the undo data: an output spent in the block
\* that creates it is there when it is spent.
UndoOf(b, c) ==
  [o \in Outpoints |-> IF o \in Spends[b]
                       THEN IF o \in Creates[b] THEN nHeight[b] ELSE c[o]
                       ELSE Spent]

\* Mutant: reverts the outputs before it restores the inputs.
DisconnectInOrder(b, undo, c) ==
  [o \in Outpoints |-> IF o \in Spends[b] THEN undo[o]
                       ELSE IF o \in Creates[b] THEN Spent ELSE c[o]]

\* DisconnectBlock: first restore the inputs, then revert the outputs.
DisconnectCoins(b, undo, c) ==
  [o \in Outpoints |-> IF o \in Creates[b] THEN Spent
                       ELSE IF o \in Spends[b] THEN undo[o] ELSE c[o]]

\* The checks of ConnectBlock: no output exists already, and the inputs are unspent.
NoOverwrite(b, c) == \A o \in Creates[b] : c[o] = Spent
HaveInputs(b, c) == \A o \in Spends[b] \ Creates[b] : c[o] # Spent
Connectable(b, c) == NoOverwrite(b, c) /\ HaveInputs(b, c)

ASSUME TreeAssumption ==
  /\ Genesis \in Blocks /\ NULL \notin Blocks
  /\ Prev \in [NonGenesis -> Blocks]
  /\ nHeight \in [Blocks -> Nat]
  /\ ChainOf \in [Blocks -> SUBSET Blocks]
  /\ ChainOf[Genesis] = {Genesis}
  /\ \A b \in NonGenesis : ChainOf[b] = {b} \cup ChainOf[Prev[b]]
  /\ \A b \in NonGenesis : b \notin ChainOf[Prev[b]]

ASSUME TreeInduction ==
  \A S \in SUBSET Blocks :
    Genesis \in S /\ (\A b \in NonGenesis : Prev[b] \in S => b \in S) => S = Blocks

\* The blocks are valid: they spend what exists and create what does not
\* (BIP30).  The outputs of Genesis cannot be spent.
ASSUME CoinsAssumption ==
  /\ Spent \notin Nat /\ NULL \notin [Outpoints -> Coin]
  /\ Spends \in [NonGenesis -> SUBSET Outpoints]
  /\ Creates \in [NonGenesis -> SUBSET Outpoints]
  /\ UTXO \in [Blocks -> [Outpoints -> Coin]]
  /\ UTXO[Genesis] = [o \in Outpoints |-> Spent]
  /\ \A b \in NonGenesis : UTXO[b] = ConnectCoins(b, UTXO[Prev[b]])
  /\ \A b \in NonGenesis : Connectable(b, UTXO[Prev[b]])

ASSUME ParameterAssumption ==
  /\ MaxFile \in Nat /\ MinBlocksToKeep \in Nat /\ PruneAfterHeight \in Nat
  /\ fPruneMode \in BOOLEAN /\ PowerLosses \in BOOLEAN
  /\ DiskErrors \subseteq {"block", "index", "coins"}

VARIABLES
  \* on disk
  db,             \* chainstate: coins, DB_BEST_BLOCK, DB_HEAD_BLOCKS
  dbDurable,      \* the part of it that survives a loss of power
  diskIndex, diskData, diskUndo, diskLast,   \* block index database
  blk, rev,       \* what the blk and rev files hold, per block
  blkPending, revPending,                    \* written, not committed
  \* in memory
  pc,             \* what the node is doing
  stopping,       \* Shutdown() has begun
  fRequestShutdown,  \* AbortNode has requested it
  pcoinsTip,      \* the coins
  tip,            \* hashBlock of pcoinsTip
  mapBlockIndex, haveData, haveUndo,
  setDirtyBlockIndex,  \* the entries to write with the next flush
  nFile, nLastBlockFile,
  setFilesToPrune,
  pindex,         \* where ReplayBlocks is
  \* history
  failedWrites    \* the blocks that WriteBlockToDisk could not write

disk == <<diskIndex, diskData, diskUndo, diskLast>>
files == <<blk, rev, blkPending, revPending, failedWrites>>
shutdown == <<stopping, fRequestShutdown>>
index == <<mapBlockIndex, haveData, haveUndo, setDirtyBlockIndex, nFile, nLastBlockFile>>
vars == <<db, dbDurable, diskIndex, diskData, diskUndo, diskLast,
          blk, rev, blkPending, revPending, pc, stopping, fRequestShutdown,
          pcoinsTip, tip, mapBlockIndex, haveData, haveUndo, setDirtyBlockIndex,
          nFile, nLastBlockFile, setFilesToPrune, pindex, failedWrites>>

\* The database has DB_HEAD_BLOCKS: it is in the middle of a transition from
\* headOld to headNew.
InTransition(d) == d.headNew # NULL

\* The block a hash stands for; the null hash is the state before any flush.
BlockOf(h) == IF h = NULL THEN Genesis ELSE h

InFile(b, F) == nFile[b] \in F

\* The process ends: everything in memory is gone.
Forget ==
  /\ pc' = "down" /\ stopping' = FALSE /\ fRequestShutdown' = FALSE
  /\ pcoinsTip' = UTXO[Genesis] /\ tip' = Genesis
  /\ mapBlockIndex' = {} /\ haveData' = {} /\ haveUndo' = {} /\ nLastBlockFile' = 0
  /\ setDirtyBlockIndex' = {} /\ setFilesToPrune' = {} /\ pindex' = Genesis
  /\ UNCHANGED <<disk, nFile>>

-----------------------------------------------------------------------------
(* Processing blocks *)

\* Mutant: the rev file is not committed.
FlushBlkOnly ==
  /\ blkPending' = {b \in blkPending : ~InFile(b, {nLastBlockFile})}
  /\ UNCHANGED revPending

\* FlushBlockFile commits the last blk file and the last rev file.
FlushBlockFile ==
  /\ blkPending' = {b \in blkPending : ~InFile(b, {nLastBlockFile})}
  /\ revPending' = {b \in revPending : ~InFile(b, {nLastBlockFile})}

\* Mutant: the file that is full is not committed.
CommittedNone(f) == {}

\* FindBlockPos takes the last file, or leaves it for the next one; then
\* FlushBlockFile commits the blocks and the undo data in it.
CommittedOnLeaving(f) ==
  IF f = nLastBlockFile THEN {} ELSE {b \in Blocks : InFile(b, {nLastBlockFile})}

\* AcceptBlock: WriteBlockToDisk appends the block to file f.  When it fails
\* AbortNode requests a shutdown, and the block is recorded all the same.
AcceptBlock(b, f, written) ==
  /\ pc = "up" /\ b \notin haveData
  /\ f \in {nLastBlockFile, nLastBlockFile + 1} \cap Files
  /\ written \/ "block" \in DiskErrors
  /\ blk' = IF written THEN blk \cup {b} ELSE blk \ {b}
  /\ blkPending' = LET kept == blkPending \ CommittedOnLeaving(f) IN
                   IF written THEN kept \cup {b} ELSE kept \ {b}
  /\ revPending' = revPending \ CommittedOnLeaving(f)
  /\ failedWrites' = IF written THEN failedWrites \ {b} ELSE failedWrites \cup {b}
  /\ fRequestShutdown' = (fRequestShutdown \/ ~ written)
  /\ nFile' = [nFile EXCEPT ![b] = f] /\ nLastBlockFile' = f
  /\ mapBlockIndex' = mapBlockIndex \cup {b} /\ haveData' = haveData \cup {b}
  /\ setDirtyBlockIndex' = setDirtyBlockIndex \cup {b}
  /\ UNCHANGED <<db, dbDurable, disk, rev, pc, stopping, pcoinsTip, tip,
                 haveUndo, setFilesToPrune, pindex>>

\* DisconnectBlock finds the effects of b in the coins (DisconnectResult::OK).
Clean(b, c) == c = ConnectCoins(b, c)

\* ConnectTip: undo data is written once, next to the block.  ActivateBestChain
\* takes no step once a shutdown is requested, and a block that cannot be read,
\* or undo data that cannot be written, changes nothing.
ConnectTip(b) ==
  /\ pc = "up" /\ ~ fRequestShutdown
  /\ Prev[b] = tip /\ b \in haveData \cap blk /\ Connectable(b, pcoinsTip)
  /\ IF b \in haveUndo THEN UNCHANGED <<rev, revPending, haveUndo, setDirtyBlockIndex>>
     ELSE /\ rev' = [rev EXCEPT ![b] = UndoOf(b, pcoinsTip)]
          /\ revPending' = revPending \cup {b} /\ haveUndo' = haveUndo \cup {b}
          /\ setDirtyBlockIndex' = setDirtyBlockIndex \cup {b}
  /\ pcoinsTip' = ConnectCoins(b, pcoinsTip) /\ tip' = b
  /\ UNCHANGED <<db, dbDurable, disk, blk, blkPending, failedWrites, pc, shutdown,
                 mapBlockIndex, haveData, nFile, nLastBlockFile, setFilesToPrune, pindex>>

DisconnectTip ==
  /\ pc = "up" /\ tip # Genesis
  /\ tip \in haveData \cap blk /\ tip \in haveUndo /\ rev[tip] # NULL
  /\ Clean(tip, pcoinsTip)
  /\ pcoinsTip' = DisconnectCoins(tip, rev[tip], pcoinsTip) /\ tip' = Prev[tip]
  /\ UNCHANGED <<db, dbDurable, disk, files, pc, shutdown, index,
                 setFilesToPrune, pindex>>

-----------------------------------------------------------------------------
(* FlushStateToDisk *)

\* FindFilesToPrune: no block of the file is close to the tip (nHeightLast, see
\* BlockTree); the newest file is kept.  chainActive.Tip() is the tip, or the
\* block before it in a flush of ConnectTip, which may then prune fewer files.
Prunable(F) ==
  /\ F \subseteq Files \ {nLastBlockFile}
  /\ \A b \in haveData : InFile(b, F) => nHeight[b] + MinBlocksToKeep <= nHeight[tip]
  /\ F # {} => fPruneMode /\ nHeight[tip] > PruneAfterHeight

\* Mutant: the coins are flushed without the block index.
FlushOfCoins(F) ==
  /\ pc = "up" /\ F = {}
  /\ pc' = "coins"
  /\ UNCHANGED <<db, dbDurable, disk, files, fRequestShutdown, pcoinsTip, tip, index,
                 setFilesToPrune, pindex>>

\* PruneOneBlockFile clears the flags of the blocks in the files of F.
FlushStateToDisk(F) ==
  /\ pc = "up" /\ Prunable(F)
  /\ pc' = "files"
  /\ setFilesToPrune' = F
  /\ haveData' = {b \in haveData : ~InFile(b, F)}
  /\ haveUndo' = {b \in haveUndo : ~InFile(b, F)}
  /\ setDirtyBlockIndex' = setDirtyBlockIndex \cup {b \in mapBlockIndex : InFile(b, F)}
  /\ UNCHANGED <<db, dbDurable, disk, files, fRequestShutdown, pcoinsTip, tip,
                 mapBlockIndex, nFile, nLastBlockFile, pindex>>

\* A flush while the node runs, and the one of Shutdown() in src/init.cpp.
BeginFlush(F) == FlushStateToDisk(F) /\ UNCHANGED stopping
Shutdown(F) == FlushStateToDisk(F) /\ stopping' = TRUE

FlushFiles ==
  /\ pc = "files" /\ pc' = "index"
  /\ FlushBlockFile
  /\ UNCHANGED <<db, dbDurable, disk, blk, rev, failedWrites, shutdown, pcoinsTip, tip,
                 index, setFilesToPrune, pindex>>

\* One flag of the entries on disk after the dirty ones are written.
Saved(onDisk, inMemory) ==
  (onDisk \ setDirtyBlockIndex) \cup (inMemory \cap setDirtyBlockIndex)

\* Mutant: stores the number of files.
WriteFileCount ==
  /\ pc = "index" /\ pc' = "unlink"
  /\ diskIndex' = diskIndex \cup setDirtyBlockIndex
  /\ diskData' = Saved(diskData, haveData) /\ diskUndo' = Saved(diskUndo, haveUndo)
  /\ diskLast' = nLastBlockFile + 1
  /\ setDirtyBlockIndex' = {}
  /\ UNCHANGED <<db, dbDurable, files, shutdown, pcoinsTip, tip, mapBlockIndex, haveData,
                 haveUndo, nFile, nLastBlockFile, setFilesToPrune, pindex>>

\* pblocktree->WriteBatchSync.
WriteBlockIndex ==
  /\ pc = "index" /\ pc' = "unlink"
  /\ diskIndex' = diskIndex \cup setDirtyBlockIndex
  /\ diskData' = Saved(diskData, haveData) /\ diskUndo' = Saved(diskUndo, haveUndo)
  /\ diskLast' = nLastBlockFile
  /\ setDirtyBlockIndex' = {}
  /\ UNCHANGED <<db, dbDurable, files, shutdown, pcoinsTip, tip, mapBlockIndex, haveData,
                 haveUndo, nFile, nLastBlockFile, setFilesToPrune, pindex>>

\* WriteBatchSync fails, in a flush that prunes nothing: the entries are no longer
\* dirty, and the flush ends.
IndexWriteFails ==
  /\ "index" \in DiskErrors /\ pc = "index" /\ setFilesToPrune = {}
  /\ IF stopping THEN Forget
     ELSE /\ pc' = "up" /\ fRequestShutdown' = TRUE /\ setDirtyBlockIndex' = {}
          /\ UNCHANGED <<disk, stopping, pcoinsTip, tip, mapBlockIndex, haveData,
                         haveUndo, nFile, nLastBlockFile, setFilesToPrune, pindex>>
  /\ UNCHANGED <<db, dbDurable, files>>

\* UnlinkPrunedFiles; a periodic write ends here, a full flush goes on.
UnlinkPrunedFiles(fDoFullFlush) ==
  /\ pc = "unlink"
  /\ setFilesToPrune # {} \/ stopping => fDoFullFlush
  /\ pc' = IF fDoFullFlush THEN "coins" ELSE "up"
  /\ blk' = {b \in blk : ~InFile(b, setFilesToPrune)}
  /\ rev' = [b \in Blocks |-> IF InFile(b, setFilesToPrune) THEN NULL ELSE rev[b]]
  /\ blkPending' = {b \in blkPending : ~InFile(b, setFilesToPrune)}
  /\ revPending' = {b \in revPending : ~InFile(b, setFilesToPrune)}
  /\ nFile' = [b \in Blocks |-> IF InFile(b, setFilesToPrune) THEN 0 ELSE nFile[b]]
  /\ setFilesToPrune' = {}
  /\ UNCHANGED <<db, dbDurable, disk, shutdown, pcoinsTip, tip, mapBlockIndex,
                 haveData, haveUndo, setDirtyBlockIndex, nLastBlockFile, pindex, failedWrites>>

\* CCoinsViewDB::BatchWrite.  A batch takes the coins of some entries; the
\* entries that do not differ from the database are not told apart.
Batch(S) == [o \in Outpoints |-> IF o \in S THEN pcoinsTip[o] ELSE db.coins[o]]
Dirty == {o \in Outpoints : pcoinsTip[o] # db.coins[o]}

\* The cache is being flushed, by FlushStateToDisk or by ReplayBlocks.
Writing == pc \in {"coins", "replayed"}

\* A write that is not synced may or may not survive a loss of power.
WriteDb(d) ==
  /\ db' = d
  /\ dbDurable' \in IF PowerLosses THEN {dbDurable, d} ELSE {d}

\* Mutant: a flush in the middle of a replay forgets the old tip.
PartialBatchForgets(S) ==
  /\ Writing /\ S \subseteq Dirty /\ S # {}
  /\ WriteDb([coins |-> Batch(S), best |-> NULL, headNew |-> tip, headOld |-> db.best])
  /\ UNCHANGED <<disk, files, pc, shutdown, pcoinsTip, tip, index, setFilesToPrune, pindex>>

PartialBatch(S) ==
  /\ Writing /\ S \subseteq Dirty /\ S # {}
  /\ WriteDb([coins |-> Batch(S), best |-> NULL, headNew |-> tip,
              headOld |-> IF InTransition(db) THEN db.headOld ELSE db.best])
  /\ UNCHANGED <<disk, files, pc, shutdown, pcoinsTip, tip, index,
                 setFilesToPrune, pindex>>

FinalBatch ==
  /\ Writing
  /\ WriteDb([coins |-> Batch(Dirty), best |-> tip, headNew |-> NULL, headOld |-> NULL])
  /\ IF stopping THEN Forget
     ELSE pc' = "up" /\ UNCHANGED <<disk, shutdown, pcoinsTip, tip, index,
                                   setFilesToPrune, pindex>>
  /\ UNCHANGED files

\* WriteBatch throws: the entries of the batch are erased from the cache, and
\* are read from the database from now on.  AbortNode only requests the
\* shutdown; when the flush is part of a start or a shutdown the process ends.
BatchFails(S) ==
  /\ "coins" \in DiskErrors /\ Writing /\ S \subseteq Dirty
  /\ IF stopping \/ pc = "replayed" THEN Forget
     ELSE /\ pcoinsTip' = [o \in Outpoints |-> IF o \in S THEN db.coins[o] ELSE pcoinsTip[o]]
          /\ pc' = "up" /\ fRequestShutdown' = TRUE
          /\ UNCHANGED <<disk, stopping, tip, index, setFilesToPrune, pindex>>
  /\ UNCHANGED <<db, dbDurable, files>>

-----------------------------------------------------------------------------
(* Crash and restart *)

\* The process dies (-dbcrashratio, a signal): the system has the writes.
Crash ==
  /\ pc # "down"
  /\ Forget
  /\ UNCHANGED <<db, dbDurable, files>>

\* The machine dies: what was not committed may be lost.
PowerLoss(lostBlk, lostRev) ==
  /\ PowerLosses /\ pc # "down"
  /\ lostBlk \subseteq blkPending /\ lostRev \subseteq revPending
  /\ Forget
  /\ db' = dbDurable /\ UNCHANGED dbDurable
  /\ blk' = blk \ lostBlk
  /\ rev' = [b \in Blocks |-> IF b \in lostRev THEN NULL ELSE rev[b]]
  /\ blkPending' = {} /\ revPending' = {} /\ UNCHANGED failedWrites

\* LoadBlockIndexDB.  Bytes that no index entry points to are overwritten by
\* later blocks.
LoadBlockIndexDB ==
  /\ mapBlockIndex' = diskIndex /\ haveData' = diskData /\ haveUndo' = diskUndo
  /\ setDirtyBlockIndex' = {}
  /\ nLastBlockFile' = diskLast
  /\ nFile' = [b \in Blocks |-> IF b \in diskIndex THEN nFile[b] ELSE 0]
  /\ blk' = blk \cap diskData
  /\ rev' = [b \in Blocks |-> IF b \in diskUndo THEN rev[b] ELSE NULL]
  /\ blkPending' = blkPending \cap diskData /\ revPending' = revPending \cap diskUndo
  /\ failedWrites' = failedWrites \cap diskData

\* Mutant: swaps the two heads.
ReplayBackwards ==
  /\ InTransition(db)
  /\ tip' = BlockOf(db.headOld) /\ pindex' = db.headNew
  /\ pc' = IF {db.headNew, BlockOf(db.headOld)} \subseteq diskIndex \cup {Genesis}
           THEN "back" ELSE "failed"

\* ReplayBlocks up to its loops.
ReplayBlocks ==
  /\ InTransition(db)
  /\ tip' = db.headNew /\ pindex' = BlockOf(db.headOld)
  /\ pc' = IF {db.headNew, BlockOf(db.headOld)} \subseteq diskIndex \cup {Genesis}
           THEN "back" ELSE "failed"

LoadChainTip ==
  /\ ~ InTransition(db)
  /\ tip' = BlockOf(db.best) /\ pindex' = Genesis
  /\ pc' = IF BlockOf(db.best) \in diskIndex \cup {Genesis} THEN "up" ELSE "failed"

\* Step 7 of AppInit2.  A cache over the database is empty: its coins are those of
\* the database.
Start ==
  /\ pc = "down" /\ stopping' = FALSE
  /\ LoadBlockIndexDB
  /\ pcoinsTip' = db.coins
  /\ ReplayBlocks \/ LoadChainTip
  /\ UNCHANGED <<db, dbDurable, disk, fRequestShutdown, setFilesToPrune>>

\* Roll back along the old branch, down to the last block common to both.
RollbackBlock ==
  /\ pc = "back" /\ pindex \notin ChainOf[tip]
  /\ IF pindex \in haveData \cap blk /\ pindex \in haveUndo /\ rev[pindex] # NULL
     THEN /\ pcoinsTip' = DisconnectCoins(pindex, rev[pindex], pcoinsTip)
          /\ pindex' = Prev[pindex] /\ UNCHANGED pc
     ELSE pc' = "failed" /\ UNCHANGED <<pcoinsTip, pindex>>
  /\ UNCHANGED <<db, dbDurable, disk, files, shutdown, tip, index, setFilesToPrune>>

\* Mutant: does not advance.
RollforwardSame(b) ==
  /\ pc = "back" /\ pindex \in ChainOf[tip]
  /\ b \in ChainOf[tip] /\ Prev[b] = pindex
  /\ pcoinsTip' = ConnectCoins(b, pcoinsTip)
  /\ UNCHANGED <<db, dbDurable, disk, files, pc, shutdown, tip, index, setFilesToPrune, pindex>>

\* Roll forward from there to the new tip.
RollforwardBlock(b) ==
  /\ pc = "back" /\ pindex \in ChainOf[tip]
  /\ b \in ChainOf[tip] /\ Prev[b] = pindex
  /\ IF b \in haveData \cap blk
     THEN pcoinsTip' = ConnectCoins(b, pcoinsTip) /\ pindex' = b /\ UNCHANGED pc
     ELSE pc' = "failed" /\ UNCHANGED <<pcoinsTip, pindex>>
  /\ UNCHANGED <<db, dbDurable, disk, files, shutdown, tip, index, setFilesToPrune>>

\* cache.SetBestBlock(...); cache.Flush().
EndReplay ==
  /\ pc = "back" /\ pindex = tip
  /\ pc' = "replayed" /\ pindex' = Genesis
  /\ UNCHANGED <<db, dbDurable, disk, files, shutdown, pcoinsTip, tip, index,
                 setFilesToPrune>>

-----------------------------------------------------------------------------
NewDb == [coins |-> UTXO[Genesis], best |-> NULL, headNew |-> NULL, headOld |-> NULL]

Init ==
  /\ db = NewDb /\ dbDurable = NewDb
  /\ diskIndex = {} /\ diskData = {} /\ diskUndo = {} /\ diskLast = 0
  /\ blk = {} /\ rev = [b \in Blocks |-> NULL] /\ blkPending = {} /\ revPending = {}
  /\ pc = "up" /\ stopping = FALSE /\ fRequestShutdown = FALSE
  /\ pcoinsTip = UTXO[Genesis] /\ tip = Genesis
  /\ mapBlockIndex = {} /\ haveData = {} /\ haveUndo = {} /\ setDirtyBlockIndex = {}
  /\ nFile = [b \in Blocks |-> 0] /\ nLastBlockFile = 0
  /\ setFilesToPrune = {} /\ pindex = Genesis /\ failedWrites = {}

\* What runs by itself once a flush or a start has begun.
Proceed ==
  \/ FlushFiles \/ WriteBlockIndex
  \/ \E full \in BOOLEAN : UnlinkPrunedFiles(full)
  \/ \E S \in SUBSET Outpoints : PartialBatch(S)
  \/ FinalBatch
  \/ RollbackBlock \/ EndReplay
  \/ \E b \in NonGenesis : RollforwardBlock(b)

Disturb ==
  \/ Crash
  \/ \E lostBlk, lostRev \in SUBSET Blocks : PowerLoss(lostBlk, lostRev)
  \/ IndexWriteFails
  \/ \E S \in SUBSET Outpoints : BatchFails(S)

Next ==
  \/ \E b \in NonGenesis : \/ ConnectTip(b)
                            \/ \E f \in Files, written \in BOOLEAN : AcceptBlock(b, f, written)
  \/ DisconnectTip
  \/ \E F \in SUBSET Files : BeginFlush(F) \/ Shutdown(F)
  \/ Proceed
  \/ Disturb
  \/ Start

Spec == Init /\ [][Next]_vars

\* The thread that flushes or replays goes on, and someone restarts the node.
FairSpec == Spec /\ WF_vars(Proceed) /\ WF_vars(Start)

-----------------------------------------------------------------------------
(* Properties *)

Hash == Blocks \cup {NULL}
CoinMap == [Outpoints -> Coin]
Database == [coins : CoinMap, best : Hash, headNew : Hash, headOld : Hash]
Labels == {"up", "files", "index", "unlink", "coins", "replayed", "back", "down", "failed"}

\* The type of what is on disk and in memory.
TypeOK ==
  /\ db \in Database /\ dbDurable \in Database
  /\ diskIndex \subseteq Blocks /\ diskData \subseteq Blocks /\ diskUndo \subseteq Blocks
  /\ diskLast \in Files
  /\ blk \subseteq Blocks /\ rev \in [Blocks -> CoinMap \cup {NULL}]
  /\ blkPending \subseteq Blocks /\ revPending \subseteq Blocks
  /\ pc \in Labels /\ stopping \in BOOLEAN /\ fRequestShutdown \in BOOLEAN
  /\ pcoinsTip \in CoinMap /\ tip \in Blocks
  /\ mapBlockIndex \subseteq Blocks /\ haveData \subseteq Blocks /\ haveUndo \subseteq Blocks
  /\ nFile \in [Blocks -> Files] /\ nLastBlockFile \in Files
  /\ setDirtyBlockIndex \subseteq Blocks /\ setFilesToPrune \subseteq Files
  /\ pindex \in Blocks /\ failedWrites \subseteq Blocks

\* "In the last batch, mark the database as consistent with hashBlock again"
\* (CCoinsViewDB::BatchWrite): a database with a best block holds exactly the
\* unspent coins of that block, after any crashes, replays and reorganizations.
DbConsistent ==
  \A d \in {db, dbDurable} : ~InTransition(d) => d.coins = UTXO[BlockOf(d.best)]

\* A node that is up, in particular one that has replayed, has the coins of
\* its tip.
TipConsistent == pc = "up" => pcoinsTip = UTXO[tip]

\* "Replay blocks that aren't fully applied to the database" (ReplayBlocks in
\* src/main.h): whatever crash interrupts a flush, or a replay, the next start
\* finds the blocks and the undo data it needs.
RecoverySucceeds == pc # "failed"

\* The block index on disk refers to no block that is not safely in its file
\* (FlushStateToDisk: "First make sure all block and undo data is flushed to
\* disk"), whatever write of the index or of coins fails, except to a block that
\* AcceptBlock recorded although it could not be written.
IndexedBlocksSafe == diskData \ failedWrites \subseteq blk \ blkPending

\* The same for the undo data that ConnectBlock writes, whose file
\* FlushBlockFile commits.
IndexedUndoSafe == \A b \in diskUndo : rev[b] # NULL /\ b \notin revPending

\* assert(old_heads[0] == hashBlock) in CCoinsViewDB::BatchWrite: a flush that
\* finds the database in the middle of a transition goes to the same tip.
SameTransition == Writing /\ InTransition(db) => db.headNew = tip

\* ReplayBlocks ends, with a running node unless it is interrupted again.
StartEnds == pc = "back" ~> pc \in {"up", "down"}
=============================================================================
