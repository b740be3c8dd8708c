-------------------------- MODULE ChainStateProofs --------------------------
(***************************************************************************)
(* The coin database is consistent after any crashes, losses of power,     *)
(* replays, reorganizations and pruning, for every tree of valid blocks.   *)
(* What the block index on disk refers to is in the block files, and the   *)
(* replay at startup finds every block and all the undo data it needs.     *)
(***************************************************************************)
EXTENDS ChainState, TLAPS

\* The undo data in the rev files is that of the block's parent.
UndoInv ==
  \A b \in NonGenesis : rev[b] # NULL => rev[b] = UndoOf(b, UTXO[Prev[b]])

\* A database is that of its best block, or every coin is that of the new or
\* that of the old head.
DbInv(d) ==
  /\ ~InTransition(d) => d.coins = UTXO[BlockOf(d.best)]
  /\ InTransition(d) => \A o \in Outpoints :
       d.coins[o] \in {UTXO[d.headNew][o], UTXO[BlockOf(d.headOld)][o]}

\* While it replays, every coin in memory is that of the block that was
\* reached or that of the new tip already.
ReplayInv ==
  pc = "back" =>
    /\ InTransition(db) /\ db.headNew = tip
    /\ \A o \in Outpoints : pcoinsTip[o] \in {UTXO[pindex][o], UTXO[tip][o]}

MemoryInv ==
  /\ pc \in {"up", "files", "index", "unlink"} => ~InTransition(db)
  /\ Writing /\ InTransition(db) => db.headNew = tip
  /\ pc \in {"up", "files", "index", "unlink", "coins", "replayed"} => pcoinsTip = UTXO[tip]

SInv ==
  /\ TypeOK /\ UndoInv /\ DbInv(db) /\ DbInv(dbDurable) /\ ReplayInv /\ MemoryInv

-----------------------------------------------------------------------------
(* Connecting and disconnecting *)

LEMMA PrevBlock == \A b \in NonGenesis : b \in Blocks /\ Prev[b] \in Blocks
BY Zenon, TreeAssumption DEF NonGenesis

LEMMA CoinMaps ==
  ASSUME NEW b \in NonGenesis, NEW c \in CoinMap
  PROVE  /\ ConnectCoins(b, c) \in CoinMap /\ UndoOf(b, c) \in CoinMap
         /\ \A u \in CoinMap : DisconnectCoins(b, u, c) \in CoinMap
<1>1. nHeight[b] \in Coin /\ Spent \in Coin /\ \A o \in Outpoints : c[o] \in Coin
  BY PrevBlock, TreeAssumption DEF Coin, CoinMap
<1> QED
  BY <1>1 DEF ConnectCoins, UndoOf, DisconnectCoins, CoinMap

LEMMA UTXOMap == \A b \in Blocks : UTXO[b] \in CoinMap
BY CoinsAssumption DEF CoinMap

\* What a valid block does to one coin of its parent.
LEMMA OneCoin ==
  ASSUME NEW b \in NonGenesis, NEW o \in Outpoints
  PROVE  /\ UTXO[b][o] = IF o \in Spends[b] THEN Spent
                         ELSE IF o \in Creates[b] THEN nHeight[b] ELSE UTXO[Prev[b]][o]
         /\ o \in Creates[b] => UTXO[Prev[b]][o] = Spent
<1>1. /\ UTXO[b] = ConnectCoins(b, UTXO[Prev[b]]) /\ Connectable(b, UTXO[Prev[b]])
  BY Zenon, CoinsAssumption
<1>2. o \in Creates[b] => UTXO[Prev[b]][o] = Spent
  BY Zenon, <1>1 DEF Connectable, NoOverwrite
<1>3. UTXO[b][o] = IF o \in Spends[b] THEN Spent
                   ELSE IF o \in Creates[b] THEN nHeight[b] ELSE UTXO[Prev[b]][o]
  BY ONLY <1>1 DEF ConnectCoins
<1> QED
  BY Zenon, <1>2, <1>3

\* A coin that is either that of b or that of t becomes, when b is undone, that
\* of the parent of b or that of t.
LEMMA UndoOneCoin ==
  ASSUME NEW b \in NonGenesis, NEW t \in Blocks, NEW c \in CoinMap,
         NEW o \in Outpoints, c[o] \in {UTXO[b][o], UTXO[t][o]}
  PROVE  DisconnectCoins(b, UndoOf(b, UTXO[Prev[b]]), c)[o]
           \in {UTXO[Prev[b]][o], UTXO[t][o]}
BY OneCoin DEF DisconnectCoins, UndoOf

LEMMA RedoOneCoin ==
  ASSUME NEW b \in NonGenesis, NEW t \in Blocks, NEW c \in CoinMap,
         NEW o \in Outpoints, c[o] \in {UTXO[Prev[b]][o], UTXO[t][o]}
  PROVE  ConnectCoins(b, c)[o] \in {UTXO[b][o], UTXO[t][o]}
BY OneCoin DEF ConnectCoins

LEMMA UndoCoins ==
  ASSUME NEW b \in NonGenesis
  PROVE  DisconnectCoins(b, UndoOf(b, UTXO[Prev[b]]), UTXO[b]) = UTXO[Prev[b]]
<1>1. \A o \in Outpoints :
        DisconnectCoins(b, UndoOf(b, UTXO[Prev[b]]), UTXO[b])[o] = UTXO[Prev[b]][o]
  BY OneCoin DEF DisconnectCoins, UndoOf
<1>2. UTXO[Prev[b]] = [o \in Outpoints |-> UTXO[Prev[b]][o]]
  BY PrevBlock, UTXOMap DEF CoinMap
<1> QED
  BY <1>1, <1>2 DEF DisconnectCoins

\* Every chain starts at Genesis.
LEMMA GenesisBelow == \A b \in Blocks : Genesis \in ChainOf[b]
<1> DEFINE T == {b \in Blocks : Genesis \in ChainOf[b]}
<1>1. Genesis \in T
  BY TreeAssumption
<1>2. \A b \in NonGenesis : Prev[b] \in T => b \in T
  BY PrevBlock, TreeAssumption
<1>3. T = Blocks
  BY Zenon, <1>1, <1>2, TreeInduction
<1> QED
  BY <1>3

-----------------------------------------------------------------------------
(* Types *)

LEMMA InitTypes == Init => TypeOK
<1> SUFFICES ASSUME Init PROVE TypeOK
  OBVIOUS
<1>1. UTXO[Genesis] \in CoinMap /\ Genesis \in Blocks /\ 0 \in Files
  BY UTXOMap, TreeAssumption, ParameterAssumption DEF Files
<1>2. NewDb \in Database
  BY <1>1 DEF NewDb, Database, Hash
<1> QED
  BY Zenon, <1>1, <1>2 DEF Init, TypeOK, Labels

LEMMA WriteDbTypes ==
  ASSUME TypeOK, NEW d \in Database, WriteDb(d)
  PROVE  db' \in Database /\ dbDurable' \in Database
BY DEF WriteDb, TypeOK

LEMMA BatchTypes ==
  ASSUME TypeOK, NEW S \in SUBSET Outpoints
  PROVE  Batch(S) \in CoinMap
BY DEF Batch, TypeOK, Database, CoinMap

LEMMA ForgetTypes ==
  ASSUME TypeOK, Forget, db' \in Database, dbDurable' \in Database, UNCHANGED failedWrites,
         blk' \subseteq Blocks, rev' \in [Blocks -> CoinMap \cup {NULL}],
         blkPending' \subseteq Blocks, revPending' \subseteq Blocks
  PROVE  TypeOK'
<1>1. UTXO[Genesis] \in CoinMap /\ Genesis \in Blocks /\ 0 \in Files
  BY UTXOMap, TreeAssumption, ParameterAssumption DEF Files
<1> QED
  BY Zenon, <1>1 DEF Forget, TypeOK, Labels, disk

LEMMA NextTypes == TypeOK /\ [Next]_vars => TypeOK'
<1> SUFFICES ASSUME TypeOK, [Next]_vars PROVE TypeOK'
  OBVIOUS
<1>1. ASSUME NEW b \in NonGenesis, ConnectTip(b) PROVE TypeOK'
  <2>1. ConnectCoins(b, pcoinsTip) \in CoinMap /\ UndoOf(b, pcoinsTip) \in CoinMap
    BY CoinMaps DEF TypeOK
  <2> QED
    BY <1>1, <2>1, PrevBlock DEF ConnectTip, TypeOK, disk, shutdown
<1>2. ASSUME NEW b \in NonGenesis, NEW f \in Files, NEW written \in BOOLEAN,
             AcceptBlock(b, f, written)
      PROVE  TypeOK'
  <2>1. /\ blkPending' \subseteq Blocks /\ revPending' \subseteq Blocks
        /\ blk' \subseteq Blocks /\ failedWrites' \subseteq Blocks /\ fRequestShutdown' \in BOOLEAN
    BY <1>2, PrevBlock DEF AcceptBlock, TypeOK
  <2> QED
    BY <1>2, <2>1, PrevBlock DEF AcceptBlock, TypeOK, disk
<1>3. ASSUME DisconnectTip PROVE TypeOK'
  <2>1. tip \in NonGenesis /\ rev[tip] \in CoinMap
    BY <1>3 DEF DisconnectTip, TypeOK, NonGenesis
  <2>2. DisconnectCoins(tip, rev[tip], pcoinsTip) \in CoinMap
    BY Zenon, <2>1, CoinMaps DEF TypeOK
  <2> QED
    BY <1>3, <2>1, <2>2, PrevBlock DEF DisconnectTip, TypeOK, disk, files, index, shutdown
<1>4. ASSUME NEW F \in SUBSET Files, BeginFlush(F) \/ Shutdown(F) PROVE TypeOK'
  <2>1. FlushStateToDisk(F) /\ stopping' \in BOOLEAN
    BY Zenon, <1>4 DEF BeginFlush, Shutdown, TypeOK
  <2> QED
    BY <2>1 DEF FlushStateToDisk, TypeOK, Labels, disk, files
<1>5. ASSUME FlushFiles \/ WriteBlockIndex \/ EndReplay PROVE TypeOK'
  BY ZenonT(30), SMTT(30), <1>5, TreeAssumption
  DEF FlushFiles, WriteBlockIndex, EndReplay, FlushBlockFile, Saved, TypeOK, Labels,
      disk, files, index, shutdown
<1>6. ASSUME NEW full \in BOOLEAN, UnlinkPrunedFiles(full) PROVE TypeOK'
  BY <1>6, ParameterAssumption DEF UnlinkPrunedFiles, TypeOK, Labels, disk, shutdown, Files
<1>7. ASSUME NEW S \in SUBSET Outpoints, PartialBatch(S) PROVE TypeOK'
  <2>1. db' \in Database /\ dbDurable' \in Database
    BY <1>7, WriteDbTypes, BatchTypes DEF PartialBatch, TypeOK, Database, Hash
  <2> QED
    BY <1>7, <2>1 DEF PartialBatch, TypeOK, disk, files, index, shutdown
<1>8. ASSUME FinalBatch PROVE TypeOK'
  <2>1. db' \in Database /\ dbDurable' \in Database
    BY <1>8, WriteDbTypes, BatchTypes DEF FinalBatch, TypeOK, Database, Hash, Dirty
  <2>2. CASE stopping
    BY <1>8, <2>1, <2>2, ForgetTypes DEF FinalBatch, TypeOK, files
  <2>3. CASE ~stopping
    BY <1>8, <2>1, <2>3 DEF FinalBatch, TypeOK, Labels, disk, files, index, shutdown
  <2> QED
    BY <2>2, <2>3
<1>9. ASSUME RollbackBlock PROVE TypeOK'
  <2>1. CASE pc' = "failed" /\ UNCHANGED <<pcoinsTip, pindex>>
    BY <1>9, <2>1 DEF RollbackBlock, TypeOK, Labels, disk, files, index, shutdown
  <2>2. CASE /\ rev[pindex] # NULL
             /\ pcoinsTip' = DisconnectCoins(pindex, rev[pindex], pcoinsTip)
             /\ pindex' = Prev[pindex] /\ UNCHANGED pc
    <3>1. pindex \in NonGenesis /\ rev[pindex] \in CoinMap
      BY <1>9, <2>2, GenesisBelow DEF RollbackBlock, TypeOK, NonGenesis
    <3>2. pcoinsTip' \in CoinMap /\ pindex' \in Blocks
      BY Zenon, <2>2, <3>1, CoinMaps, PrevBlock DEF TypeOK
    <3> QED
      BY <1>9, <2>2, <3>2 DEF RollbackBlock, TypeOK, disk, files, index, shutdown
  <2> QED
    BY <1>9, <2>1, <2>2 DEF RollbackBlock
<1>10. ASSUME NEW b \in NonGenesis, RollforwardBlock(b) PROVE TypeOK'
  <2>1. ConnectCoins(b, pcoinsTip) \in CoinMap /\ b \in Blocks
    BY CoinMaps, PrevBlock DEF TypeOK
  <2> QED
    BY <1>10, <2>1 DEF RollforwardBlock, TypeOK, Labels, disk, files, index, shutdown
<1>11. ASSUME Crash PROVE TypeOK'
  BY <1>11, ForgetTypes DEF Crash, TypeOK, files
<1>12. ASSUME NEW lostBlk \in SUBSET Blocks, NEW lostRev \in SUBSET Blocks,
              PowerLoss(lostBlk, lostRev)
       PROVE  TypeOK'
  <2>1. /\ db' \in Database /\ dbDurable' \in Database
        /\ blk' \subseteq Blocks /\ rev' \in [Blocks -> CoinMap \cup {NULL}]
        /\ blkPending' \subseteq Blocks /\ revPending' \subseteq Blocks
    BY <1>12 DEF PowerLoss, TypeOK
  <2> QED
    BY <1>12, <2>1, ForgetTypes DEF PowerLoss
<1>13. ASSUME NEW S \in SUBSET Outpoints, BatchFails(S) PROVE TypeOK'
  <2>1. CASE stopping \/ pc = "replayed"
    BY <1>13, <2>1, ForgetTypes DEF BatchFails, TypeOK, files
  <2>2. CASE ~(stopping \/ pc = "replayed")
    <3>1. pcoinsTip' \in CoinMap
      BY <1>13, <2>2 DEF BatchFails, TypeOK, Database, CoinMap
    <3> QED
      BY <1>13, <2>2, <3>1 DEF BatchFails, TypeOK, Labels, disk, files, index
  <2> QED
    BY <2>1, <2>2
<1>14. ASSUME Start PROVE TypeOK'
  <2>1. tip' \in Blocks /\ pindex' \in Blocks /\ pc' \in Labels
    BY <1>14, TreeAssumption
    DEF Start, ReplayBlocks, LoadChainTip, TypeOK, Database, Hash, BlockOf, InTransition, Labels
  <2>2. pcoinsTip' \in CoinMap
    BY <1>14 DEF Start, TypeOK, Database
  <2>3. /\ blk' \subseteq Blocks /\ rev' \in [Blocks -> CoinMap \cup {NULL}]
        /\ blkPending' \subseteq Blocks /\ revPending' \subseteq Blocks
        /\ failedWrites' \subseteq Blocks
    BY <1>14 DEF Start, LoadBlockIndexDB, TypeOK
  <2>4. nFile' \in [Blocks -> Files] /\ nLastBlockFile' \in Files
    BY <1>14, ParameterAssumption DEF Start, LoadBlockIndexDB, TypeOK, Files
  <2>5. /\ mapBlockIndex' \subseteq Blocks /\ haveData' \subseteq Blocks
        /\ haveUndo' \subseteq Blocks /\ setDirtyBlockIndex' \subseteq Blocks
    BY <1>14 DEF Start, LoadBlockIndexDB, TypeOK
  <2> QED
    BY Zenon, <1>14, <2>1, <2>2, <2>3, <2>4, <2>5 DEF Start, TypeOK, disk
<1>15. ASSUME IndexWriteFails PROVE TypeOK'
  <2>1. CASE stopping
    BY <1>15, <2>1, ForgetTypes DEF IndexWriteFails, TypeOK, files
  <2>2. CASE ~stopping
    BY <1>15, <2>2 DEF IndexWriteFails, TypeOK, Labels, disk, files
  <2> QED
    BY <2>1, <2>2
<1>16. CASE UNCHANGED vars
  BY <1>16 DEF TypeOK, vars
<1> QED
  BY <1>1, <1>2, <1>3, <1>4, <1>5, <1>6, <1>7, <1>8, <1>9, <1>10, <1>11, <1>12, <1>13,
     <1>14, <1>15, <1>16
  DEF Next, Proceed, Disturb

-----------------------------------------------------------------------------
(* Consistency *)

LEMMA InitSInv == Init => SInv
<1> SUFFICES ASSUME Init PROVE SInv
  OBVIOUS
<1>1. DbInv(NewDb) /\ ~InTransition(NewDb)
  BY DEF DbInv, NewDb, InTransition, BlockOf
<1>2. UndoInv /\ ReplayInv /\ MemoryInv
  BY <1>1, TreeAssumption DEF Init, UndoInv, ReplayInv, MemoryInv, NonGenesis, Writing
<1> QED
  BY <1>1, <1>2, InitTypes DEF Init, SInv

\* Nothing but the label changes what the invariant says of memory.
LEMMA SameDb ==
  ASSUME SInv, UNCHANGED <<db, dbDurable>>
  PROVE  DbInv(db)' /\ DbInv(dbDurable)'
BY DEF SInv, DbInv

\* Undo data only disappears.
LEMMA LessUndo ==
  ASSUME SInv, \A b \in Blocks : rev'[b] \in {rev[b], NULL}
  PROVE  UndoInv'
BY PrevBlock DEF SInv, UndoInv

LEMMA ForgetKeeps ==
  ASSUME Forget
  PROVE  ReplayInv' /\ MemoryInv'
BY DEF Forget, ReplayInv, MemoryInv, Writing

LEMMA WriteKeeps ==
  ASSUME SInv, NEW d, DbInv(d), WriteDb(d)
  PROVE  DbInv(db)' /\ DbInv(dbDurable)'
<1>1. db' = d /\ dbDurable' \in {dbDurable, d}
  BY DEF WriteDb
<1> QED
  BY <1>1 DEF SInv, DbInv

\* A batch that is not the last leaves every coin at one of the two heads.
LEMMA PartialBatchInv ==
  ASSUME SInv, NEW S \in SUBSET Outpoints, PartialBatch(S)
  PROVE  DbInv(db)' /\ DbInv(dbDurable)' /\ InTransition(db)' /\ db'.headNew = tip
<1> DEFINE old == IF InTransition(db) THEN db.headOld ELSE db.best
           d == [coins |-> Batch(S), best |-> NULL, headNew |-> tip, headOld |-> old]
<1>1. pcoinsTip = UTXO[tip] /\ tip \in Blocks /\ tip # NULL
  BY Zenon, TreeAssumption DEF PartialBatch, SInv, MemoryInv, Writing, TypeOK
<1>2. \A o \in Outpoints : db.coins[o] \in {UTXO[tip][o], UTXO[BlockOf(old)][o]}
  BY DEF PartialBatch, SInv, DbInv, MemoryInv, Writing
<1>3. \A o \in Outpoints : Batch(S)[o] \in {UTXO[tip][o], UTXO[BlockOf(old)][o]}
  BY <1>1, <1>2 DEF Batch
<1>4. DbInv(d) /\ InTransition(d)
  BY <1>1, <1>3 DEF DbInv, InTransition
<1>5. WriteDb(d) /\ db' = d
  BY DEF PartialBatch, WriteDb
<1> HIDE DEF d
<1>6. DbInv(db)' /\ DbInv(dbDurable)'
  BY <1>4, <1>5, WriteKeeps
<1> QED
  BY <1>1, <1>5, <1>6 DEF InTransition, d

\* The last batch makes the database that of the tip.
LEMMA FinalBatchInv ==
  ASSUME SInv, FinalBatch
  PROVE  DbInv(db)' /\ DbInv(dbDurable)' /\ ~InTransition(db)'
<1> DEFINE d == [coins |-> Batch(Dirty), best |-> tip, headNew |-> NULL, headOld |-> NULL]
<1>1. pcoinsTip = UTXO[tip] /\ tip \in Blocks /\ tip # NULL
  BY TreeAssumption DEF FinalBatch, SInv, MemoryInv, Writing, TypeOK
<1>2. Batch(Dirty) = pcoinsTip
  BY DEF Batch, Dirty, SInv, TypeOK, CoinMap, Database
<1>3. DbInv(d) /\ ~InTransition(d)
  BY <1>1, <1>2 DEF DbInv, InTransition, BlockOf
<1>4. WriteDb(d) /\ db' = d
  BY DEF FinalBatch, WriteDb
<1> HIDE DEF d
<1>5. DbInv(db)' /\ DbInv(dbDurable)'
  BY <1>3, <1>4, WriteKeeps
<1> QED
  BY <1>3, <1>4, <1>5 DEF InTransition, d

LEMMA ConnectTipInv ==
  ASSUME SInv, NEW b \in NonGenesis, ConnectTip(b)
  PROVE  UndoInv' /\ MemoryInv'
<1>1. pcoinsTip = UTXO[Prev[b]] /\ rev \in [Blocks -> CoinMap \cup {NULL}] /\ b \in Blocks
  BY PrevBlock DEF ConnectTip, SInv, MemoryInv, TypeOK
<1>2. pcoinsTip' = UTXO[b] /\ tip' = b /\ UNCHANGED <<db, pc>>
  BY <1>1, CoinsAssumption DEF ConnectTip
<1>3. rev' = rev \/ rev' = [rev EXCEPT ![b] = UndoOf(b, UTXO[Prev[b]])]
  BY <1>1 DEF ConnectTip
<1>4. UndoInv'
  BY <1>1, <1>3, PrevBlock DEF SInv, UndoInv
<1> QED
  BY <1>2, <1>4 DEF SInv, MemoryInv, Writing, ConnectTip

LEMMA DisconnectTipInv ==
  ASSUME SInv, DisconnectTip
  PROVE  MemoryInv'
<1>1. tip \in NonGenesis /\ pcoinsTip = UTXO[tip]
  BY DEF DisconnectTip, SInv, MemoryInv, TypeOK, NonGenesis
<1>2. pcoinsTip' = UTXO[Prev[tip]] /\ tip' = Prev[tip] /\ UNCHANGED <<db, pc>>
  BY <1>1, UndoCoins DEF DisconnectTip, SInv, UndoInv
<1> QED
  BY <1>2 DEF SInv, MemoryInv, Writing, DisconnectTip

LEMMA RollbackBlockInv ==
  ASSUME SInv, RollbackBlock
  PROVE  ReplayInv' /\ MemoryInv'
<1>1. pindex \in NonGenesis /\ tip \in Blocks /\ pcoinsTip \in CoinMap
  BY GenesisBelow DEF RollbackBlock, SInv, TypeOK, NonGenesis
<1>2. CASE pc' = "failed"
  BY Zenon, <1>2 DEF ReplayInv, MemoryInv, Writing
<1>3. CASE /\ rev[pindex] # NULL
           /\ pcoinsTip' = DisconnectCoins(pindex, rev[pindex], pcoinsTip)
           /\ pindex' = Prev[pindex] /\ UNCHANGED pc
  <2>1. pcoinsTip' = DisconnectCoins(pindex, UndoOf(pindex, UTXO[Prev[pindex]]), pcoinsTip)
    BY Zenon, <1>1, <1>3 DEF SInv, UndoInv
  <2>2. \A o \in Outpoints : pcoinsTip'[o] \in {UTXO[Prev[pindex]][o], UTXO[tip][o]}
    BY <1>1, <2>1, UndoOneCoin DEF RollbackBlock, SInv, ReplayInv
  <2> QED
    BY <1>3, <2>2 DEF RollbackBlock, SInv, ReplayInv, MemoryInv, Writing, InTransition
<1> QED
  BY <1>2, <1>3 DEF RollbackBlock

LEMMA RollforwardBlockInv ==
  ASSUME SInv, NEW b \in NonGenesis, RollforwardBlock(b)
  PROVE  ReplayInv' /\ MemoryInv'
<1>1. tip \in Blocks /\ pcoinsTip \in CoinMap
  BY DEF SInv, TypeOK
<1>2. CASE pc' = "failed"
  BY <1>2 DEF ReplayInv, MemoryInv, Writing
<1>3. CASE pcoinsTip' = ConnectCoins(b, pcoinsTip) /\ pindex' = b /\ UNCHANGED pc
  <2>1. \A o \in Outpoints : pcoinsTip'[o] \in {UTXO[b][o], UTXO[tip][o]}
    BY <1>1, <1>3, RedoOneCoin DEF RollforwardBlock, SInv, ReplayInv
  <2> QED
    BY <1>3, <2>1 DEF RollforwardBlock, SInv, ReplayInv, MemoryInv, Writing, InTransition
<1> QED
  BY <1>2, <1>3 DEF RollforwardBlock

LEMMA EndReplayInv ==
  ASSUME SInv, EndReplay
  PROVE  MemoryInv'
<1>1. \A o \in Outpoints : pcoinsTip[o] = UTXO[tip][o]
  BY DEF EndReplay, SInv, ReplayInv
<1>2. pcoinsTip = UTXO[tip]
  BY <1>1, UTXOMap DEF SInv, TypeOK, CoinMap
<1> QED
  BY <1>2 DEF EndReplay, SInv, ReplayInv, MemoryInv, Writing, InTransition

LEMMA StartInv ==
  ASSUME SInv, Start
  PROVE  ReplayInv' /\ MemoryInv'
<1>1. CASE InTransition(db)
  BY Zenon, <1>1 
  DEF Start, ReplayBlocks, LoadChainTip, SInv, DbInv, ReplayInv, MemoryInv, Writing, InTransition
<1>2. CASE ~InTransition(db)
  BY Zenon, <1>2 
  DEF Start, ReplayBlocks, LoadChainTip, SInv, DbInv, ReplayInv, MemoryInv, Writing, InTransition
<1> QED
  BY <1>1, <1>2

LEMMA NextSInv ==
  ASSUME "coins" \notin DiskErrors, SInv, [Next]_vars
  PROVE  SInv'
<1>1. TypeOK'
  BY NextTypes DEF SInv
<1> SUFFICES UndoInv' /\ DbInv(db)' /\ DbInv(dbDurable)' /\ ReplayInv' /\ MemoryInv'
  BY Zenon, <1>1 DEF SInv
<1> USE DEF ReplayInv, MemoryInv, Writing
<1>2. ASSUME NEW b \in NonGenesis, ConnectTip(b)
      PROVE  UndoInv' /\ DbInv(db)' /\ DbInv(dbDurable)' /\ ReplayInv' /\ MemoryInv'
  BY Zenon, <1>2, ConnectTipInv, SameDb DEF ConnectTip
<1>3. ASSUME NEW b \in NonGenesis, NEW f \in Files, NEW written \in BOOLEAN,
             AcceptBlock(b, f, written)
      PROVE  UndoInv' /\ DbInv(db)' /\ DbInv(dbDurable)' /\ ReplayInv' /\ MemoryInv'
  BY Zenon, <1>3, SameDb, LessUndo DEF AcceptBlock, SInv
<1>4. CASE DisconnectTip
  BY <1>4, DisconnectTipInv, SameDb, LessUndo DEF DisconnectTip, files
<1>5. ASSUME NEW F \in SUBSET Files, FlushStateToDisk(F)
      PROVE  UndoInv' /\ DbInv(db)' /\ DbInv(dbDurable)' /\ ReplayInv' /\ MemoryInv'
  BY Zenon, <1>5, SameDb, LessUndo DEF FlushStateToDisk, files, SInv
<1>6. CASE FlushFiles
  BY <1>6, SameDb, LessUndo DEF FlushFiles, SInv
<1>7. CASE WriteBlockIndex
  BY Zenon, <1>7, SameDb, LessUndo DEF WriteBlockIndex, files, SInv
<1>8. ASSUME NEW full \in BOOLEAN, UnlinkPrunedFiles(full)
      PROVE  UndoInv' /\ DbInv(db)' /\ DbInv(dbDurable)' /\ ReplayInv' /\ MemoryInv'
  <2>1. UNCHANGED <<db, dbDurable, pcoinsTip, tip>> /\ pc = "unlink" /\ pc' \in {"coins", "up"}
    BY <1>8 DEF UnlinkPrunedFiles
  <2>2. \A b \in Blocks : rev'[b] \in {rev[b], NULL}
    BY Zenon, <1>8 DEF UnlinkPrunedFiles
  <2> QED
    BY <2>1, <2>2, SameDb, LessUndo DEF SInv
<1>9. ASSUME NEW S \in SUBSET Outpoints, PartialBatch(S)
       PROVE  UndoInv' /\ DbInv(db)' /\ DbInv(dbDurable)' /\ ReplayInv' /\ MemoryInv'
  <2>1. UNCHANGED <<pc, pcoinsTip, tip, rev>> /\ Writing
    BY Zenon, <1>9 DEF PartialBatch, files
  <2> QED
    BY <1>9, <2>1, PartialBatchInv, LessUndo DEF SInv
<1>10. CASE FinalBatch
  <2>1. UNCHANGED rev /\ Writing
    BY Zenon, <1>10 DEF FinalBatch, files
  <2>2. ReplayInv' /\ MemoryInv'
    BY Zenon, <1>10, <2>1, FinalBatchInv, ForgetKeeps DEF FinalBatch, SInv
  <2> QED
    BY <1>10, <2>1, <2>2, FinalBatchInv, LessUndo
<1>11. CASE RollbackBlock
  BY <1>11, RollbackBlockInv, SameDb, LessUndo DEF RollbackBlock, files
<1>12. CASE EndReplay
  BY <1>12, EndReplayInv, SameDb, LessUndo DEF EndReplay, files
<1>13. ASSUME NEW b \in NonGenesis, RollforwardBlock(b)
       PROVE  UndoInv' /\ DbInv(db)' /\ DbInv(dbDurable)' /\ ReplayInv' /\ MemoryInv'
  BY Zenon, <1>13, RollforwardBlockInv, SameDb, LessUndo DEF RollforwardBlock, files
<1>14. CASE Crash
  BY <1>14, ForgetKeeps, SameDb, LessUndo DEF Crash, files
<1>15. ASSUME NEW lostBlk \in SUBSET Blocks, NEW lostRev \in SUBSET Blocks,
              PowerLoss(lostBlk, lostRev)
       PROVE  UndoInv' /\ DbInv(db)' /\ DbInv(dbDurable)' /\ ReplayInv' /\ MemoryInv'
  <2>1. Forget /\ db' = dbDurable /\ dbDurable' = dbDurable
    BY <1>15 DEF PowerLoss
  <2>2. \A b \in Blocks : rev'[b] \in {rev[b], NULL}
    BY Zenon, <1>15 DEF PowerLoss
  <2>3. DbInv(db)' /\ DbInv(dbDurable)'
    BY <2>1 DEF SInv, DbInv
  <2> QED
    BY <2>1, <2>2, <2>3, ForgetKeeps, LessUndo
<1>16. CASE Start
  <2>1. UNCHANGED <<db, dbDurable>> /\ \A b \in Blocks : rev'[b] \in {rev[b], NULL}
    BY Zenon, <1>16 DEF Start, LoadBlockIndexDB
  <2> QED
    BY <1>16, <2>1, StartInv, SameDb, LessUndo
<1>17. CASE UNCHANGED vars
  BY Zenon, <1>17, SameDb, LessUndo DEF vars, SInv
<1>18. ASSUME NEW S \in SUBSET Outpoints, BatchFails(S) PROVE FALSE
  BY <1>18 DEF BatchFails
<1>19. CASE IndexWriteFails
  <2>1. UNCHANGED <<db, dbDurable, rev>> /\ pc = "index"
    BY Zenon, <1>19 DEF IndexWriteFails, files
  <2>2. ReplayInv' /\ MemoryInv'
    BY Zenon, <1>19, <2>1, ForgetKeeps DEF IndexWriteFails, SInv
  <2> QED
    BY <2>1, <2>2, SameDb, LessUndo
<1> QED
  BY Zenon, <1>2, <1>3, <1>4, <1>5, <1>6, <1>7, <1>8, <1>9, <1>10, <1>11, <1>12, <1>13,
     <1>14, <1>15, <1>16, <1>17, <1>18, <1>19 DEF Next, Proceed, Disturb, BeginFlush, Shutdown

-----------------------------------------------------------------------------
(* Theorems about the database *)

\* Every variable keeps its type, also when writes fail: the files, flags and
\* heads that FlushStateToDisk, BatchWrite and ReplayBlocks handle are always
\* those of some block or null.
THEOREM StateTypes == Spec => []TypeOK
<1>1. Init => TypeOK
  BY InitTypes
<1>2. TypeOK /\ [Next]_vars => TypeOK'
  BY NextTypes
<1> QED
  BY <1>1, <1>2, PTL DEF Spec

\* As long as no batch of coins fails, a chainstate database that is not in the middle
\* of a transition holds exactly the unspent coins of its best block: for every
\* tree of valid blocks, after any crashes and losses of power in the middle of
\* a flush or of a replay, after blocks and index entries that could not be
\* written, and any reorganization and pruning.
THEOREM DatabaseConsistent ==
  ASSUME "coins" \notin DiskErrors
  PROVE  Spec => []DbConsistent
<1>1. Init => SInv
  BY InitSInv
<1>2. SInv /\ [Next]_vars => SInv'
  BY Zenon, NextSInv
<1>3. SInv => DbConsistent
  BY DEF SInv, DbInv, DbConsistent
<1> QED
  BY <1>1, <1>2, <1>3, PTL DEF Spec

\* Likewise the coins of a node that is up are those of its tip, in particular
\* after ReplayBlocks.
THEOREM RecoveredTipConsistent ==
  ASSUME "coins" \notin DiskErrors
  PROVE  Spec => []TipConsistent
<1>1. Init => SInv
  BY InitSInv
<1>2. SInv /\ [Next]_vars => SInv'
  BY Zenon, NextSInv
<1>3. SInv => TipConsistent
  BY DEF SInv, MemoryInv, TipConsistent
<1> QED
  BY <1>1, <1>2, <1>3, PTL DEF Spec

\* The assertion of CCoinsViewDB::BatchWrite that an interrupted flush is only
\* ever resumed towards the same tip holds.
THEOREM TransitionResumed ==
  ASSUME "coins" \notin DiskErrors
  PROVE  Spec => []SameTransition
<1>1. Init => SInv
  BY InitSInv
<1>2. SInv /\ [Next]_vars => SInv'
  BY Zenon, NextSInv
<1>3. SInv => SameTransition
  BY DEF SInv, MemoryInv, SameTransition
<1> QED
  BY <1>1, <1>2, <1>3, PTL DEF Spec

-----------------------------------------------------------------------------
(* What the index on disk refers to, and what a replay needs *)

Flushing == pc \in {"files", "index", "unlink"}

\* The blk files.  What is not committed is in the last file; that is why
\* committing the last file is enough before the index is written.  The index
\* in memory may have fewer blocks than the one on disk only while a flush that
\* prunes them has not written their entries.
BlkInv ==
  /\ diskData \ failedWrites \subseteq blk \ blkPending
  /\ (blk \cup blkPending) \cap failedWrites = {}
  /\ diskData \subseteq diskIndex
  /\ pc # "down" =>
       /\ \A b \in blkPending : nFile[b] = nLastBlockFile
       /\ haveData \ failedWrites \subseteq blk /\ haveData \subseteq mapBlockIndex
       /\ \A b \in diskData \ haveData : b \in setDirtyBlockIndex /\ InFile(b, setFilesToPrune)
  /\ pc = "index" => blkPending = {}
  /\ pc = "unlink" => setDirtyBlockIndex = {}
  /\ ~Flushing => setFilesToPrune = {}
  /\ Flushing => \A b \in haveData : ~InFile(b, setFilesToPrune)

\* The rev files of a node that does not prune.
UndoFilesInv ==
  /\ setFilesToPrune = {}
  /\ \A b \in diskUndo : rev[b] # NULL
  /\ pc # "down" => diskUndo \subseteq haveUndo /\ \A b \in haveUndo : rev[b] # NULL
  /\ MaxFile = 0 => diskUndo \cap revPending = {}
  /\ MaxFile = 0 /\ pc = "index" => revPending = {}

\* The blocks above Genesis up to h are in B.
Covers(B, h) == h # NULL => ChainOf[h] \ {Genesis} \subseteq B

\* Blocks and undo data that the index on disk, and the index in memory, have.
OnDisk == (diskData \cap diskUndo) \ failedWrites
InMemory == (haveData \cap haveUndo) \ failedWrites

\* Every chain a replay may have to walk.
ChainsInv ==
  /\ \A d \in {db, dbDurable} :
       Covers(OnDisk, d.best) /\ Covers(OnDisk, d.headNew) /\ Covers(OnDisk, d.headOld)
  /\ pc # "down" => Covers(InMemory, tip) /\ InMemory \ setDirtyBlockIndex \subseteq OnDisk
  /\ pc \in {"unlink", "coins", "replayed", "back"} => Covers(OnDisk, tip)
  /\ pc = "back" => Covers(OnDisk, pindex)
  /\ pc # "failed"

UInv == TypeOK /\ BlkInv /\ UndoFilesInv
RInv == UInv /\ ChainsInv

-----------------------------------------------------------------------------
(* The blk files *)

LEMMA InitBlk == Init => BlkInv
BY DEF Init, BlkInv, Flushing, InFile

\* A process that ends leaves the files as they are, or loses uncommitted ones.
LEMMA ForgetBlk ==
  ASSUME BlkInv, Forget, blk \ blkPending \subseteq blk', blk' \subseteq blk,
         blkPending' \subseteq blkPending, UNCHANGED failedWrites
  PROVE  BlkInv'
<1>1. pc' = "down" /\ setFilesToPrune' = {} /\ UNCHANGED <<diskData, diskIndex>>
  BY DEF Forget, disk
<1> QED
  BY <1>1 DEF BlkInv, Flushing

LEMMA AcceptBlockBlk ==
  ASSUME TypeOK, BlkInv, NEW b \in NonGenesis, NEW f \in Files, NEW written \in BOOLEAN,
         AcceptBlock(b, f, written)
  PROVE  BlkInv'
<1>1. /\ pc = "up" /\ pc' = pc /\ b \notin haveData
      /\ UNCHANGED <<diskIndex, diskData, setFilesToPrune>>
      /\ blk' = (IF written THEN blk \cup {b} ELSE blk \ {b}) /\ haveData' = haveData \cup {b}
      /\ failedWrites' = (IF written THEN failedWrites \ {b} ELSE failedWrites \cup {b})
      /\ mapBlockIndex' = mapBlockIndex \cup {b}
      /\ nFile' = [nFile EXCEPT ![b] = f] /\ nLastBlockFile' = f
  BY DEF AcceptBlock, disk
<1>2. nFile \in [Blocks -> Files] /\ b \in Blocks /\ blkPending \subseteq Blocks
  BY PrevBlock DEF TypeOK
<1>3. setFilesToPrune = {} /\ diskData \subseteq haveData
  BY <1>1 DEF BlkInv, Flushing, InFile
<1>4. LET kept == IF f = nLastBlockFile THEN blkPending ELSE {}
      IN  blkPending' = IF written THEN kept \cup {b} ELSE kept \ {b}
  BY Zenon, <1>1, <1>2 DEF AcceptBlock, BlkInv, InFile, CommittedOnLeaving
<1>5. \A x \in blkPending' : nFile'[x] = nLastBlockFile'
  BY <1>1, <1>2, <1>4 DEF BlkInv
<1>6. diskData \ failedWrites' \subseteq blk' \ blkPending'
  BY <1>1, <1>3, <1>4 DEF BlkInv
<1>7. haveData' \ failedWrites' \subseteq blk' /\ haveData' \subseteq mapBlockIndex'
      /\ (blk' \cup blkPending') \cap failedWrites' = {}
  BY <1>1, <1>4 DEF BlkInv
<1> QED
  BY <1>1, <1>3, <1>5, <1>6, <1>7 DEF BlkInv, Flushing

LEMMA FlushStateBlk ==
  ASSUME TypeOK, BlkInv, NEW F \in SUBSET Files, FlushStateToDisk(F)
  PROVE  BlkInv'
<1>1. /\ pc = "up" /\ pc' = "files" /\ setFilesToPrune' = F
      /\ haveData' = {b \in haveData : ~InFile(b, F)}
      /\ setDirtyBlockIndex' = setDirtyBlockIndex \cup {b \in mapBlockIndex : InFile(b, F)}
      /\ UNCHANGED <<diskData, diskIndex, blk, blkPending, failedWrites, mapBlockIndex,
                     nFile, nLastBlockFile>>
  BY DEF FlushStateToDisk, disk, files
<1>2. diskData \subseteq haveData /\ haveData \subseteq mapBlockIndex
  BY <1>1 DEF BlkInv, Flushing, InFile
<1>3. \A b : InFile(b, F) <=> InFile(b, F)'
  BY <1>1 DEF InFile
<1>4. \A b \in diskData \ haveData' : b \in setDirtyBlockIndex' /\ InFile(b, F)
  BY <1>1, <1>2
<1> QED
  BY <1>1, <1>3, <1>4 DEF BlkInv, Flushing, InFile

LEMMA WriteBlockIndexBlk ==
  ASSUME TypeOK, BlkInv, WriteBlockIndex
  PROVE  BlkInv'
<1>1. /\ pc = "index" /\ pc' = "unlink" /\ setDirtyBlockIndex' = {}
      /\ diskIndex' = diskIndex \cup setDirtyBlockIndex
      /\ diskData' = (diskData \ setDirtyBlockIndex) \cup (haveData \cap setDirtyBlockIndex)
      /\ UNCHANGED <<blk, blkPending, failedWrites, mapBlockIndex, haveData, nFile,
                     nLastBlockFile, setFilesToPrune>>
  BY DEF WriteBlockIndex, Saved, files
<1>2. diskData' \subseteq haveData
  BY <1>1 DEF BlkInv
<1> QED
  BY <1>1, <1>2 DEF BlkInv, Flushing, InFile

LEMMA UnlinkBlk ==
  ASSUME TypeOK, BlkInv, NEW full \in BOOLEAN, UnlinkPrunedFiles(full)
  PROVE  BlkInv'
<1> DEFINE Gone(b) == InFile(b, setFilesToPrune)
<1>1. /\ pc = "unlink" /\ pc' \in {"coins", "up"} /\ setFilesToPrune' = {}
      /\ UNCHANGED <<diskIndex, diskData, haveData, mapBlockIndex, failedWrites, nLastBlockFile>>
      /\ blk' = {b \in blk : ~Gone(b)} /\ blkPending' = {b \in blkPending : ~Gone(b)}
      /\ nFile' = [b \in Blocks |-> IF Gone(b) THEN 0 ELSE nFile[b]]
  BY DEF UnlinkPrunedFiles, disk
<1>2. diskData \subseteq haveData /\ \A b \in haveData : ~Gone(b)
  BY <1>1 DEF BlkInv, Flushing
<1>3. \A b \in blkPending' : b \in Blocks /\ nFile[b] = nLastBlockFile /\ ~Gone(b)
  BY <1>1 DEF BlkInv, TypeOK
<1> HIDE DEF Gone
<1>4. \A b \in blkPending' : nFile'[b] = nLastBlockFile'
  BY <1>1, <1>3
<1> QED
  BY <1>1, <1>2, <1>4 DEF BlkInv, Flushing

LEMMA StartBlk ==
  ASSUME TypeOK, BlkInv, Start
  PROVE  BlkInv'
<1>1. pc' \in {"back", "up", "failed"}
  BY Zenon DEF Start, ReplayBlocks, LoadChainTip
<1>2. /\ pc = "down" /\ haveData' = diskData /\ mapBlockIndex' = diskIndex
      /\ blk' = blk \cap diskData /\ blkPending' = blkPending \cap diskData
      /\ failedWrites' = failedWrites \cap diskData
      /\ UNCHANGED <<diskIndex, diskData, setFilesToPrune>>
  BY Zenon DEF Start, LoadBlockIndexDB, disk
<1>3. /\ diskData \ failedWrites \subseteq blk \ blkPending 
      /\ (blk \cup blkPending) \cap failedWrites = {}
      /\ diskData \subseteq diskIndex /\ setFilesToPrune = {}
  BY <1>2 DEF BlkInv, Flushing
<1>4. /\ diskData' \ failedWrites' \subseteq blk' \ blkPending' 
      /\ (blk' \cup blkPending') \cap failedWrites' = {}
      /\ haveData' \ failedWrites' \subseteq blk' /\ diskData' \subseteq haveData'
  BY ONLY <1>2, <1>3
<1>5. \A b \in blkPending' : nFile'[b] = nLastBlockFile'
  BY ONLY <1>2, <1>3
<1> QED
  BY <1>1, <1>2, <1>3, <1>4, <1>5 DEF BlkInv, Flushing

LEMMA NextBlk ==
  ASSUME TypeOK, BlkInv, [Next]_vars
  PROVE  BlkInv'
<1>1. ASSUME NEW b \in NonGenesis, ConnectTip(b) PROVE BlkInv'
  <2>1. /\ pc = "up" /\ pc' = pc /\ setDirtyBlockIndex \subseteq setDirtyBlockIndex'
        /\ UNCHANGED <<diskIndex, diskData, blk, blkPending, failedWrites, mapBlockIndex, haveData,
                       nFile, nLastBlockFile, setFilesToPrune>>
    BY Zenon, <1>1 DEF ConnectTip, disk
  <2> QED
    BY <2>1 DEF BlkInv, Flushing, InFile
<1>2. CASE DisconnectTip
  BY <1>2 DEF DisconnectTip, BlkInv, Flushing, InFile, disk, files, index
<1>3. CASE FlushFiles
  <2>1. /\ pc = "files" /\ pc' = "index" /\ blkPending' = {}
        /\ UNCHANGED <<diskIndex, diskData, blk, failedWrites, mapBlockIndex, haveData,
                       setDirtyBlockIndex, nFile, setFilesToPrune>>
    BY <1>3 DEF FlushFiles, FlushBlockFile, BlkInv, InFile, disk, index
  <2> QED
    BY <2>1 DEF BlkInv, Flushing, InFile
<1>4. CASE IndexWriteFails
  <2>1. CASE Forget
    BY <1>4, <2>1, ForgetBlk DEF IndexWriteFails, files
  <2>2. CASE ~Forget
    BY <1>4, <2>2 DEF IndexWriteFails, BlkInv, Flushing, InFile, disk, files
  <2> QED
    BY <2>1, <2>2
<1>5. ASSUME NEW S \in SUBSET Outpoints, PartialBatch(S) PROVE BlkInv'
  BY <1>5 DEF PartialBatch, Writing, BlkInv, Flushing, InFile, disk, files, index
<1>6. CASE FinalBatch
  <2>1. UNCHANGED <<blk, blkPending, failedWrites>>
    BY <1>6 DEF FinalBatch, files
  <2>2. CASE stopping
    BY <1>6, <2>1, <2>2, ForgetBlk DEF FinalBatch
  <2>3. CASE ~stopping
    <3>1. /\ pc \in {"coins", "replayed"} /\ pc' = "up"
          /\ UNCHANGED <<diskIndex, diskData, mapBlockIndex, haveData, setDirtyBlockIndex,
                         nFile, nLastBlockFile, setFilesToPrune>>
      BY <1>6, <2>3 DEF FinalBatch, Writing, disk, index
    <3> QED
      BY <2>1, <3>1 DEF BlkInv, Flushing, InFile
  <2> QED
    BY <2>2, <2>3
<1>7. ASSUME NEW S \in SUBSET Outpoints, BatchFails(S) PROVE BlkInv'
  <2>1. UNCHANGED <<blk, blkPending, failedWrites>>
    BY <1>7 DEF BatchFails, files
  <2>2. CASE Forget
    BY <2>1, <2>2, ForgetBlk
  <2>3. CASE ~Forget
    <3>1. /\ pc \in {"coins", "replayed"} /\ pc' = "up"
          /\ UNCHANGED <<diskIndex, diskData, mapBlockIndex, haveData, setDirtyBlockIndex,
                         nFile, nLastBlockFile, setFilesToPrune>>
      BY Zenon, <1>7, <2>3 DEF BatchFails, Writing, disk, index
    <3> QED
      BY SMT, ZenonT(30), <2>1, <3>1 DEF BlkInv, Flushing, InFile
  <2> QED
    BY <2>2, <2>3
<1>8. CASE RollbackBlock \/ EndReplay
  <2>1. /\ pc = "back" /\ pc' \in {"back", "failed", "replayed"}
        /\ UNCHANGED <<diskIndex, diskData, blk, blkPending, failedWrites, mapBlockIndex, haveData,
                       setDirtyBlockIndex, nFile, nLastBlockFile, setFilesToPrune>>
    BY <1>8 DEF RollbackBlock, EndReplay, disk, files, index
  <2> QED
    BY <2>1 DEF BlkInv, Flushing, InFile
<1>9. ASSUME NEW b \in NonGenesis, RollforwardBlock(b) PROVE BlkInv'
  <2>1. /\ pc = "back" /\ pc' \in {"back", "failed"}
        /\ UNCHANGED <<diskIndex, diskData, blk, blkPending, failedWrites, mapBlockIndex, haveData,
                       setDirtyBlockIndex, nFile, nLastBlockFile, setFilesToPrune>>
    BY <1>9 DEF RollforwardBlock, disk, files, index
  <2> QED
    BY <2>1 DEF BlkInv, Flushing, InFile
<1>10. CASE Crash
  BY <1>10, ForgetBlk DEF Crash, files
<1>11. ASSUME NEW lostBlk \in SUBSET Blocks, NEW lostRev \in SUBSET Blocks,
              PowerLoss(lostBlk, lostRev)
       PROVE  BlkInv'
  BY <1>11, ForgetBlk DEF PowerLoss
<1>12. CASE UNCHANGED vars
  BY <1>12 DEF vars, BlkInv, Flushing, InFile
<1> QED
  BY <1>1, <1>2, <1>3, <1>4, <1>5, <1>6, <1>7, <1>8, <1>9, <1>10, <1>11, <1>12,
     AcceptBlockBlk, FlushStateBlk, WriteBlockIndexBlk, UnlinkBlk, StartBlk
  DEF Next, Proceed, Disturb, BeginFlush, Shutdown

-----------------------------------------------------------------------------
(* The rev files *)

LEMMA InitUndoFiles == Init => UndoFilesInv
BY DEF Init, UndoFilesInv

LEMMA ForgetUndoFiles ==
  ASSUME UndoFilesInv, Forget, \A b \in diskUndo : rev'[b] # NULL, revPending' \subseteq revPending
  PROVE  UndoFilesInv'
<1>1. pc' = "down" /\ setFilesToPrune' = {} /\ diskUndo' = diskUndo
  BY DEF Forget, disk
<1> QED
  BY <1>1 DEF UndoFilesInv

\* Undo data is written before the flag is set; the only file is the one that
\* FlushFiles commits.
LEMMA ConnectTipUndoFiles ==
  ASSUME TypeOK, UndoFilesInv, NEW b \in NonGenesis, ConnectTip(b)
  PROVE  UndoFilesInv'
<1>1. pc = "up" /\ UNCHANGED <<pc, diskUndo, setFilesToPrune>> /\ haveUndo' = haveUndo \cup {b}
  BY Zenon DEF ConnectTip, disk
<1>2. UndoOf(b, pcoinsTip) # NULL
  <2>1. pcoinsTip \in CoinMap
    BY Zenon DEF TypeOK
  <2>2. UndoOf(b, pcoinsTip) \in CoinMap
    BY Zenon, <2>1, CoinMaps
  <2>3. NULL \notin CoinMap
    BY Zenon, CoinsAssumption DEF CoinMap
  <2> QED
    BY ONLY <2>2, <2>3, Zenon
<1>3. diskUndo \subseteq haveUndo /\ \A x \in haveUndo : rev[x] # NULL
  BY Zenon, <1>1 DEF UndoFilesInv
<1>4. CASE b \in haveUndo
  <2>1. UNCHANGED <<rev, revPending, haveUndo>>
    BY Zenon, <1>4 DEF ConnectTip
  <2> QED
    BY <1>1, <2>1 DEF UndoFilesInv
<1>5. CASE b \notin haveUndo
  <2>1. rev' = [rev EXCEPT ![b] = UndoOf(b, pcoinsTip)] /\ revPending' = revPending \cup {b}
    BY Zenon, <1>5 DEF ConnectTip
  <2>2. DOMAIN rev = Blocks /\ b \in Blocks /\ haveUndo \subseteq Blocks
    BY Zenon, PrevBlock DEF TypeOK
  <2>3. \A x \in haveUndo' : rev'[x] # NULL
    BY ONLY <1>1, <1>2, <1>3, <2>1, <2>2
  <2>4. diskUndo \cap revPending' = diskUndo \cap revPending
    BY <1>3, <1>5, <2>1
  <2> QED
    BY <1>1, <1>3, <2>3, <2>4 DEF UndoFilesInv
<1> QED
  BY <1>4, <1>5

LEMMA NextUndoFiles ==
  ASSUME fPruneMode = FALSE, PowerLosses => MaxFile = 0, TypeOK, UndoFilesInv, [Next]_vars
  PROVE  UndoFilesInv'
<1>1. ASSUME NEW b \in NonGenesis, NEW f \in Files, NEW written \in BOOLEAN,
             AcceptBlock(b, f, written)
      PROVE  UndoFilesInv'
  <2>1. pc = "up" /\ revPending' \subseteq revPending
        /\ UNCHANGED <<pc, diskUndo, setFilesToPrune, haveUndo, rev>>
    BY <1>1 DEF AcceptBlock, disk
  <2> QED
    BY <2>1 DEF UndoFilesInv
<1>2. ASSUME NEW F \in SUBSET Files, FlushStateToDisk(F) PROVE UndoFilesInv'
  <2>1. F = {}
    BY <1>2 DEF FlushStateToDisk, Prunable
  <2>2. pc = "up" /\ pc' = "files" /\ setFilesToPrune' = {} /\ haveUndo' = haveUndo
        /\ UNCHANGED <<diskUndo, rev, revPending>>
    BY Zenon, <1>2, <2>1 DEF FlushStateToDisk, files, InFile, disk
  <2> QED
    BY <2>2 DEF UndoFilesInv
<1>3. CASE FlushFiles
  <2>1. /\ pc = "files" /\ pc' = "index"
        /\ revPending' = {b \in revPending : ~InFile(b, {nLastBlockFile})}
        /\ UNCHANGED <<diskUndo, rev, setFilesToPrune, haveUndo>>
    BY <1>3 DEF FlushFiles, FlushBlockFile, index, disk
  <2>2. MaxFile = 0 => revPending' = {}
    BY <2>1 DEF TypeOK, InFile, Files
  <2> QED
    BY <2>1, <2>2 DEF UndoFilesInv
<1>4. CASE WriteBlockIndex
  <2>1. /\ pc = "index" /\ pc' = "unlink" /\ diskUndo' \subseteq diskUndo \cup haveUndo
        /\ UNCHANGED <<rev, revPending, setFilesToPrune, haveUndo>>
    BY <1>4 DEF WriteBlockIndex, Saved, files
  <2> QED
    BY <2>1 DEF UndoFilesInv
<1>5. ASSUME NEW full \in BOOLEAN, UnlinkPrunedFiles(full) PROVE UndoFilesInv'
  <2>1. pc = "unlink" /\ pc' \in {"coins", "up"} /\ setFilesToPrune' = {}
        /\ revPending' \subseteq revPending /\ UNCHANGED <<diskUndo, haveUndo>>
    BY <1>5 DEF UnlinkPrunedFiles, disk
  <2>2. rev' = rev
    BY <1>5 DEF UnlinkPrunedFiles, UndoFilesInv, InFile, TypeOK
  <2> QED
    BY <2>1, <2>2 DEF UndoFilesInv
<1>6. CASE UNCHANGED <<diskUndo, haveUndo, rev, revPending, setFilesToPrune>>
           /\ pc # "down" /\ pc' # "index"
  BY <1>6 DEF UndoFilesInv
<1>7. CASE Forget /\ UNCHANGED <<rev, revPending>>
  BY Zenon, <1>7, ForgetUndoFiles DEF UndoFilesInv
<1>8. CASE DisconnectTip \/ EndReplay \/ RollbackBlock
  <2>1. pc \in {"up", "back"} /\ pc' \in {"up", "back", "replayed", "failed"}
    BY <1>8 DEF DisconnectTip, EndReplay, RollbackBlock
  <2>2. UNCHANGED <<disk, files, index, setFilesToPrune>>
    BY Zenon, <1>8 DEF DisconnectTip, EndReplay, RollbackBlock
  <2> QED
    BY <1>6, <2>1, <2>2 DEF disk, files, index
<1>9. ASSUME NEW b \in NonGenesis, RollforwardBlock(b) PROVE UndoFilesInv'
  <2>1. pc = "back" /\ pc' \in {"back", "failed"}
    BY <1>9 DEF RollforwardBlock
  <2>2. UNCHANGED <<disk, files, index, setFilesToPrune>>
    BY Zenon, <1>9 DEF RollforwardBlock
  <2> QED
    BY SMT, ZenonT(30), <1>6, <2>1, <2>2 DEF disk, files, index
<1>10. ASSUME NEW S \in SUBSET Outpoints, PartialBatch(S) PROVE UndoFilesInv'
  <2>1. Writing /\ UNCHANGED <<pc, disk, files, index, setFilesToPrune>>
    BY Zenon, <1>10 DEF PartialBatch
  <2> QED
    BY <1>6, <2>1 DEF Writing, disk, files, index
<1>11. ASSUME FinalBatch \/ (\E S \in SUBSET Outpoints : BatchFails(S)) PROVE UndoFilesInv'
  <2>1. Writing /\ UNCHANGED files
    BY Zenon, <1>11 DEF FinalBatch, BatchFails
  <2>2. Forget \/ (pc' = "up" /\ UNCHANGED <<disk, index, setFilesToPrune>>)
    BY Zenon, <1>11 DEF FinalBatch, BatchFails
  <2> QED
    BY <1>6, <1>7, <2>1, <2>2 DEF Writing, disk, files, index
<1>12. CASE IndexWriteFails
  <2>1. pc = "index" /\ UNCHANGED files
    BY Zenon, <1>12 DEF IndexWriteFails
  <2>2. Forget \/ (pc' = "up" /\ UNCHANGED <<disk, haveUndo, setFilesToPrune>>)
    BY Zenon, <1>12 DEF IndexWriteFails
  <2> QED
    BY <1>6, <1>7, <2>1, <2>2 DEF disk, files
<1>13. CASE Crash
  BY Zenon, <1>7, <1>13 DEF Crash, files
<1>14. ASSUME NEW lostBlk \in SUBSET Blocks, NEW lostRev \in SUBSET Blocks,
              PowerLoss(lostBlk, lostRev)
       PROVE  UndoFilesInv'
  <2>1. /\ Forget /\ revPending' = {} /\ PowerLosses /\ lostRev \subseteq revPending
        /\ rev' = [b \in Blocks |-> IF b \in lostRev THEN NULL ELSE rev[b]]
    BY Zenon, <1>14 DEF PowerLoss
  <2>2. \A b \in diskUndo : rev'[b] # NULL
    BY ZenonT(30), <2>1 DEF UndoFilesInv, TypeOK
  <2> QED
    BY <2>1, <2>2, ForgetUndoFiles
<1>15. CASE Start
  <2>1. /\ haveUndo' = diskUndo /\ revPending' \subseteq revPending
        /\ rev' = [b \in Blocks |-> IF b \in diskUndo THEN rev[b] ELSE NULL]
        /\ UNCHANGED <<diskUndo, setFilesToPrune>>
    BY <1>15 DEF Start, LoadBlockIndexDB, disk
  <2>2. pc' \in {"back", "up", "failed"}
    BY Zenon, <1>15 DEF Start, ReplayBlocks, LoadChainTip
  <2>3. \A b \in diskUndo : rev'[b] = rev[b]
    BY Zenon, <2>1 DEF TypeOK
  <2> QED
    BY <2>1, <2>2, <2>3 DEF UndoFilesInv
<1>16. CASE UNCHANGED vars
  BY <1>16 DEF vars, UndoFilesInv
<1> QED
  BY Zenon, <1>1, <1>2, <1>3, <1>4, <1>5, <1>8, <1>9, <1>10, <1>11, <1>12, <1>13, <1>14,
     <1>15, <1>16, ConnectTipUndoFiles DEF Next, Proceed, Disturb, BeginFlush, Shutdown

-----------------------------------------------------------------------------
(* The chains a replay walks *)

LEMMA InOwnChain == \A b \in Blocks : b \in ChainOf[b]
<1>1. Genesis \in ChainOf[Genesis]
  BY TreeAssumption
<1>2. \A b \in NonGenesis : b \in ChainOf[b]
  BY TreeAssumption
<1> QED
  BY Zenon, <1>1, <1>2 DEF NonGenesis

LEMMA CoversGenesis == \A B : Covers(B, Genesis)
BY TreeAssumption DEF Covers

LEMMA CoversParent ==
  ASSUME NEW B, NEW b \in NonGenesis, Covers(B, b)
  PROVE  Covers(B, Prev[b])
<1>1. b # NULL /\ ChainOf[Prev[b]] \subseteq ChainOf[b]
  BY TreeAssumption DEF NonGenesis
<1> QED
  BY <1>1 DEF Covers

LEMMA InitChains == Init => ChainsInv
<1> SUFFICES ASSUME Init PROVE ChainsInv
  OBVIOUS
<1>1. \A B : Covers(B, Genesis) /\ Covers(B, NULL)
  BY TreeAssumption DEF Covers
<1>2. InMemory = {} /\ InMemory \ setDirtyBlockIndex \subseteq OnDisk
  BY DEF Init, InMemory
<1> HIDE DEF Covers
<1> QED
  BY <1>1, <1>2 DEF Init, ChainsInv, NewDb

\* Only the databases and the index on disk matter once the process has ended.
LEMMA ForgetChains ==
  ASSUME ChainsInv, Forget, {db', dbDurable'} \subseteq {db, dbDurable}, UNCHANGED failedWrites
  PROVE  ChainsInv'
<1>1. OnDisk' = OnDisk /\ pc' = "down"
  BY DEF Forget, disk, OnDisk
<1>2. \A d \in {db', dbDurable'} :
        Covers(OnDisk', d.best) /\ Covers(OnDisk', d.headNew) /\ Covers(OnDisk', d.headOld)
  BY Zenon, <1>1 DEF ChainsInv
<1> QED
  BY <1>1, <1>2 DEF ChainsInv

\* Steps of a node that is up leave what is on disk alone.
LEMMA UpChains ==
  ASSUME ChainsInv, UNCHANGED <<db, dbDurable>>, OnDisk' = OnDisk,
         pc = "up", pc' \in {"up", "files"},
         InMemory' \ setDirtyBlockIndex' \subseteq InMemory \ setDirtyBlockIndex,
         Covers(InMemory', tip')
  PROVE  ChainsInv'
<1>1. \A d \in {db', dbDurable'} :
        Covers(OnDisk', d.best) /\ Covers(OnDisk', d.headNew) /\ Covers(OnDisk', d.headOld)
  BY Zenon DEF ChainsInv
<1> QED
  BY <1>1 DEF ChainsInv

LEMMA AcceptBlockChains ==
  ASSUME RInv, NEW b \in NonGenesis, NEW f \in Files, NEW written \in BOOLEAN,
         AcceptBlock(b, f, written)
  PROVE  ChainsInv'
<1>1. /\ pc = "up" /\ UNCHANGED <<db, dbDurable, diskData, diskUndo, pc, haveUndo, tip>>
      /\ b \notin haveData /\ haveData' = haveData \cup {b}
      /\ setDirtyBlockIndex' = setDirtyBlockIndex \cup {b}
      /\ failedWrites' = IF written THEN failedWrites \ {b} ELSE failedWrites \cup {b}
  BY DEF AcceptBlock, disk
<1>2. diskData \subseteq haveData
  BY <1>1 DEF RInv, UInv, UndoFilesInv, BlkInv, InFile
<1>3. OnDisk' = OnDisk /\ InMemory \subseteq InMemory'
      /\ InMemory' \ setDirtyBlockIndex' \subseteq InMemory \ setDirtyBlockIndex
  BY ONLY <1>1, <1>2 DEF OnDisk, InMemory
<1>4. Covers(InMemory', tip')
  BY Zenon, <1>1, <1>3 DEF RInv, ChainsInv, Covers
<1> QED
  BY Zenon, <1>1, <1>3, <1>4, UpChains DEF RInv

LEMMA ConnectTipChains ==
  ASSUME RInv, NEW b \in NonGenesis, ConnectTip(b)
  PROVE  ChainsInv'
<1>1. /\ pc = "up" /\ UNCHANGED <<db, dbDurable, diskData, diskUndo, pc, haveData, failedWrites>>
      /\ tip' = b /\ Prev[b] = tip /\ b \in haveData \cap blk /\ haveUndo' = haveUndo \cup {b}
      /\ setDirtyBlockIndex' = setDirtyBlockIndex \cup (IF b \in haveUndo THEN {} ELSE {b})
  BY Zenon DEF ConnectTip, disk
<1>2. b \notin failedWrites
  BY <1>1 DEF RInv, UInv, BlkInv
<1>3. OnDisk' = OnDisk /\ InMemory' = InMemory \cup {b}
      /\ InMemory' \ setDirtyBlockIndex' \subseteq InMemory \ setDirtyBlockIndex
  BY ONLY <1>1, <1>2 DEF OnDisk, InMemory
<1>4. ChainOf[b] = {b} \cup ChainOf[tip] /\ tip # NULL
  BY <1>1, TreeAssumption DEF RInv, UInv, TypeOK
<1>5. Covers(InMemory', tip')
  BY Zenon, <1>1, <1>3, <1>4 DEF RInv, ChainsInv, Covers
<1> QED
  BY Zenon, <1>1, <1>3, <1>5, UpChains DEF RInv

LEMMA DisconnectTipChains ==
  ASSUME RInv, DisconnectTip
  PROVE  ChainsInv'
<1>1. /\ pc = "up" /\ UNCHANGED <<db, dbDurable, disk, pc, index, files>>
      /\ tip' = Prev[tip] /\ tip # Genesis
  BY Zenon DEF DisconnectTip
<1>2. ChainOf[tip'] \subseteq ChainOf[tip] /\ tip # NULL
  BY <1>1, TreeAssumption DEF RInv, UInv, TypeOK, NonGenesis
<1>3. UNCHANGED <<OnDisk, InMemory, setDirtyBlockIndex>>
  BY <1>1 DEF OnDisk, InMemory, disk, index, files
<1>4. Covers(InMemory', tip')
  BY Zenon, <1>1, <1>2, <1>3 DEF RInv, ChainsInv, Covers
<1> QED
  BY <1>1, <1>3, <1>4, UpChains DEF RInv

LEMMA FlushStateChains ==
  ASSUME fPruneMode = FALSE, RInv, NEW F \in SUBSET Files, FlushStateToDisk(F)
  PROVE  ChainsInv'
<1>1. F = {}
  BY DEF FlushStateToDisk, Prunable
<1>2. /\ pc = "up" /\ pc' = "files"
      /\ UNCHANGED <<db, dbDurable, disk, files, tip>>
      /\ haveData' = haveData /\ haveUndo' = haveUndo /\ setDirtyBlockIndex' = setDirtyBlockIndex
  BY Zenon, <1>1 DEF FlushStateToDisk, InFile
<1>3. UNCHANGED <<OnDisk, InMemory>>
  BY <1>2 DEF OnDisk, InMemory, disk, files
<1>4. Covers(InMemory', tip')
  BY ZenonT(30), <1>2, <1>3 DEF RInv, ChainsInv, Covers
<1> QED
  BY <1>2, <1>3, <1>4, UpChains DEF RInv

\* A step that leaves both indexes and the tip alone.
LEMMA SameChains ==
  ASSUME ChainsInv, UNCHANGED <<db, dbDurable, OnDisk, InMemory, setDirtyBlockIndex, tip>>,
         pc # "down", pc' \notin {"back", "failed"},
         pc' \in {"unlink", "coins", "replayed"} => Covers(OnDisk, tip)
  PROVE  ChainsInv'
<1>1. \A d \in {db', dbDurable'} :
        Covers(OnDisk', d.best) /\ Covers(OnDisk', d.headNew) /\ Covers(OnDisk', d.headOld)
  BY Zenon DEF ChainsInv
<1>2. Covers(InMemory', tip') /\ (Covers(OnDisk, tip) => Covers(OnDisk', tip'))
  BY Zenon DEF ChainsInv
<1> QED
  BY <1>1, <1>2 DEF ChainsInv

LEMMA FlushFilesChains ==
  ASSUME ChainsInv, FlushFiles
  PROVE  ChainsInv'
<1>1. pc = "files" /\ pc' = "index" /\ UNCHANGED <<db, dbDurable, disk, failedWrites, tip, index>>
  BY Zenon DEF FlushFiles
<1>2. UNCHANGED <<OnDisk, InMemory, setDirtyBlockIndex>>
  BY <1>1 DEF OnDisk, InMemory, disk, index
<1> QED
  BY <1>1, <1>2, SameChains

\* The entries that are not dirty are on disk already, so that the index on disk
\* becomes the one in memory, which has the chain of the tip and all that was on
\* disk before.
LEMMA WriteBlockIndexChains ==
  ASSUME RInv, WriteBlockIndex
  PROVE  ChainsInv'
<1>1. /\ pc = "index" /\ pc' = "unlink" /\ setDirtyBlockIndex' = {}
      /\ diskData' = (diskData \ setDirtyBlockIndex) \cup (haveData \cap setDirtyBlockIndex)
      /\ diskUndo' = (diskUndo \ setDirtyBlockIndex) \cup (haveUndo \cap setDirtyBlockIndex)
      /\ UNCHANGED <<db, dbDurable, failedWrites, haveData, haveUndo, tip>>
  BY Zenon DEF WriteBlockIndex, Saved, files
<1>2. InMemory \ setDirtyBlockIndex \subseteq OnDisk /\ Covers(InMemory, tip)
  BY <1>1 DEF RInv, ChainsInv
<1>3. diskData \subseteq haveData /\ diskUndo \subseteq haveUndo
  BY <1>1 DEF RInv, UInv, UndoFilesInv, BlkInv, InFile
<1>4. InMemory' = InMemory /\ InMemory \subseteq OnDisk' /\ OnDisk \subseteq InMemory
  BY ONLY <1>1, <1>2, <1>3 DEF OnDisk, InMemory
<1>5. \A h : Covers(OnDisk, h) => Covers(OnDisk', h)
  BY ONLY <1>4 DEF Covers
<1>6. \A d \in {db', dbDurable'} :
        Covers(OnDisk', d.best) /\ Covers(OnDisk', d.headNew) /\ Covers(OnDisk', d.headOld)
  BY Zenon, <1>1, <1>5 DEF RInv, ChainsInv
<1>7. Covers(OnDisk', tip') /\ Covers(InMemory', tip')
  BY ONLY <1>1, <1>2, <1>4 DEF Covers
<1> QED
  BY <1>1, <1>4, <1>6, <1>7 DEF ChainsInv

LEMMA UnlinkChains ==
  ASSUME ChainsInv, NEW full \in BOOLEAN, UnlinkPrunedFiles(full)
  PROVE  ChainsInv'
<1>1. /\ pc = "unlink" /\ pc' \in {"coins", "up"}
      /\ UNCHANGED <<db, dbDurable, disk, failedWrites, haveData, haveUndo, setDirtyBlockIndex, tip>>
  BY Zenon DEF UnlinkPrunedFiles
<1>2. UNCHANGED <<OnDisk, InMemory>>
  BY <1>1 DEF OnDisk, InMemory, disk
<1>3. Covers(OnDisk, tip)
  BY <1>1 DEF ChainsInv
<1> QED
  BY <1>1, <1>2, <1>3, SameChains

\* The databases only ever name the tip or blocks they named before.
LEMMA WriteDbChains ==
  ASSUME ChainsInv, Writing, NEW d, WriteDb(d), UNCHANGED <<disk, failedWrites>>,
         {d.best, d.headNew, d.headOld} \subseteq {NULL, tip, db.best, db.headOld}
  PROVE  /\ OnDisk' = OnDisk
         /\ \A x \in {db', dbDurable'} :
              Covers(OnDisk', x.best) /\ Covers(OnDisk', x.headNew) /\ Covers(OnDisk', x.headOld)
<1>1. OnDisk' = OnDisk /\ {db', dbDurable'} \subseteq {db, dbDurable, d}
  BY ZenonT(30) DEF WriteDb, OnDisk, disk
<1>2. \A h \in {NULL, tip, db.best, db.headOld} : Covers(OnDisk, h)
  BY DEF ChainsInv, Writing, Covers
<1>3. Covers(OnDisk, d.best) /\ Covers(OnDisk, d.headNew) /\ Covers(OnDisk, d.headOld)
  BY <1>2, SMTT(30)
<1> QED
  BY <1>1, <1>3 DEF ChainsInv

LEMMA PartialBatchChains ==
  ASSUME ChainsInv, NEW S \in SUBSET Outpoints, PartialBatch(S)
  PROVE  ChainsInv'
<1> DEFINE d == [coins |-> Batch(S), best |-> NULL, headNew |-> tip,
                 headOld |-> IF InTransition(db) THEN db.headOld ELSE db.best]
<1>1. Writing /\ WriteDb(d)
      /\ UNCHANGED <<disk, failedWrites, pc, haveData, haveUndo, setDirtyBlockIndex, tip>>
  BY Zenon DEF PartialBatch, files, index
<1>2. {d.best, d.headNew, d.headOld} \subseteq {NULL, tip, db.best, db.headOld}
  OBVIOUS
<1> HIDE DEF d
<1>3. OnDisk' = OnDisk
         /\ \A x \in {db', dbDurable'} :
              Covers(OnDisk', x.best) /\ Covers(OnDisk', x.headNew) /\ Covers(OnDisk', x.headOld)
  BY <1>1, <1>2, WriteDbChains
<1>4. InMemory' = InMemory
  BY <1>1 DEF InMemory
<1> QED
  BY <1>1, <1>3, <1>4 DEF ChainsInv, Writing

\* A flush that ends, or fails, leaves a node that is up or none.
LEMMA EndFlushChains ==
  ASSUME ChainsInv, Writing, UNCHANGED failedWrites,
         Forget \/ (pc' = "up" /\ UNCHANGED <<disk, tip, index>>),
         \A x \in {db', dbDurable'} :
              Covers(OnDisk, x.best) /\ Covers(OnDisk, x.headNew) /\ Covers(OnDisk, x.headOld)
  PROVE  ChainsInv'
<1>1. OnDisk' = OnDisk
  BY DEF OnDisk, Forget, disk
<1>2. CASE Forget
  BY SMT, ZenonT(30), <1>1, <1>2 DEF ChainsInv, Forget
<1>3. CASE pc' = "up" /\ UNCHANGED <<disk, tip, index>>
  <2>1. UNCHANGED <<InMemory, setDirtyBlockIndex>>
    BY <1>3 DEF InMemory, index
  <2> QED
    BY <1>1, <1>3, <2>1 DEF ChainsInv, Writing
<1> QED
  BY <1>2, <1>3

LEMMA FinalBatchChains ==
  ASSUME ChainsInv, FinalBatch
  PROVE  ChainsInv'
<1> DEFINE d == [coins |-> Batch(Dirty), best |-> tip, headNew |-> NULL, headOld |-> NULL]
<1>1. Writing /\ WriteDb(d) /\ UNCHANGED <<disk, failedWrites>>
  BY Zenon DEF FinalBatch, files, Forget
<1>2. {d.best, d.headNew, d.headOld} \subseteq {NULL, tip, db.best, db.headOld}
  OBVIOUS
<1> HIDE DEF d
<1>3. OnDisk' = OnDisk
         /\ \A x \in {db', dbDurable'} :
              Covers(OnDisk', x.best) /\ Covers(OnDisk', x.headNew) /\ Covers(OnDisk', x.headOld)
  BY ZenonT(30), <1>1, <1>2, WriteDbChains
<1>4. Forget \/ (pc' = "up" /\ UNCHANGED <<disk, tip, index>>)
  BY Zenon DEF FinalBatch
<1> QED
  BY <1>1, <1>3, <1>4, EndFlushChains

LEMMA BatchFailsChains ==
  ASSUME ChainsInv, NEW S \in SUBSET Outpoints, BatchFails(S)
  PROVE  ChainsInv'
<1>1. Writing /\ UNCHANGED <<db, dbDurable, failedWrites>>
  BY ZenonT(30) DEF BatchFails, files
<1>2. Forget \/ (pc' = "up" /\ UNCHANGED <<disk, tip, index>>)
  BY Zenon DEF BatchFails
<1>3. \A x \in {db', dbDurable'} :
        Covers(OnDisk, x.best) /\ Covers(OnDisk, x.headNew) /\ Covers(OnDisk, x.headOld)
  BY Zenon, <1>1 DEF ChainsInv
<1> QED
  BY <1>1, <1>2, <1>3, EndFlushChains

\* The heads are in the index, so the start does not fail.
LEMMA StartChains ==
  ASSUME RInv, Start
  PROVE  ChainsInv'
<1>1. /\ haveData' = diskData /\ haveUndo' = diskUndo /\ failedWrites' = failedWrites \cap diskData
      /\ setDirtyBlockIndex' = {} /\ UNCHANGED <<db, dbDurable, diskData, diskUndo>>
  BY Zenon DEF Start, LoadBlockIndexDB, disk
<1>2. OnDisk' = OnDisk /\ InMemory' = OnDisk /\ InMemory' \ setDirtyBlockIndex' \subseteq OnDisk'
  BY ONLY <1>1 DEF OnDisk, InMemory
<1>3. \A h \in {db.best, db.headNew, db.headOld} :
        /\ Covers(OnDisk, h) /\ Covers(OnDisk, BlockOf(h))
        /\ BlockOf(h) \in diskIndex \cup {Genesis}
  <2>1. \A h \in {db.best, db.headNew, db.headOld} : Covers(OnDisk, h) /\ BlockOf(h) \in Blocks
    BY TreeAssumption DEF RInv, UInv, ChainsInv, TypeOK, Database, Hash, BlockOf
  <2>2. Covers(OnDisk, Genesis) /\ OnDisk \subseteq diskIndex
    BY ZenonT(30), CoversGenesis DEF RInv, UInv, BlkInv, OnDisk
  <2> QED
    BY <2>1, <2>2, InOwnChain, TreeAssumption DEF Covers, BlockOf
<1>4. CASE InTransition(db)
  <2>1. db.headNew = BlockOf(db.headNew)
    BY <1>4 DEF InTransition, BlockOf
  <2>2. tip' = db.headNew /\ pindex' = BlockOf(db.headOld) /\ pc' = "back"
    BY Zenon, <1>3, <1>4, <2>1 DEF Start, ReplayBlocks, LoadChainTip
  <2> QED
    BY Zenon, <1>1, <1>2, <1>3, <2>2 DEF RInv, ChainsInv
<1>5. CASE ~InTransition(db)
  <2>1. tip' = BlockOf(db.best) /\ pc' = "up"
    BY Zenon, <1>3, <1>5 DEF Start, ReplayBlocks, LoadChainTip
  <2> QED
    BY Zenon, <1>1, <1>2, <1>3, <2>1 DEF RInv, ChainsInv
<1> QED
  BY Zenon, <1>4, <1>5

\* A step of the replay that finds what it needs.
LEMMA ReplayChains ==
  ASSUME ChainsInv, pc = "back", pc' \in {"back", "replayed"},
         UNCHANGED <<db, dbDurable, disk, files, index, tip>>, Covers(OnDisk, pindex')
  PROVE  ChainsInv'
<1>1. UNCHANGED <<OnDisk, InMemory, setDirtyBlockIndex>>
  BY DEF OnDisk, InMemory, disk, files, index
<1> QED
  BY <1>1 DEF ChainsInv

LEMMA RollbackChains ==
  ASSUME RInv, RollbackBlock
  PROVE  ChainsInv'
<1>1. pc = "back" /\ pindex \in NonGenesis /\ pindex # NULL
  BY GenesisBelow, TreeAssumption DEF RInv, UInv, RollbackBlock, TypeOK, NonGenesis
<1>2. pindex \in OnDisk
  BY Zenon, <1>1, InOwnChain DEF RInv, ChainsInv, Covers, NonGenesis
<1>3. pindex \in blk /\ pindex \in haveUndo /\ rev[pindex] # NULL
  BY ZenonT(30), <1>1, <1>2 DEF RInv, UInv, UndoFilesInv, OnDisk, BlkInv
<1>4. pindex \in haveData
  BY <1>1, <1>2 DEF RInv, UInv, UndoFilesInv, OnDisk, BlkInv, InFile
<1>5. pindex' = Prev[pindex] /\ UNCHANGED <<pc, db, dbDurable, disk, files, index, tip>>
  BY Zenon, <1>3, <1>4 DEF RollbackBlock
<1>6. Covers(OnDisk, pindex')
  BY Zenon, <1>1, <1>5, CoversParent DEF RInv, ChainsInv
<1> QED
  BY <1>1, <1>5, <1>6, ReplayChains, SMTT(30) DEF RInv

LEMMA RollforwardChains ==
  ASSUME RInv, NEW b \in NonGenesis, RollforwardBlock(b)
  PROVE  ChainsInv'
<1>1. pc = "back" /\ b \in ChainOf[tip] /\ Prev[b] = pindex /\ tip # NULL /\ b # Genesis
  BY SMT, ZenonT(30), TreeAssumption DEF RInv, UInv, RollforwardBlock, TypeOK, NonGenesis
<1>2. b \in OnDisk
  BY <1>1 DEF RInv, ChainsInv, Covers
<1>3. b \in haveData \cap blk
  BY <1>1, <1>2 DEF RInv, UInv, UndoFilesInv, OnDisk, BlkInv, InFile
<1>4. pindex' = b /\ UNCHANGED <<pc, db, dbDurable, disk, files, index, tip>>
  BY ZenonT(30), <1>3 DEF RollforwardBlock
<1>5. Covers(OnDisk, pindex) /\ pindex # NULL
  BY <1>1, TreeAssumption DEF RInv, UInv, ChainsInv, TypeOK
<1>6. Covers(OnDisk, pindex')
  BY <1>1, <1>2, <1>4, <1>5, TreeAssumption DEF Covers
<1> QED
  BY Zenon, <1>1, <1>4, <1>6, ReplayChains DEF RInv

LEMMA NextChains ==
  ASSUME fPruneMode = FALSE, "index" \notin DiskErrors, RInv, [Next]_vars
  PROVE  ChainsInv'
<1>1. CASE EndReplay
  <2>1. pc = "back" /\ pc' = "replayed" /\ pindex' = Genesis
        /\ UNCHANGED <<db, dbDurable, disk, files, index, tip>>
    BY Zenon, <1>1 DEF EndReplay
  <2>2. Covers(OnDisk, pindex')
    BY ZenonT(30), <2>1, CoversGenesis
  <2> QED
    BY <2>1, <2>2, ReplayChains DEF RInv
<1>2. CASE Crash
  BY <1>2, ForgetChains DEF Crash, files, RInv
<1>3. ASSUME NEW lostBlk \in SUBSET Blocks, NEW lostRev \in SUBSET Blocks,
             PowerLoss(lostBlk, lostRev)
      PROVE  ChainsInv'
  <2>1. Forget /\ {db', dbDurable'} \subseteq {db, dbDurable} /\ UNCHANGED failedWrites
    BY Zenon, <1>3 DEF PowerLoss
  <2> QED
    BY <2>1, ForgetChains DEF RInv
<1>4. CASE UNCHANGED vars
  <2>1. UNCHANGED <<OnDisk, InMemory>>
    BY <1>4 DEF vars, OnDisk, InMemory
  <2> QED
    BY <1>4, <2>1, Zenon DEF vars, RInv, ChainsInv
<1>5. CASE Proceed
  BY <1>1, <1>5, FlushFilesChains, WriteBlockIndexChains, UnlinkChains, PartialBatchChains,
     FinalBatchChains, RollbackChains, RollforwardChains DEF Proceed, RInv
<1>6. CASE Disturb
  BY <1>2, <1>3, <1>6, BatchFailsChains DEF Disturb, IndexWriteFails, RInv
<1> QED
  BY Zenon, <1>4, <1>5, <1>6, ConnectTipChains, AcceptBlockChains, DisconnectTipChains,
     FlushStateChains, StartChains DEF Next, BeginFlush, Shutdown

-----------------------------------------------------------------------------
(* Theorems about recovery *)

\* The index on disk never refers to a block that is not committed to its blk
\* file, unless WriteBlockToDisk failed for that very block and AcceptBlock
\* recorded it all the same: FlushStateToDisk may commit the last file only,
\* because FindBlockPos commits a file when it leaves it.  This holds for any
\* number of files, with and without pruning, crashes and losses of power, and
\* after writes of blocks, of the index and of coins that fail.
THEOREM BlocksBeforeIndex == Spec => []IndexedBlocksSafe
<1>1. Init => TypeOK /\ BlkInv
  BY InitTypes, InitBlk
<1>2. (TypeOK /\ BlkInv) /\ [Next]_vars => (TypeOK /\ BlkInv)'
  BY NextTypes, NextBlk
<1>3. TypeOK /\ BlkInv => IndexedBlocksSafe
  BY DEF BlkInv, IndexedBlocksSafe
<1> QED
  BY <1>1, <1>2, <1>3, PTL DEF Spec

\* Without pruning, unless power is lost while there are several block files,
\* and as long as the index can be written, no start fails: ReplayBlocks finds
\* the heads in the index, and every block and all the undo data on both
\* branches, whatever crash, failing write of a block or of coins, or
\* interrupted replay came before.  (With pruning, with undo data in a file that
\* is not the last, or when FlushStateToDisk loses the dirty entries of an index
\* it fails to write, TLC has a counterexample.)
THEOREM ReplayFindsItsBlocks ==
  ASSUME fPruneMode = FALSE, PowerLosses => MaxFile = 0, "index" \notin DiskErrors
  PROVE  Spec => []RecoverySucceeds
<1>1. Init => RInv
  BY InitTypes, InitBlk, InitUndoFiles, InitChains DEF RInv, UInv
<1>2. RInv /\ [Next]_vars => RInv'
  BY ZenonT(30), NextTypes, NextBlk, NextUndoFiles, NextChains DEF RInv, UInv
<1>3. RInv => RecoverySucceeds
  BY DEF RInv, ChainsInv, RecoverySucceeds
<1> QED
  BY <1>1, <1>2, <1>3, PTL DEF Spec

\* With a single block file the same holds for undo data: what the index on
\* disk says is there was written by ConnectBlock and is committed to the rev
\* file, whatever crash, loss of power or failing write there was.  (With two
\* files FlushBlockFile misses undo data of the earlier one, and TLC has a
\* counterexample.)
THEOREM UndoBeforeIndex ==
  ASSUME fPruneMode = FALSE, MaxFile = 0
  PROVE  Spec => []IndexedUndoSafe
<1>1. Init => UInv
  BY InitTypes, InitBlk, InitUndoFiles DEF UInv
<1>2. UInv /\ [Next]_vars => UInv'
  BY Zenon, NextTypes, NextBlk, NextUndoFiles DEF UInv
<1>3. UInv => IndexedUndoSafe
  BY DEF UInv, UndoFilesInv, IndexedUndoSafe
<1> QED
  BY <1>1, <1>2, <1>3, PTL DEF Spec
=============================================================================
