-------------------------- MODULE BlockTreeProofs ---------------------------
(***************************************************************************)
(* For every tree of blocks: what the status bits of the block index, the  *)
(* queue of blocks waiting for an ancestor and the active chain promise    *)
(* each other while blocks arrive, chains are activated, files are pruned  *)
(* and the operator invalidates and reconsiders blocks.  A theorem about   *)
(* nodes that never prune, or about calls that do not overlap, says so in  *)
(* its assumptions (NoPruning, Serial); the others hold for any number of  *)
(* threads.                                                                *)
(***************************************************************************)
EXTENDS BlockTreeInvariant

USE DEF Release, Hold, Free, Holds, index, files, chain, threads, scope, vars,
        VALID_UNKNOWN, VALID_TREE, VALID_TRANSACTIONS, VALID_SCRIPTS

-----------------------------------------------------------------------------
(* Failed flags have a cause *)

LEMMA InitFInv == Init => FInv
  BY InitIInv DEF FInv, FailedInv, Init

LEMMA NextFInv == FInv /\ [NextWithInvalidate]_vars => FInv'
<1> SUFFICES ASSUME FInv, [NextWithInvalidate]_vars PROVE FailedInv'
  BY NextIInv DEF FInv, NextWithOperator
<1>1. ASSUME failedChild' \subseteq failedChild, failedValid \subseteq failedValid'
      PROVE  FailedInv'
  BY <1>1 DEF FailedInv, FInv
<1>2. CASE UNCHANGED vars
  BY <1>1, <1>2
<1>3. ASSUME NEW c \in Callers, Arrival(c) PROVE FailedInv'
  BY <1>1, <1>3 DEF Arrival, AcceptBlockHeader, IgnoreBlock, RejectBlock, ReceiveBlock
<1>4. ASSUME NEW c \in Callers, FindMostWorkChain(c) PROVE FailedInv'
  <2>1. CASE UNCHANGED failedChild
    BY <1>1, <1>4, <2>1 DEF FindMostWorkChain
  <2>2. ASSUME NEW b \in setBlockIndexCandidates, NEW x \in ChainOf[b], GiveUp(b, x),
               x \in failed, failedValid' = failedValid
        PROVE  FailedInv'
    <3>1. b \in Blocks /\ x \in Blocks /\ ChainOf[b] \subseteq Blocks
      BY TreeAssumption DEF IInv, TypeOK, FInv
    <3>2. ChainOf[x] \cap failedValid # {}
      BY <3>1, <2>2, ChainBasics DEF failed, FailedInv, FInv
    <3>3. \A y \in PathSet(b, x) : x \in ChainOf[y]
      BY <3>1, ChainLinear, TreeAssumption DEF PathSet
    <3>4. \A y \in PathSet(b, x) : ChainOf[x] \subseteq ChainOf[y]
      BY <3>1, <3>3, ChainTransitive DEF PathSet
    <3> QED
      BY <2>2, <3>2, <3>4 DEF GiveUp, FailedInv, FInv
  <2> QED
    BY <1>4, <2>1, <2>2 DEF FindMostWorkChain, GiveUp
<1>5. ASSUME NEW c \in Callers, InvalidateTip(c) PROVE FailedInv'
  BY ZenonT(30), <1>5 DEF InvalidateTip, FailedInv, IInv, LockInv, chainActive, FInv
<1>6. ASSUME NEW c \in Callers, Continue(c),
             ~FindMostWorkChain(c), ~InvalidateTip(c)
      PROVE  FailedInv'
  BY SMT, ZenonT(30), <1>1, <1>6
  DEF Continue, LinkBlock, FinishAccept, BeginStep, DisconnectTip, ConnectTipFails,
      ConnectTip, FinishInvalidate, AbortNode
<1>7. ASSUME NEW c \in Callers, NEW b \in Blocks, InvalidateBlock(c, b) PROVE FailedInv'
  BY <1>1, <1>7 DEF InvalidateBlock
<1> QED
  BY <1>2, <1>3, <1>4, <1>5, <1>6, <1>7 DEF NextWithInvalidate, Next

\* A block carries a failed flag only if it or an ancestor was found invalid
\* or was invalidated (FindMostWorkChain and InvalidateBlock in
\* src/main.cpp), for every tree and any number of threads.
THEOREM FailedCaused == SpecWithInvalidate => []FailedHasCause
<1>1. FInv => FailedHasCause
  <2> SUFFICES ASSUME FInv, NEW b \in failed
               PROVE  ChainOf[b] \cap failedValid # {}
    BY DEF FailedHasCause
  <2> QED
    BY Zenon, ChainBasics DEF FInv, FailedInv, failed, IInv, TypeOK
<1> QED
  BY <1>1, InitFInv, NextFInv, PTL DEF SpecWithInvalidate

-----------------------------------------------------------------------------
(* The active chain is valid *)

LEMMA InitAInv == Init => AInv
  BY InitFInv, TreeAssumption, VerdictAssumption DEF AInv, VerdictInv, Init, NonGenesis

\* No block of a chain of received blocks that passed ConnectBlock failed.
LEMMA ConnectedNotFailed ==
  ASSUME AInv, NEW b \in Blocks, ChainOf[b] \subseteq hasTx, ChainOf[b] \cap BadConnect = {}
  PROVE  ChainOf[b] \cap failed = {}
<1> SUFFICES ASSUME NEW x \in ChainOf[b], x \in failed PROVE FALSE
  OBVIOUS
<1>1. x \in Blocks /\ ChainOf[x] \subseteq ChainOf[b]
  BY ChainBasics, ChainTransitive
<1>2. ChainOf[x] \cap failedValid # {}
  BY ChainBasics DEF AInv, FInv, FailedInv, failed
<1> QED
  BY <1>1, <1>2 DEF AInv, VerdictInv

\* Raising a block to a level below SCRIPTS leaves the checked blocks alone.
LEMMA RaiseBelowScripts ==
  ASSUME TypeOK, NEW b \in Blocks, NEW n \in {VALID_TREE, VALID_TRANSACTIONS},
         validity' = RaiseValidity(b, n)
  PROVE  \A x \in Blocks : validity'[x] = VALID_SCRIPTS <=> validity[x] = VALID_SCRIPTS
BY DEF RaiseValidity, TypeOK

LEMMA NextAInv == AInv /\ [Next]_vars => AInv'
<1> SUFFICES ASSUME AInv, [Next]_vars PROVE VerdictInv'
  BY NextFInv DEF AInv, NextWithInvalidate
<1>0. ChainOf[tip] \subseteq Blocks /\ tip \in Blocks
  BY ChainBasics DEF TypeOK, AInv, FInv, IInv
<1>00. \A b \in NonGenesis : b \in Blocks /\ Prev[b] \in Blocks
  BY Zenon, TreeAssumption DEF NonGenesis
<1>1. CASE UNCHANGED vars
  BY Zenon, <1>1 DEF VerdictInv, AInv
<1>2. ASSUME \A x \in Blocks : validity'[x] = VALID_SCRIPTS <=> validity[x] = VALID_SCRIPTS,
             UNCHANGED <<tip, failedValid, hasTx>>,
             \A c \in Callers : pc'[c] # "invalidate"
      PROVE  VerdictInv'
  BY <1>0, <1>00, <1>2 DEF VerdictInv, AInv
<1>3. ASSUME NEW c \in Callers, NEW b \in NonGenesis, AcceptBlockHeader(b) PROVE VerdictInv'
  <2>1. \A x \in Blocks : validity'[x] = VALID_SCRIPTS <=> validity[x] = VALID_SCRIPTS
    BY <1>3, <1>00, RaiseBelowScripts
    DEF AcceptBlockHeader, AddToBlockIndex, AInv, FInv, IInv
  <2> QED
    BY Zenon, <1>2, <1>3, <2>1 DEF AcceptBlockHeader, VerdictInv, AInv
<1>4. ASSUME NEW c \in Callers, NEW b \in NonGenesis, NEW fRequested \in BOOLEAN,
             IgnoreBlock(c, b, fRequested)
      PROVE  VerdictInv'
  <2>1. \A x \in Blocks : validity'[x] = VALID_SCRIPTS <=> validity[x] = VALID_SCRIPTS
    BY <1>4, <1>00, RaiseBelowScripts DEF IgnoreBlock, AddToBlockIndex, AInv, FInv, IInv
  <2>2. \A x \in Callers : pc'[x] # "invalidate"
    BY <1>4 DEF IgnoreBlock, VerdictInv, AInv
  <2> QED
    BY <1>2, <1>4, <2>1, <2>2 DEF IgnoreBlock
<1>5. ASSUME NEW c \in Callers, NEW b \in NonGenesis, NEW fRequested \in BOOLEAN,
             RejectBlock(c, b, fRequested)
      PROVE  VerdictInv'
  <2>1. \A x \in Blocks : validity'[x] = VALID_SCRIPTS <=> validity[x] = VALID_SCRIPTS
    BY Zenon, <1>5, <1>00, RaiseBelowScripts DEF RejectBlock, AddToBlockIndex, AInv, FInv, IInv
  <2> QED
    BY Zenon, <1>0, <1>00, <1>5, <2>1 DEF RejectBlock, VerdictInv, AInv
<1>6. ASSUME NEW c \in Callers, NEW b \in NonGenesis, NEW fRequested \in BOOLEAN,
             ReceiveBlock(c, b, fRequested)
      PROVE  VerdictInv'
  <2>1. \A x \in Blocks : validity'[x] = VALID_SCRIPTS <=> validity[x] = VALID_SCRIPTS
    BY Zenon, <1>6, <1>00, RaiseBelowScripts DEF ReceiveBlock, AInv, FInv, IInv
  <2>2. \A x \in Callers : pc'[x] # "invalidate"
    BY <1>6 DEF ReceiveBlock, VerdictInv, AInv
  <2> QED
    BY <1>0, <1>00, <1>6, <2>1 DEF ReceiveBlock, VerdictInv, AInv
<1>7. ASSUME NEW c \in Callers,
             (\E b \in NonGenesis : LinkBlock(c, b)) \/ FinishAccept(c) \/ BeginStep(c)
             \/ FindMostWorkChain(c)
      PROVE  VerdictInv'
  <2>1. UNCHANGED <<validity, tip, failedValid, hasTx>>
    BY ZenonT(30), <1>7 DEF LinkBlock, FinishAccept, BeginStep, FindMostWorkChain
  <2>2. \A x \in Callers : pc'[x] # "invalidate"
    BY SMT, ZenonT(30), <1>7
    DEF LinkBlock, FinishAccept, BeginStep, FindMostWorkChain, Return, VerdictInv,
        TypeOK, AInv, FInv, IInv
  <2> QED
    BY Zenon, <1>2, <2>1, <2>2
<1>8. ASSUME NEW c \in Callers, DisconnectTip(c) PROVE VerdictInv'
  <2>1. UNCHANGED <<validity, failedValid, hasTx>>
    BY Zenon, <1>8 DEF DisconnectTip, AbortNode
  <2>2. \A x \in Callers : pc'[x] # "invalidate"
    BY <1>8
    DEF DisconnectTip, AbortNode, EndStep, Return, VerdictInv, TypeOK, AInv, FInv, IInv
  <2>3. tip \in NonGenesis /\ ChainOf[Prev[tip]] \subseteq ChainOf[tip]
    <3>1. tip \notin ChainOf[pindexMostWork[c]] /\ pindexMostWork[c] \in Blocks /\ tip \in Blocks
      BY ZenonT(30), <1>8 DEF DisconnectTip, LockInv, TypeOK, AInv, FInv, IInv
    <3> QED
      BY ONLY <3>1, ChainBasics, TreeAssumption DEF NonGenesis
  <2>4. ChainOf[tip'] \subseteq ChainOf[tip]
    BY <1>8, <2>3 DEF DisconnectTip, AbortNode
  <2> QED
    BY Zenon, <2>1, <2>2, <2>4 DEF VerdictInv, AInv
<1>9. ASSUME NEW c \in Callers, ConnectTipFails(c) PROVE VerdictInv'
  <2>1. UNCHANGED <<validity, tip, hasTx>>
    BY Zenon, <1>9 DEF ConnectTipFails, AbortNode
  <2>2. \A x \in Callers : pc'[x] # "invalidate"
    BY Zenon, <1>9 DEF ConnectTipFails, AbortNode, VerdictInv, TypeOK, AInv, FInv, IInv
  <2>3. failedValid' \subseteq failedValid \cup BadConnect
    BY Zenon, <1>9 DEF ConnectTipFails, AbortNode
  <2> QED
    BY Zenon, <2>1, <2>2, <2>3 DEF VerdictInv, AInv
<1>10. ASSUME NEW c \in Callers, ConnectTip(c) PROVE VerdictInv'
  <2> DEFINE b == NextToConnect(c)
  <2>1. /\ b \in NonGenesis /\ Prev[b] = tip /\ ChainOf[b] = {b} \cup ChainOf[tip]
        /\ ChainOf[b] \subseteq hasTx
    BY Zenon, <1>10, NextToConnectFacts DEF ConnectTip, AInv, FInv
  <2>2. /\ b \notin BadConnect /\ tip' = b
        /\ validity' = RaiseValidity(b, VALID_SCRIPTS)
        /\ UNCHANGED <<failedValid, hasTx>>
    BY Zenon, <1>10 DEF ConnectTip
  <2>3. \A x \in Callers : pc'[x] # "invalidate"
    BY <1>10 DEF ConnectTip, EndStep, Return, VerdictInv, TypeOK, AInv, FInv, IInv
  <2> HIDE DEF b
  <2>4. ChainOf[b] \cap BadConnect = {}
    BY Zenon, <2>1, <2>2 DEF VerdictInv, AInv
  <2>5. b \notin failed
    BY Zenon, <1>00, <2>1, <2>4, ConnectedNotFailed
  <2>6. /\ validity'[b] = VALID_SCRIPTS
        /\ \A x \in Blocks : x # b => validity'[x] = validity[x]
    BY <2>1, <2>2, <2>5 DEF RaiseValidity, TypeOK, AInv, FInv, IInv
  <2>7. \A x \in ChainOf[b] \ {Genesis} : validity'[x] = VALID_SCRIPTS
    BY Zenon, <1>0, <2>1, <2>6 DEF VerdictInv, AInv
  <2>8. \A x \in NonGenesis : validity'[x] = VALID_SCRIPTS =>
          Prev[x] = Genesis \/ validity'[Prev[x]] = VALID_SCRIPTS
    <3> SUFFICES ASSUME NEW x \in NonGenesis, validity'[x] = VALID_SCRIPTS,
                        Prev[x] # Genesis
                 PROVE  validity'[Prev[x]] = VALID_SCRIPTS
      OBVIOUS
    <3>1. CASE x = b
      BY Zenon, <3>1, <1>0, <2>1, <2>7, ChainBasics
    <3>2. CASE x # b
      BY Zenon, <3>2, <1>00, <2>6 DEF VerdictInv, AInv
    <3> QED
      BY Zenon, <3>1, <3>2
  <2> QED
    BY ZenonT(30), SMTT(30), <2>1, <2>2, <2>3, <2>7, <2>8 DEF VerdictInv, AInv
<1>11. ASSUME NEW c \in Callers, InvalidateTip(c) \/ FinishInvalidate(c) PROVE VerdictInv'
  BY <1>11 DEF InvalidateTip, FinishInvalidate, VerdictInv, AInv
<1> QED
  BY <1>1, <1>3, <1>4, <1>5, <1>6, <1>7, <1>8, <1>9, <1>10, <1>11
  DEF Next, Arrival, Continue

\* However many threads process blocks, and whatever is pruned meanwhile,
\* ActivateBestChain (src/main.cpp) never makes a block active that failed or
\* descends from a failed block.
THEOREM ActiveValid == Spec => []ActiveChainValid
<1>1. AInv => ActiveChainValid
  BY ConnectedNotFailed
  DEF ActiveChainValid, chainActive, AInv, FInv, IInv, TypeOK, VerdictInv, TargetInv
<1> QED
  BY <1>1, InitAInv, NextAInv, PTL DEF Spec

\* The scripts of a block are never recorded as checked before those of all
\* of its ancestors (ConnectTip in src/main.cpp, BLOCK_VALID_SCRIPTS).
THEOREM ScriptsCheckedInOrder == Spec => []ScriptsValidChain
<1>1. AInv => ScriptsValidChain
  <2> SUFFICES ASSUME AInv, NEW b \in Blocks, validity[b] = VALID_SCRIPTS
               PROVE  \A x \in ChainOf[b] \ {Genesis} : validity[x] = VALID_SCRIPTS
    BY DEF ScriptsValidChain, AInv, FInv, IInv, TypeOK
  <2> DEFINE T == {x \in Blocks : x = Genesis \/ validity[x] = VALID_SCRIPTS}
  <2>1. T \in SUBSET Blocks /\ b \in T
    OBVIOUS
  <2>2. \A x \in T \ {Genesis} : Prev[x] \in T
    BY TreeAssumption DEF AInv, VerdictInv, NonGenesis
  <2>3. ChainOf[b] \subseteq T
    <3> HIDE DEF T
    <3> QED
      BY <2>1, <2>2, ChainClosed
  <2> QED
    BY <2>3
<1> QED
  BY <1>1, InitAInv, NextAInv, PTL DEF Spec

-----------------------------------------------------------------------------
(* The active chain has passed its checks, whatever the operator does *)

CheckedInv == hasTx \cap BadContext = {} /\ ChainOf[tip] \cap BadConnect = {}

LEMMA NextChecked == IInv /\ CheckedInv /\ [NextWithOperator]_vars => CheckedInv'
<1> SUFFICES ASSUME IInv, CheckedInv, [NextWithOperator]_vars PROVE CheckedInv'
  OBVIOUS
<1>1. ASSUME hasTx' = hasTx, ChainOf[tip'] \subseteq ChainOf[tip] PROVE CheckedInv'
  BY <1>1 DEF CheckedInv
<1>2. ASSUME hasTx' = hasTx, tip' = tip PROVE CheckedInv'
  BY <1>2 DEF CheckedInv
<1>3. ASSUME NEW c \in Callers, NEW b \in NonGenesis, NEW fRequested \in BOOLEAN,
             ReceiveBlock(c, b, fRequested)
      PROVE  CheckedInv'
  <2>1. hasTx' = hasTx \cup {b} /\ b \notin BadContext /\ tip' = tip
    BY Zenon, <1>3 DEF ReceiveBlock
  <2> QED
    BY <2>1 DEF CheckedInv
<1>4. ASSUME NEW c \in Callers, NEW b \in NonGenesis, NEW fRequested \in BOOLEAN,
             AcceptBlockHeader(b) \/ IgnoreBlock(c, b, fRequested) \/ RejectBlock(c, b, fRequested)
      PROVE  CheckedInv'
  BY Zenon, <1>2, <1>4 DEF AcceptBlockHeader, IgnoreBlock, RejectBlock
<1>5. ASSUME NEW c \in Callers,
             (\E b \in NonGenesis : LinkBlock(c, b)) \/ FinishAccept(c) \/ BeginStep(c)
             \/ FindMostWorkChain(c) \/ ConnectTipFails(c) \/ FinishInvalidate(c)
      PROVE  CheckedInv'
  BY ZenonT(30), <1>2, <1>5
  DEF LinkBlock, FinishAccept, BeginStep, FindMostWorkChain, ConnectTipFails, FinishInvalidate,
      AbortNode
<1>6. ASSUME NEW c \in Callers, NEW b \in Blocks, InvalidateBlock(c, b) \/ ReconsiderBlock(c, b)
      PROVE  CheckedInv'
  BY Zenon, <1>2, <1>6 DEF InvalidateBlock, ReconsiderBlock
<1>7. tip \in Blocks /\ (tip # Genesis => ChainOf[Prev[tip]] \subseteq ChainOf[tip])
  BY TreeAssumption DEF IInv, TypeOK, NonGenesis
<1>8. ASSUME NEW c \in Callers, DisconnectTip(c) PROVE CheckedInv'
  <2>1. tip \notin ChainOf[pindexMostWork[c]] /\ pindexMostWork[c] \in Blocks
    BY ZenonT(30), <1>8 DEF DisconnectTip, LockInv, TypeOK, IInv
  <2>2. tip # Genesis
    BY ONLY <2>1, ChainBasics
  <2>3. hasTx' = hasTx /\ tip' \in {tip, Prev[tip]}
    BY ZenonT(30), <1>8 DEF DisconnectTip, AbortNode
  <2> QED
    BY <1>1, <1>7, <2>2, <2>3
<1>9. ASSUME NEW c \in Callers, ConnectTip(c) PROVE CheckedInv'
  <2> DEFINE b == NextToConnect(c)
  <2>1. ChainOf[b] = {b} \cup ChainOf[tip]
    BY Zenon, <1>9, NextToConnectFacts DEF ConnectTip
  <2>2. b \notin BadConnect /\ tip' = b /\ hasTx' = hasTx
    BY Zenon, <1>9 DEF ConnectTip
  <2> HIDE DEF b
  <2> QED
    BY <2>1, <2>2 DEF CheckedInv
<1>10. ASSUME NEW c \in Callers, InvalidateTip(c) PROVE CheckedInv'
  <2>1. hasTx' = hasTx /\ tip' \in {tip, Prev[tip]} /\ pindexInvalid \in ChainOf[tip]
    BY Zenon, <1>10 DEF InvalidateTip, AbortNode, chainActive
  <2>2. pindexInvalid # Genesis
    BY Zenon, <1>10 DEF InvalidateTip, LockInv, IInv
  <2>3. tip # Genesis
    BY <2>1, <2>2, TreeAssumption
  <2> QED
    BY <1>1, <1>7, <2>1, <2>3
<1>11. CASE UNCHANGED vars
  BY Zenon, <1>2, <1>11
<1>12. ASSUME NEW c \in Callers, Arrival(c) PROVE CheckedInv'
  BY Zenon, <1>3, <1>4, <1>12 DEF Arrival
<1>13. ASSUME NEW c \in Callers, Continue(c) PROVE CheckedInv'
  BY Zenon, <1>5, <1>8, <1>9, <1>10, <1>13 DEF Continue
<1> QED
  BY Zenon, <1>6, <1>11, <1>12, <1>13, ParameterAssumption
  DEF NextWithOperator, NextWithInvalidate, Next

\* No step of any thread makes a block active that was not received, or that
\* ContextualCheckBlock or ConnectBlock refuses (AcceptBlock, ConnectTip in
\* src/main.cpp): not through a stale target, with pruning, nor after
\* reconsiderblock has cleared the mark of such a block.
THEOREM ActiveAlwaysChecked == SpecWithOperator => []ActiveChainChecked
<1>1. IInv /\ CheckedInv => ActiveChainChecked
  BY DEF IInv, TargetInv, CheckedInv, ActiveChainChecked, chainActive
<1>2. Init => IInv /\ CheckedInv
  <2>1. Init => CheckedInv
    BY TreeAssumption, VerdictAssumption DEF Init, CheckedInv, NonGenesis
  <2> QED
    BY <2>1, InitIInv
<1>3. IInv /\ CheckedInv /\ [NextWithOperator]_vars => IInv' /\ CheckedInv'
  BY Zenon, NextIInv, NextChecked
<1> QED
  BY <1>1, <1>2, <1>3, PTL DEF SpecWithOperator

-----------------------------------------------------------------------------
(* Pruning *)

\* No stored block is higher than the nHeightLast of its file.
HeightsInv == \A b \in haveData : nHeight[b] <= nHeightLast[nFile[b]]

\* FindFilesToPrune chooses stored blocks, all those of a file or none, and
\* nothing on a short chain.
LEMMA PrunedFrom ==
  ASSUME NEW P \in PrunableSets(haveData, tip, nLastBlockFile)
  PROVE  /\ P \subseteq haveData
         /\ \A b \in P : nFile[b] \in PrunableFiles(haveData, tip, nLastBlockFile)
                         /\ nHeight[tip] > PruneAfterHeight
         /\ \A b \in P, x \in haveData : nFile[x] = nFile[b] => x \in P
<1>1. PICK k : P = UNION {BlocksInFile(haveData, f) :
                 f \in {g \in PrunableFiles(haveData, tip, nLastBlockFile) : g < k}}
  BY Zenon DEF PrunableSets
<1>2. \A b : b \in P <=> b \in haveData /\ nFile[b] < k
                          /\ nFile[b] \in PrunableFiles(haveData, tip, nLastBlockFile)
  BY ONLY <1>1 DEF BlocksInFile
<1>3. \A f \in PrunableFiles(haveData, tip, nLastBlockFile) : nHeight[tip] > PruneAfterHeight
  BY Zenon DEF PrunableFiles
<1> QED
  BY ONLY <1>2, <1>3

\* It chooses no block less than MinBlocksToKeep below the tip.
LEMMA PrunedLow ==
  ASSUME TypeOK, HeightsInv, NEW P \in PrunableSets(haveData, tip, nLastBlockFile), NEW b \in P
  PROVE  nHeight[b] + MinBlocksToKeep <= nHeight[tip]
<1>1. b \in haveData /\ nFile[b] \in PrunableFiles(haveData, tip, nLastBlockFile)
      /\ nHeight[tip] > PruneAfterHeight
  BY Zenon, PrunedFrom
<1>2. nHeightLast[nFile[b]] <= nHeight[tip] - MinBlocksToKeep
  BY Zenon, <1>1 DEF PrunableFiles
<1>3. nHeight[b] <= nHeightLast[nFile[b]]
  BY Zenon, <1>1 DEF HeightsInv
<1>4. nHeight[tip] \in Nat /\ nHeight[b] \in Nat /\ MinBlocksToKeep \in Nat
      /\ PruneAfterHeight \in Nat /\ MinBlocksToKeep <= PruneAfterHeight
      /\ nHeightLast[nFile[b]] \in Nat
  BY <1>1, TreeAssumption, ParameterAssumption DEF TypeOK
<1> QED
  BY ONLY <1>1, <1>2, <1>3, <1>4

\* AddBlock and SetNull keep the height of a file above those of its blocks.
LEMMA PruneFilesHeights ==
  ASSUME TypeOK, HeightsInv, NEW P \in PrunableSets(haveData, tip, nLastBlockFile), NEW undo,
         PruneFiles(P, undo)
  PROVE  HeightsInv'
<1>1. /\ haveData' = haveData \ P
      /\ nFile' = [b \in Blocks |-> IF b \in P THEN 0 ELSE nFile[b]]
      /\ nHeightLast' = [f \in Files |-> IF f \in {nFile[b] : b \in P} THEN 0 ELSE nHeightLast[f]]
  BY Zenon DEF PruneFiles
<1>2. haveData \subseteq Blocks /\ nFile \in [Blocks -> Files]
  BY Zenon DEF TypeOK
<1>3. ASSUME NEW b \in haveData' PROVE nHeight[b] <= nHeightLast'[nFile'[b]]
  <2>1. b \in haveData /\ b \in Blocks /\ nFile'[b] = nFile[b] /\ nFile[b] \in Files
    BY ONLY <1>1, <1>2, <1>3
  <2>2. nFile[b] \notin {nFile[x] : x \in P}
    BY Zenon, <1>1, <1>3, <2>1, PrunedFrom
  <2>3. nHeightLast'[nFile'[b]] = nHeightLast[nFile[b]]
    BY ONLY <1>1, <2>1, <2>2
  <2> QED
    BY Zenon, <2>1, <2>3 DEF HeightsInv
<1> QED
  BY Zenon, <1>3 DEF HeightsInv

LEMMA ReceiveBlockHeights ==
  ASSUME TypeOK, HeightsInv, NEW c \in Callers, NEW b \in NonGenesis, NEW fRequested \in BOOLEAN,
         ReceiveBlock(c, b, fRequested)
  PROVE  HeightsInv'
<1>1. PICK f \in Files : /\ nFile' = [nFile EXCEPT ![b] = f]
                         /\ nHeightLast' = AddBlock(f, b)
  BY Zenon DEF ReceiveBlock
<1>2. haveData' = haveData \cup {b}
  BY Zenon DEF ReceiveBlock
<1>3. /\ nFile \in [Blocks -> Files] /\ nHeightLast \in [Files -> Nat] /\ b \in Blocks
      /\ haveData \subseteq Blocks /\ nHeight \in [Blocks -> Nat]
  BY Zenon, TreeAssumption DEF TypeOK, NonGenesis
<1>4. \A x \in haveData : nHeight[x] <= nHeightLast[nFile[x]]
  BY Zenon DEF HeightsInv
<1>5. \A g \in Files : nHeightLast[g] <= nHeightLast'[g] /\ nHeightLast'[g] \in Nat
  BY ONLY <1>1, <1>3 DEF AddBlock
<1>6. nHeight[b] <= nHeightLast'[nFile'[b]]
  BY ONLY <1>1, <1>3 DEF AddBlock
<1>7. ASSUME NEW x \in haveData, x # b PROVE nHeight[x] <= nHeightLast'[nFile'[x]]
  <2>1. nFile'[x] = nFile[x] /\ nFile[x] \in Files /\ nHeight[x] \in Nat
        /\ nHeightLast[nFile[x]] \in Nat
    BY ONLY <1>1, <1>3, <1>7
  <2>2. nHeight[x] <= nHeightLast[nFile[x]] /\ nHeightLast[nFile[x]] <= nHeightLast'[nFile[x]]
        /\ nHeightLast'[nFile[x]] \in Nat
    BY Zenon, <1>4, <1>5, <2>1
  <2> QED
    BY ONLY <2>1, <2>2
<1> QED
  BY Zenon, <1>2, <1>6, <1>7 DEF HeightsInv

LEMMA NextHeights ==
  ASSUME TypeOK, HeightsInv, [NextWithOperator]_vars
  PROVE  HeightsInv'
<1>1. CASE UNCHANGED <<haveData, nFile, nHeightLast>>
  BY Zenon, <1>1 DEF HeightsInv
<1>2. CASE UNCHANGED vars
  BY Zenon, <1>1, <1>2 DEF vars, files
<1>3. ASSUME NEW c \in Callers, Arrival(c) PROVE HeightsInv'
  BY Zenon, <1>1, <1>3, ReceiveBlockHeights
  DEF Arrival, AcceptBlockHeader, IgnoreBlock, RejectBlock, files
<1>4. ASSUME NEW c \in Callers, FinishAccept(c) \/ ConnectTip(c) PROVE HeightsInv'
  BY Zenon, <1>4, PruneFilesHeights DEF FinishAccept, ConnectTip
<1>5. ASSUME NEW c \in Callers, Continue(c), ~FinishAccept(c), ~ConnectTip(c) PROVE HeightsInv'
  BY Zenon, <1>1, <1>5
  DEF Continue, LinkBlock, BeginStep, FindMostWorkChain, DisconnectTip, ConnectTipFails,
      InvalidateTip, FinishInvalidate, AbortNode, files
<1>6. ASSUME NEW c \in Callers, NEW b \in Blocks, InvalidateBlock(c, b) \/ ReconsiderBlock(c, b)
      PROVE  HeightsInv'
  BY Zenon, <1>1, <1>6 DEF InvalidateBlock, ReconsiderBlock, files
<1> QED
  BY Zenon, <1>2, <1>3, <1>4, <1>5, <1>6, ParameterAssumption
  DEF NextWithOperator, NextWithInvalidate, Next

LEMMA InitHeights == Init => HeightsInv
BY TreeAssumption, FirstFile DEF Init, HeightsInv

\* Pruning takes neither data nor undo data from an active block that is less
\* than MinBlocksToKeep below the tip: the nHeightLast that FindFilesToPrune
\* (src/main.cpp) looks at bounds the height of every block in the file, in
\* whatever order and how often blocks are received, pruned and received again.
THEOREM PruningKeepsRecent == SpecWithOperator => PruneKeepsRecent
<1> DEFINE Kept == \A b \in chainActive \cap chainActive' :
                     b \notin haveData' \cap haveUndo' /\ b \in haveData \cap haveUndo
                     => nHeight[b] + MinBlocksToKeep <= nHeight[tip]
<1>1. ASSUME TypeOK, HeightsInv, [NextWithOperator]_vars PROVE [Kept]_vars
  <2>1. ASSUME haveData \subseteq haveData', haveUndo \subseteq haveUndo' PROVE Kept
    BY Zenon, <2>1
  <2>2. ASSUME NEW P \in PrunableSets(haveData, tip, nLastBlockFile), NEW undo,
               haveUndo \subseteq undo, PruneFiles(P, undo)
        PROVE  Kept
    <3>1. haveData' = haveData \ P /\ haveUndo' = undo \ P
      BY Zenon, <2>2 DEF PruneFiles, UndoAfterPrune
    <3>2. \A b \in P : nHeight[b] + MinBlocksToKeep <= nHeight[tip]
      BY Zenon, <1>1, PrunedLow
    <3> QED
      BY ONLY <2>2, <3>1, <3>2
  <2> HIDE DEF Kept
  <2>3. CASE UNCHANGED vars
    BY Zenon, <2>3
  <2>4. ASSUME NEW c \in Callers, Arrival(c) PROVE Kept
    BY ZenonT(30), SMTT(30), <2>1, <2>4 DEF Arrival, AcceptBlockHeader, IgnoreBlock, RejectBlock, ReceiveBlock
  <2>5. ASSUME NEW c \in Callers, FinishAccept(c) \/ ConnectTip(c) PROVE Kept
    BY Zenon, <2>2, <2>5 DEF FinishAccept, ConnectTip
  <2>6. ASSUME NEW c \in Callers, Continue(c), ~FinishAccept(c), ~ConnectTip(c) PROVE Kept
    BY Zenon, <2>1, <2>6
    DEF Continue, LinkBlock, BeginStep, FindMostWorkChain, DisconnectTip, ConnectTipFails,
        InvalidateTip, FinishInvalidate, AbortNode
  <2>7. ASSUME NEW c \in Callers, NEW b \in Blocks, InvalidateBlock(c, b) \/ ReconsiderBlock(c, b)
        PROVE  Kept
    BY <2>1, <2>7 DEF InvalidateBlock, ReconsiderBlock
  <2> QED
    BY <1>1, <2>3, <2>4, <2>5, <2>6, <2>7, ParameterAssumption
    DEF NextWithOperator, NextWithInvalidate, Next
<1>2. Init => HeightsInv
  BY InitHeights
<1>3. TypeOK /\ HeightsInv /\ [NextWithOperator]_vars => HeightsInv'
  BY Zenon, NextHeights
<1> QED
  BY <1>1, <1>2, <1>3, TypeCorrect, PTL DEF SpecWithOperator, PruneKeepsRecent

-----------------------------------------------------------------------------
(* Calls that do not overlap: every caller holds cs_main during its whole     *)
(* call, as the message handler does, or there is a single caller.            *)

Serial == Callers \subseteq CsMainHolders \/ \A c, d \in Callers : c = d

AloneInv ==
  Callers \subseteq CsMainHolders => \A c \in Callers : pc[c] # "idle" => csMain = c

\* ActivateBestChain keeps its target between its steps only, and the blocks on
\* the way to it are stored.
KeptInv ==
  ~aborted => \A c \in Callers :
    /\ pc[c] \notin {"activate", "step"} => pindexMostWork[c] = NULL
    /\ pindexMostWork[c] \in Blocks => ChainOf[pindexMostWork[c]] \ chainActive \subseteq haveData

UndoInv == haveUndo \subseteq haveData

RInv == SInv /\ AloneInv /\ KeptInv /\ UndoInv /\ HeightsInv

LEMMA InitRInv == Init => RInv
  BY InitSInv, InitHeights, ParameterAssumption DEF Init, RInv, AloneInv, KeptInv, UndoInv

\* A thread that has or can take cs_main is alone.
LEMMA OthersIdle ==
  ASSUME Serial, RInv, NEW c \in Callers, csMain \in {NULL, c}
  PROVE  \A d \in Callers : d # c => pc[d] = "idle"
BY ParameterAssumption DEF Serial, RInv, AloneInv

LEMMA NextAloneInv == RInv /\ [NextWithOperator]_vars => AloneInv'
<1> SUFFICES ASSUME RInv, [NextWithOperator]_vars, Callers \subseteq CsMainHolders,
                    NEW d \in Callers, pc'[d] # "idle"
             PROVE  csMain' = d
  BY DEF AloneInv
<1>1. \A x \in Callers : pc[x] # "idle" => csMain = x
  BY DEF RInv, AloneInv
<1>2. pc \in [Callers -> Labels]
  BY DEF RInv, SInv, IInv, TypeOK
<1>3. ASSUME NEW c \in Callers, NEW l, ~aborted, csMain \in {NULL, c}, Release(c, l) \/ Hold(c, l)
      PROVE  csMain' = d
  BY <1>1, <1>2, <1>3, ParameterAssumption
<1>4. CASE UNCHANGED <<csMain, pc>>
  BY Zenon, <1>1, <1>4
<1>5. ASSUME NEW c \in Callers, Arrival(c) PROVE csMain' = d
  BY SMT, ZenonT(30), <1>3, <1>4, <1>5 DEF Arrival, AcceptBlockHeader, IgnoreBlock, RejectBlock, ReceiveBlock
<1>6. ASSUME NEW c \in Callers, Continue(c) PROVE csMain' = d
  <2>1. CASE (\E b \in NonGenesis : LinkBlock(c, b)) \/ FinishAccept(c) \/ BeginStep(c)
             \/ FindMostWorkChain(c)
    BY Zenon, <1>3, <1>4, <2>1 DEF LinkBlock, FinishAccept, BeginStep, FindMostWorkChain, Return
  <2>2. CASE DisconnectTip(c) \/ ConnectTipFails(c)
    BY Zenon, <1>3, <1>4, <2>2 DEF DisconnectTip, ConnectTipFails, AbortNode, EndStep, Return
  <2>3. CASE ConnectTip(c) \/ InvalidateTip(c) \/ FinishInvalidate(c)
    BY Zenon, <1>3, <1>4, <2>3 DEF ConnectTip, InvalidateTip, FinishInvalidate, EndStep, Return
  <2> QED
    BY Zenon, <1>6, <2>1, <2>2, <2>3 DEF Continue
<1>7. ASSUME NEW c \in Callers, NEW b \in Blocks, InvalidateBlock(c, b) \/ ReconsiderBlock(c, b)
      PROVE  csMain' = d
  BY Zenon, <1>3, <1>7 DEF InvalidateBlock, ReconsiderBlock
<1> QED
  BY <1>4, <1>5, <1>6, <1>7, ParameterAssumption
  DEF NextWithOperator, NextWithInvalidate, Next

\* Steps that leave the tip alone and delete nothing.
LEMMA KeptUnchanged ==
  ASSUME RInv, UNCHANGED tip, haveData \subseteq haveData', UNCHANGED haveUndo,
         ~aborted' => /\ ~aborted
                      /\ \A d \in Callers :
                           /\ pindexMostWork'[d] \in {NULL, pindexMostWork[d]}
                           /\ pc'[d] \notin {"activate", "step"} =>
                                pindexMostWork'[d] = NULL \/ pc[d] \notin {"activate", "step"}
  PROVE  KeptInv' /\ UndoInv'
<1>1. UndoInv'
  BY DEF RInv, UndoInv
<1>2. KeptInv'
  BY ParameterAssumption DEF RInv, KeptInv, chainActive
<1> QED
  BY Zenon, <1>1, <1>2

\* Only the thread at work has a target.
LEMMA OnlyTarget ==
  ASSUME Serial, RInv, ~aborted, NEW c \in Callers, csMain \in {NULL, c}
  PROVE  /\ \A d \in Callers : d # c => pc[d] = "idle" /\ pindexMostWork[d] = NULL
         /\ pc[c] \notin {"activate", "step"} => pindexMostWork[c] = NULL
BY OthersIdle DEF RInv, KeptInv

LEMMA ArrivalRInv ==
  ASSUME Serial, RInv, NEW c \in Callers, Arrival(c)
  PROVE  KeptInv' /\ UndoInv'
<1>1. /\ UNCHANGED <<tip, haveUndo, pindexMostWork, aborted>> /\ haveData \subseteq haveData'
      /\ ~aborted
      /\ \A d \in Callers : pc'[d] \in {"activate", "step"} \/ pc'[d] = pc[d]
                            \/ pc[d] \notin {"activate", "step"}
  BY ZenonT(30), SMTT(30) DEF Arrival, AcceptBlockHeader, IgnoreBlock, RejectBlock, ReceiveBlock, RInv, SInv, IInv, TypeOK
<1> QED
  BY Zenon, <1>1, KeptUnchanged

LEMMA FinishAcceptRInv ==
  ASSUME Serial, RInv, NEW c \in Callers, FinishAccept(c)
  PROVE  KeptInv' /\ UndoInv'
<1>1. \A d \in Callers : pindexMostWork'[d] = NULL
  BY OnlyTarget DEF FinishAccept
<1>2. PICK P : PruneFiles(P, haveUndo)
  BY Zenon DEF FinishAccept
<1> QED
  BY <1>1, <1>2, ParameterAssumption
  DEF KeptInv, UndoInv, RInv, PruneFiles, UndoAfterPrune

LEMMA FindMostWorkChainRInv ==
  ASSUME Serial, RInv, NEW c \in Callers, FindMostWorkChain(c)
  PROVE  KeptInv' /\ UndoInv'
<1>1. /\ UNCHANGED <<tip, haveUndo, haveData, aborted>> /\ ~aborted
  BY Zenon DEF FindMostWorkChain
<1>2. \A d \in Callers : pindexMostWork[d] = NULL
  BY Zenon, OnlyTarget DEF FindMostWorkChain
<1>3. CASE \A d \in Callers : pindexMostWork'[d] = NULL
  BY <1>1, <1>3, ParameterAssumption DEF KeptInv, UndoInv, RInv
<1>4. ASSUME NEW b \in setBlockIndexCandidates, Unusable(b) = {},
             pindexMostWork' = [pindexMostWork EXCEPT ![c] = b], pc' = [pc EXCEPT ![c] = "step"]
      PROVE  KeptInv' /\ UndoInv'
  <2>1. \A d \in Callers : d # c => pindexMostWork'[d] = NULL
    BY <1>2, <1>4 DEF RInv, SInv, IInv, TypeOK
  <2>2. pc'[c] = "step" /\ pindexMostWork'[c] = b
    BY Zenon, <1>4 DEF RInv, SInv, IInv, TypeOK
  <2>3. ChainOf[b] \ chainActive \subseteq haveData
    BY <1>4 DEF Unusable
  <2> QED
    BY <1>1, <2>1, <2>2, <2>3, ParameterAssumption DEF KeptInv, UndoInv, RInv, chainActive
<1> QED
  BY Zenon, <1>2, <1>3, <1>4 DEF FindMostWorkChain, Return, RInv, SInv, IInv, TypeOK

LEMMA DisconnectTipRInv ==
  ASSUME Serial, RInv, NEW c \in Callers, DisconnectTip(c)
  PROVE  KeptInv' /\ UndoInv'
<1>1. UNCHANGED <<haveUndo, haveData>>
  BY Zenon DEF DisconnectTip, AbortNode
<1>2. /\ \A d \in Callers : d # c => pindexMostWork[d] = NULL
      /\ pindexMostWork[c] \in Blocks
      /\ ChainOf[pindexMostWork[c]] \ chainActive \subseteq haveData
      /\ tip \notin ChainOf[pindexMostWork[c]] /\ tip \in NonGenesis
  BY SMT, ZenonT(30), OnlyTarget, ChainBasics
  DEF DisconnectTip, RInv, KeptInv, SInv, IInv, LockInv, TypeOK, NonGenesis
<1>3. chainActive = {tip} \cup ChainOf[Prev[tip]]
  BY Zenon, <1>2, TreeAssumption DEF chainActive
<1>4. aborted' \/ (/\ tip' \in {tip, Prev[tip]}
                   /\ \/ UNCHANGED <<pc, pindexMostWork>>
                      \/ pindexMostWork' = [pindexMostWork EXCEPT ![c] = NULL]
                      \/ pindexMostWork' = pindexMostWork /\ pc' = [pc EXCEPT ![c] = "activate"])
  BY Zenon DEF DisconnectTip, AbortNode, EndStep, Return
<1>5. ChainOf[pindexMostWork[c]] \ chainActive' \subseteq haveData'
      \/ ~(tip' \in {tip, Prev[tip]})
  BY Zenon, <1>1, <1>2, <1>3 DEF chainActive
<1>6. pc[c] = "step" /\ pc \in [Callers -> Labels] /\ pindexMostWork \in [Callers -> Blocks \cup {NULL}]
  BY Zenon DEF DisconnectTip, RInv, SInv, IInv, TypeOK
<1>7. KeptInv'
  BY <1>2, <1>4, <1>5, <1>6, ParameterAssumption DEF KeptInv
<1> QED
  BY Zenon, <1>1, <1>7 DEF UndoInv, RInv

\* ConnectTip connects a stored block, and prunes only below the tip.
LEMMA ConnectTipRInv ==
  ASSUME Serial, RInv, NEW c \in Callers, ConnectTip(c)
  PROVE  KeptInv' /\ UndoInv'
<1> DEFINE b == NextToConnect(c)
           m == pindexMostWork[c]
<1>1. /\ \A d \in Callers : d # c => pindexMostWork[d] = NULL
      /\ m \in Blocks /\ tip \in ChainOf[m] /\ tip \in Blocks
      /\ ChainOf[m] \ chainActive \subseteq haveData
  BY Zenon, OnlyTarget DEF ConnectTip, RInv, KeptInv, SInv, IInv, LockInv, TypeOK
<1>2. /\ b \in NonGenesis /\ Prev[b] = tip /\ ChainOf[b] = {b} \cup ChainOf[tip] /\ b \in ChainOf[m]
  BY Zenon, NextToConnectFacts DEF ConnectTip, RInv, SInv
<1>3. PICK P \in PrunableSets(haveData, tip, nLastBlockFile) : PruneFiles(P, haveUndo \cup {b})
  BY Zenon DEF ConnectTip
<1>4. /\ haveData' = haveData \ P /\ haveUndo' = (haveUndo \cup {b}) \ P /\ tip' = b
  BY Zenon, <1>3 DEF PruneFiles, UndoAfterPrune, ConnectTip
<1>5. \/ UNCHANGED <<pc, pindexMostWork>>
      \/ pindexMostWork' = [pindexMostWork EXCEPT ![c] = NULL]
      \/ pindexMostWork' = pindexMostWork /\ pc' = [pc EXCEPT ![c] = "activate"]
  BY ZenonT(30) DEF ConnectTip, EndStep, Return
<1>6. pc[c] = "step" /\ pc \in [Callers -> Labels] /\ pindexMostWork \in [Callers -> Blocks \cup {NULL}]
  BY Zenon DEF ConnectTip, RInv, SInv, IInv, TypeOK
<1> HIDE DEF b
<1>7. b \in ChainOf[m] \ chainActive
  <2>1. nHeight[b] = nHeight[tip] + 1 /\ nHeight[tip] \in Nat /\ b \in Blocks
    BY <1>1, <1>2, TreeAssumption DEF NonGenesis
  <2>2. b # tip /\ ~(nHeight[b] < nHeight[tip])
    BY <2>1
  <2>3. b \notin ChainOf[tip]
    BY <1>1, <2>2, ChainHeight
  <2> QED
    BY <1>2, <2>3 DEF chainActive
<1>8. \A x \in ChainOf[m] \ chainActive : x \notin P
  <2> SUFFICES ASSUME NEW x \in ChainOf[m], x \notin ChainOf[tip], x \in P
               PROVE  FALSE
    BY DEF chainActive
  <2>1. nHeight[x] + MinBlocksToKeep <= nHeight[tip]
    BY Zenon, <1>3, PrunedLow DEF RInv, SInv, IInv
  <2>2. nHeight[x] \in Nat /\ nHeight[tip] \in Nat /\ MinBlocksToKeep \in Nat /\ x \in Blocks
    BY <1>1, TreeAssumption, ParameterAssumption
  <2>3. nHeight[x] <= nHeight[tip]
    BY <2>1, <2>2
  <2> QED
    BY Zenon, <1>1, <2>3, ChainLinear
<1>9. ChainOf[m] \ chainActive' \subseteq haveData'
  BY Zenon, <1>1, <1>2, <1>4, <1>8 DEF chainActive
<1>10. KeptInv'
  BY <1>1, <1>5, <1>6, <1>9, ParameterAssumption DEF KeptInv
<1>11. UndoInv'
  BY <1>1, <1>4, <1>7 DEF UndoInv, RInv
<1> QED
  BY Zenon, <1>10, <1>11

LEMMA OtherStepsRInv ==
  ASSUME Serial, RInv, NEW c \in Callers, NEW b \in Blocks,
         \/ \E x \in NonGenesis : LinkBlock(c, x)
         \/ BeginStep(c) \/ ConnectTipFails(c) \/ InvalidateBlock(c, b)
         \/ FinishInvalidate(c) \/ ReconsiderBlock(c, b)
  PROVE  KeptInv' /\ UndoInv'
<1>1. tip' = tip /\ haveData \subseteq haveData' /\ haveUndo' = haveUndo /\ ~aborted
  BY Zenon DEF LinkBlock, BeginStep, ConnectTipFails, InvalidateBlock, FinishInvalidate,
         ReconsiderBlock, AbortNode
<1>2. pc \in [Callers -> Labels] /\ pindexMostWork \in [Callers -> Blocks \cup {NULL}]
  BY Zenon DEF RInv, SInv, IInv, TypeOK
<1>3. CASE \/ \E x \in NonGenesis : LinkBlock(c, x)
           \/ InvalidateBlock(c, b) \/ FinishInvalidate(c) \/ ReconsiderBlock(c, b)
  <2>1. /\ UNCHANGED pindexMostWork
        /\ \A d \in Callers : pc'[d] = pc[d] \/ pc[d] \notin {"activate", "step"}
    BY Zenon, <1>2, <1>3 DEF LinkBlock, InvalidateBlock, FinishInvalidate, ReconsiderBlock
  <2> QED
    BY Zenon, <1>1, <2>1, KeptUnchanged
<1>4. CASE BeginStep(c) \/ ConnectTipFails(c)
  <2>1. ~aborted' => \A d \in Callers :
           /\ pindexMostWork'[d] \in {NULL, pindexMostWork[d]}
           /\ pc'[d] \notin {"activate", "step"} =>
                pindexMostWork'[d] = NULL \/ pc[d] \notin {"activate", "step"}
    BY Zenon, <1>2, <1>4 DEF BeginStep, ConnectTipFails, Return, AbortNode
  <2> QED
    BY ONLY Zenon, RInv, <1>1, <2>1, KeptUnchanged
<1> QED
  BY Zenon, <1>3, <1>4

LEMMA InvalidateTipRInv ==
  ASSUME Serial, RInv, NEW c \in Callers, InvalidateTip(c)
  PROVE  KeptInv' /\ UndoInv'
<1>1. \A d \in Callers : pindexMostWork'[d] = NULL
  BY OnlyTarget DEF InvalidateTip
<1> QED
  BY Zenon, <1>1, ParameterAssumption DEF KeptInv, UndoInv, RInv, InvalidateTip

LEMMA NextRInv ==
  ASSUME Serial PROVE RInv /\ [NextWithOperator]_vars => RInv'
<1> SUFFICES ASSUME RInv, [NextWithOperator]_vars PROVE KeptInv' /\ UndoInv'
  BY Zenon, NextSInv, NextAloneInv, NextHeights DEF RInv, SInv, IInv
<1>1. CASE UNCHANGED vars
  BY Zenon, <1>1 DEF RInv, KeptInv, UndoInv, chainActive
<1>2. ASSUME NEW c \in Callers, Continue(c) PROVE KeptInv' /\ UndoInv'
  BY <1>2, FinishAcceptRInv, FindMostWorkChainRInv, DisconnectTipRInv, ConnectTipRInv,
      InvalidateTipRInv, OtherStepsRInv, TreeAssumption
  DEF Continue
<1> QED
  BY Zenon, <1>1, <1>2, ArrivalRInv, OtherStepsRInv, ParameterAssumption
  DEF NextWithOperator, NextWithInvalidate, Next

\* Through reorganisations, pruning, repeated downloads and the operator's
\* calls, the bits of nStatus agree with what was received, stored and linked
\* (CheckBlockIndex in src/main.cpp), when calls do not overlap.
THEOREM StatusBitsAgree == ASSUME Serial PROVE SpecWithOperator => []StatusConsistent
<1>1. RInv => StatusConsistent
  <2> SUFFICES ASSUME RInv, Quiet, NEW b \in mapBlockIndex
               PROVE  /\ b \notin linked => nSequenceId[b] = 0
                      /\ ~fHavePruned => (b \in haveData <=> b \in hasTx)
                      /\ b \in haveData => b \in hasTx
                      /\ b \in haveUndo => b \in haveData
                      /\ validity[b] >= VALID_TRANSACTIONS <=> b \in hasTx
                      /\ validity[b] >= VALID_TREE
    BY Zenon DEF StatusConsistent
  <2>1. b \in Blocks /\ queue[b] = 0
    BY QueueEmpty DEF RInv, SInv, IInv, TypeOK, Quiet, NoQueue
  <2> QED
    <3>1. ~InQueue(b)
      BY ONLY <2>1 DEF InQueue
    <3>2. b \notin linked => nSequenceId[b] = 0
      BY Zenon, <2>1, <3>1 DEF RInv, SInv, LinkInv, LinkedSoon
    <3> QED
      BY Zenon, <2>1, <3>2 DEF RInv, SInv, StoreInv, IndexInv, UndoInv
<1>2. Init => RInv
  BY InitRInv
<1>3. RInv /\ [NextWithOperator]_vars => RInv'
  BY Zenon, NextRInv
<1> QED
  BY <1>1, <1>2, <1>3, PTL DEF SpecWithOperator

-----------------------------------------------------------------------------
(* Blocks that wait for an ancestor *)

\* A stored block is linked, about to be linked, entered in mapBlocksUnlinked,
\* or below a block that was found invalid.
WaitInv ==
  \A b \in haveData \ {Genesis} :
    LinkedSoon(b) \/ Unlinked(b) \/ ChainOf[b] \cap failedValid # {}

WInv == SInv /\ FailedInv /\ WaitInv

LEMMA InitWInv == Init => WInv
  BY Zenon, InitSInv DEF Init, WInv, FailedInv, WaitInv

LEMMA WaitKept ==
  ASSUME WInv, NoQueue, haveData' \subseteq haveData, linked \subseteq linked',
         failedValid \subseteq failedValid',
         \A x \in haveData' : Unlinked(x) => (Unlinked(x))'
  PROVE  WaitInv'
<1>1. haveData \subseteq Blocks /\ \A b \in Blocks : ~InQueue(b)
  BY Zenon, NothingQueued DEF WInv, SInv, IInv, TypeOK
<1>2. \A b \in haveData \ {Genesis} : b \in linked \/ Unlinked(b) \/ ChainOf[b] \cap failedValid # {}
  BY Zenon, <1>1 DEF WInv, WaitInv, LinkedSoon
<1> QED
  BY Zenon, <1>2 DEF WaitInv, LinkedSoon

LEMMA ReceiveBlockWait ==
  ASSUME WInv, NEW c \in Callers, NEW b \in NonGenesis, NEW fRequested \in BOOLEAN,
         ReceiveBlock(c, b, fRequested)
  PROVE  WaitInv'
<1>1. NoQueue
  BY Zenon, QueueEmpty DEF ReceiveBlock, WInv, SInv
<1>2. /\ b \in Blocks /\ b # Genesis /\ Prev[b] \in Blocks /\ Prev[b] \in mapBlockIndex
      /\ ChainOf[b] = {b} \cup ChainOf[Prev[b]]
  BY Zenon, TreeAssumption DEF NonGenesis, ReceiveBlock, HeaderAccepted, WInv, SInv, IndexInv
<1>3. /\ linked' = linked \ {b} /\ haveData' = haveData \cup {b}
      /\ failedValid' = failedValid
      /\ Prev[b] \in linked => queue'[b] = 1
      /\ Prev[b] \notin linked /\ IsValid(Prev[b], VALID_TREE) =>
           mapBlocksUnlinked'[b] = mapBlocksUnlinked[b] + 1
      /\ \A x \in Blocks \ {b} : mapBlocksUnlinked'[x] = mapBlocksUnlinked[x]
  BY Zenon, <1>2 DEF ReceiveBlock, WInv, SInv, IInv, TypeOK, None
<1>4. ASSUME NEW x \in haveData' \ {Genesis}, x # b
      PROVE  (LinkedSoon(x))' \/ (Unlinked(x))' \/ ChainOf[x] \cap failedValid' # {}
  <2>1. x \in Blocks /\ x \in haveData \ {Genesis}
    BY Zenon, <1>2, <1>3, <1>4 DEF WInv, SInv, IInv, TypeOK
  <2>2. ~InQueue(x)
    BY ONLY <1>1, <2>1 DEF InQueue, NoQueue
  <2> QED
    BY Zenon, <1>3, <1>4, <2>1, <2>2 DEF WInv, WaitInv, LinkedSoon, Unlinked
<1>5. (LinkedSoon(b))' \/ (Unlinked(b))' \/ ChainOf[b] \cap failedValid' # {}
  <2>1. CASE Prev[b] \in linked
    <3>1. queue'[b] = 1
      BY Zenon, <1>3, <2>1
    <3>2. (InQueue(b))'
      BY ONLY <3>1 DEF InQueue
    <3> QED
      BY Zenon, <3>2 DEF LinkedSoon
  <2>2. CASE Prev[b] \notin linked /\ IsValid(Prev[b], VALID_TREE)
    <3>1. mapBlocksUnlinked[b] \in Nat /\ mapBlocksUnlinked'[b] = mapBlocksUnlinked[b] + 1
      BY Zenon, <1>2, <1>3, <2>2 DEF WInv, SInv, IInv, TypeOK
    <3>2. (Unlinked(b))'
      BY ONLY <3>1 DEF Unlinked
    <3> QED
      BY Zenon, <3>2
  <2>3. CASE ~IsValid(Prev[b], VALID_TREE)
    <3>1. Prev[b] \in failed
      BY Zenon, <1>2, <2>3 DEF IsValid, WInv, SInv, IndexInv
    <3> QED
      BY Zenon, <1>2, <1>3, <3>1, ChainBasics DEF failed, WInv, FailedInv
  <2> QED
    BY Zenon, <2>1, <2>2, <2>3
<1> QED
  BY Zenon, <1>4, <1>5 DEF WaitInv

LEMMA LinkBlockWait ==
  ASSUME WInv, NEW c \in Callers, NEW b \in NonGenesis, LinkBlock(c, b)
  PROVE  WaitInv'
<1>1. /\ linked' = linked \cup {b} /\ queue' = PopAndPush(b) /\ b \in Blocks
      /\ mapBlocksUnlinked' = EraseChildren(b) /\ UNCHANGED <<haveData, failedValid>>
  BY DEF LinkBlock, NonGenesis
<1>2. \A x \in Blocks \ {b} : (LinkedSoon(x) => (LinkedSoon(x))')
                              /\ (Unlinked(x) => (Unlinked(x))' \/ (LinkedSoon(x))')
  BY <1>1
  DEF LinkedSoon, InQueue, Unlinked, PopAndPush, EraseChildren, WInv, SInv, IInv, TypeOK
<1>3. (LinkedSoon(b))'
  BY <1>1 DEF LinkedSoon
<1> QED
  BY Zenon, <1>1, <1>2, <1>3 DEF WInv, WaitInv, SInv, IInv, TypeOK

LEMMA NextWInv == WInv /\ [NextWithInvalidate]_vars => WInv'
<1> SUFFICES ASSUME WInv, [NextWithInvalidate]_vars PROVE WaitInv'
  BY Zenon, NextSInv, NextFInv DEF WInv, NextWithOperator, FInv, SInv
<1>1. CASE UNCHANGED vars
  BY Zenon, <1>1 DEF WInv, WaitInv, LinkedSoon, InQueue, Unlinked
<1>2. ASSUME NEW c \in Callers, Arrival(c) PROVE WaitInv'
  <2>1. ASSUME NEW b \in NonGenesis, NEW fRequested \in BOOLEAN,
               AcceptBlockHeader(b) \/ RejectBlock(c, b, fRequested)
        PROVE  WaitInv'
    BY Zenon, <2>1 DEF AcceptBlockHeader, RejectBlock, WInv, WaitInv, LinkedSoon, InQueue, Unlinked
  <2>2. ASSUME NEW b \in NonGenesis, NEW fRequested \in BOOLEAN, IgnoreBlock(c, b, fRequested)
        PROVE  WaitInv'
    <3>1. NoQueue
      BY <2>2, QueueEmpty DEF IgnoreBlock, WInv, SInv
    <3> QED
      BY <2>2, <3>1, WaitKept DEF IgnoreBlock, Unlinked
  <2> QED
    BY Zenon, <1>2, <2>1, <2>2, ReceiveBlockWait DEF Arrival
<1>3. ASSUME NEW c \in Callers, FinishAccept(c) \/ ConnectTip(c) PROVE WaitInv'
  <2>1. PICK P, undo : PruneFiles(P, undo)
    BY Zenon, <1>3 DEF FinishAccept, ConnectTip
  <2>2. NoQueue
    BY Zenon, <1>3, QueueEmpty DEF FinishAccept, ConnectTip, WInv, SInv, NoQueue, None
  <2>3. \A x \in haveData' : Unlinked(x) => (Unlinked(x))'
    BY Zenon, <2>1 DEF PruneFiles, UnlinkedAfterPrune, Unlinked, WInv, SInv, IInv, TypeOK
  <2>4. haveData' \subseteq haveData /\ linked' = linked /\ failedValid' = failedValid
    BY Zenon, <1>3, <2>1 DEF FinishAccept, ConnectTip, PruneFiles
  <2> QED
    BY Zenon, <2>2, <2>3, <2>4, WaitKept
<1>4. ASSUME NEW c \in Callers, BeginStep(c) \/ FindMostWorkChain(c) \/ DisconnectTip(c)
                \/ ConnectTipFails(c) \/ InvalidateTip(c) \/ FinishInvalidate(c)
                \/ \E b \in Blocks : InvalidateBlock(c, b)
      PROVE  WaitInv'
  <2>1. NoQueue
    BY Zenon, <1>4, QueueEmpty
    DEF BeginStep, FindMostWorkChain, DisconnectTip, ConnectTipFails, InvalidateTip,
        FinishInvalidate, InvalidateBlock, WInv, SInv
  <2>2. UNCHANGED <<haveData, linked>> /\ failedValid \subseteq failedValid'
    BY Zenon, <1>4
    DEF BeginStep, FindMostWorkChain, DisconnectTip, ConnectTipFails, InvalidateTip,
        FinishInvalidate, InvalidateBlock, AbortNode
  <2>3. \A x \in Blocks : Unlinked(x) => (Unlinked(x))'
    <3>1. CASE FindMostWorkChain(c)
      <4>1. /\ mapBlocksUnlinked \in [Blocks -> Nat]
            /\ UNCHANGED mapBlocksUnlinked \/ \E b, x \in Blocks : GiveUp(b, x)
        BY Zenon, <3>1, TreeAssumption DEF FindMostWorkChain, WInv, SInv, IInv, TypeOK
      <4> QED
        BY ONLY <4>1 DEF GiveUp, Unlinked
    <3>2. CASE ~FindMostWorkChain(c)
      BY Zenon, <1>4, <3>2
      DEF BeginStep, DisconnectTip, ConnectTipFails, InvalidateTip, FinishInvalidate,
          InvalidateBlock, AbortNode, Unlinked
    <3> QED
      BY Zenon, <3>1, <3>2
  <2> QED
    BY Zenon, <2>1, <2>2, <2>3, WaitKept DEF WInv, SInv, IInv, TypeOK
<1> QED
  BY Zenon, <1>1, <1>2, <1>3, <1>4, LinkBlockWait DEF NextWithInvalidate, Next, Continue

\* A stored block that misses an ancestor is in mapBlocksUnlinked, so that the
\* arrival of the ancestor finds it (ReceivedBlockTransactions,
\* PruneOneBlockFile and FindMostWorkChain in src/main.cpp), for any number of
\* threads, with pruning and with invalidateblock.
THEOREM WaitingAlwaysUnlinked == SpecWithInvalidate => []WaitingIsUnlinked
<1>1. WInv => WaitingIsUnlinked
  <2> SUFFICES ASSUME WInv, Quiet, NEW b \in haveData \ {Genesis},
                      ~(ChainOf[b] \subseteq hasTx), ChainOf[b] \cap failedValid = {}
               PROVE  Unlinked(b)
    BY Zenon DEF WaitingIsUnlinked
  <2>1. NoQueue
    BY Zenon, QueueEmpty DEF Quiet, WInv, SInv
  <2>2. b \notin linked /\ b \in Blocks
    BY Zenon, <2>1, AllLinked DEF WInv, SInv, IInv, TypeOK
  <2> QED
    <3>1. ~InQueue(b)
      BY ONLY <2>1, <2>2 DEF InQueue, NoQueue
    <3> QED
      BY Zenon, <2>2, <3>1 DEF WInv, WaitInv, LinkedSoon
<1> QED
  BY <1>1, InitWInv, NextWInv, PTL DEF SpecWithInvalidate

-----------------------------------------------------------------------------
(* What waits in mapBlocksUnlinked does miss an ancestor *)

\* A received block that failed was linked before.
FailedSettled == \A b \in failed \cap hasTx : LinkedSoon(b)

\* A stored block that is neither linked nor entered has a parent that was
\* refused and never received.
Forgotten ==
  \A b \in haveData \ {Genesis} : LinkedSoon(b) \/ Unlinked(b) \/ Prev[b] \in failed \ hasTx

\* Entered, or stored without being linked.
Deferred(b) == Unlinked(b) \/ (b \in haveData /\ ~LinkedSoon(b))

DeferredInv ==
  \A b \in NonGenesis : Deferred(b) =>
    Prev[b] \notin haveData \/ Deferred(Prev[b]) \/ InQueue(Prev[b])

DInv == AInv /\ WInv /\ FailedSettled /\ Forgotten /\ DeferredInv

LEMMA InitDInv == Init => DInv
<1> SUFFICES ASSUME Init PROVE FailedSettled /\ Forgotten /\ DeferredInv
  BY Zenon, InitAInv, InitWInv DEF DInv
<1>1. /\ failed = {} /\ haveData = {Genesis} /\ \A b \in Blocks : mapBlocksUnlinked[b] = 0
  BY Zenon DEF Init, failed, None
<1>2. \A b \in NonGenesis : ~Deferred(b)
  BY ONLY <1>1 DEF Deferred, Unlinked, NonGenesis
<1> QED
  BY Zenon, <1>1, <1>2 DEF FailedSettled, Forgotten, DeferredInv

\* Steps that neither receive nor link a block, and prune nothing.
LEMMA DeferredKept ==
  ASSUME DInv, NoQueue, NoQueue', UNCHANGED <<haveData, hasTx, linked>>,
         failed \subseteq failed', failed' \cap hasTx \subseteq failed \cup linked,
         \/ \A x \in Blocks : mapBlocksUnlinked'[x] = mapBlocksUnlinked[x]
         \/ \E b \in setBlockIndexCandidates : \E x \in ChainOf[b] :
              x \notin haveData /\ GiveUp(b, x)
  PROVE  FailedSettled' /\ Forgotten' /\ DeferredInv'
<1>0. \A x \in Blocks : ~InQueue(x) /\ ~(InQueue(x))'
  BY ONLY NoQueue, NoQueue' DEF NoQueue, InQueue
<1>1. /\ haveData \subseteq Blocks /\ hasTx \subseteq Blocks
      /\ \A x \in NonGenesis : x \in Blocks /\ Prev[x] \in Blocks
  BY TreeAssumption DEF NonGenesis, DInv, WInv, SInv, IInv, TypeOK
<1>2. \A x \in Blocks : LinkedSoon(x) <=> (LinkedSoon(x))'
  BY Zenon DEF LinkedSoon, InQueue, NoQueue
<1>3. FailedSettled'
  BY Zenon, <1>1, <1>2 DEF DInv, FailedSettled, LinkedSoon
<1>4. CASE \A x \in Blocks : mapBlocksUnlinked'[x] = mapBlocksUnlinked[x]
  <2>1. \A x \in Blocks : Unlinked(x) <=> (Unlinked(x))'
    BY Zenon, <1>4 DEF Unlinked
  <2>2. Forgotten'
    BY Zenon, <1>1, <1>2, <2>1 DEF DInv, Forgotten
  <2>3. \A x \in Blocks : Deferred(x) <=> (Deferred(x))'
    BY Zenon, <1>2, <2>1 DEF Deferred
  <2>4. DeferredInv'
    BY Zenon, <1>0, <1>1, <2>3 DEF DInv, DeferredInv
  <2> QED
    BY <1>3, <2>2, <2>4
<1>5. ASSUME NEW b \in setBlockIndexCandidates, NEW x \in ChainOf[b], x \notin haveData,
             GiveUp(b, x)
      PROVE  Forgotten' /\ DeferredInv'
  <2>1. b \in Blocks /\ x \in Blocks /\ ChainOf[b] \subseteq Blocks
    BY Zenon, TreeAssumption DEF DInv, WInv, SInv, IInv, TypeOK
  <2>2. \A y \in Blocks : Unlinked(y) => (Unlinked(y))'
    <3>1. mapBlocksUnlinked \in [Blocks -> Nat]
      BY Zenon DEF DInv, WInv, SInv, IInv, TypeOK
    <3> QED
      BY ONLY <1>5, <3>1 DEF GiveUp, Unlinked
  <2>3. Forgotten'
    BY Zenon, <1>1, <1>2, <2>2 DEF DInv, Forgotten
  <2>4. \A y \in Blocks : Deferred(y) => (Deferred(y))'
    BY Zenon, <1>2, <2>2 DEF Deferred
  <2>5. \A y \in Blocks : (Deferred(y))' => Deferred(y) \/ (y \in PathSet(b, x) /\ x \notin failed)
    BY Zenon, <1>2, <1>5 DEF Deferred, GiveUp, Unlinked
  <2>6. ASSUME NEW y \in PathSet(b, x), y # Genesis
        PROVE  Prev[y] = x \/ Prev[y] \in PathSet(b, x)
    <3>1. y \in ChainOf[b] /\ y \in NonGenesis /\ nHeight[y] > nHeight[x] /\ Prev[y] \in Blocks
      BY Zenon, <2>1, <2>6, TreeAssumption DEF PathSet, NonGenesis
    <3>2. Prev[y] \in ChainOf[y] /\ Prev[y] \in ChainOf[b]
      BY ZenonT(30), SMTT(30), <2>1, <3>1, ChainBasics, ChainTransitive, TreeAssumption
    <3>3. nHeight[Prev[y]] = nHeight[x] \/ nHeight[Prev[y]] > nHeight[x]
      BY SMT, SMTT(30), <2>1, <3>1, TreeAssumption
    <3>4. CASE nHeight[Prev[y]] = nHeight[x]
      <4>1. x \in ChainOf[Prev[y]] /\ ~(nHeight[x] < nHeight[Prev[y]])
        <5>1. nHeight[x] \in Nat /\ nHeight[Prev[y]] \in Nat
          BY Zenon, <2>1, <3>1, TreeAssumption
        <5> QED
          BY ONLY SMT, SMTT(30), <1>5, <2>1, <3>1, <3>2, <3>4, <5>1, ChainLinear
      <4> QED
        BY Zenon, <3>1, <4>1, ChainHeight
    <3> QED
      BY Zenon, <3>2, <3>3, <3>4 DEF PathSet
  <2>7. x \notin failed => \A y \in PathSet(b, x) : (Deferred(y))'
    <3>1. mapBlocksUnlinked \in [Blocks -> Nat] /\ PathSet(b, x) \subseteq Blocks
      BY Zenon, <2>1 DEF PathSet, DInv, WInv, SInv, IInv, TypeOK
    <3>2. x \notin failed => \A y \in PathSet(b, x) : (Unlinked(y))'
      BY ONLY <1>5, <3>1 DEF GiveUp, Unlinked
    <3> QED
      BY Zenon, <3>2 DEF Deferred
  <2>8. \A y \in NonGenesis : (Deferred(y))' => Prev[y] \notin haveData' \/ (Deferred(Prev[y]))'
    <3> SUFFICES ASSUME NEW y \in NonGenesis, (Deferred(y))'
                 PROVE  Prev[y] \notin haveData \/ (Deferred(Prev[y]))'
      OBVIOUS
    <3>1. CASE Deferred(y)
      BY Zenon, <1>0, <1>1, <2>4, <3>1 DEF DInv, DeferredInv
    <3>2. CASE y \in PathSet(b, x) /\ x \notin failed
      BY <1>5, <2>6, <2>7, <3>2 DEF NonGenesis
    <3> QED
      BY Zenon, <1>1, <2>5, <3>1, <3>2
  <2> QED
    BY Zenon, <2>3, <2>8 DEF DeferredInv
<1> QED
  BY Zenon, <1>3, <1>4, <1>5

\* PruneOneBlockFile forgets what waits among the blocks it deletes.
LEMMA PruneDeferred ==
  ASSUME DInv, NoQueue, NoQueue', UNCHANGED <<hasTx, linked, failedValid, failedChild>>,
         NEW P, NEW undo, PruneFiles(P, undo)
  PROVE  FailedSettled' /\ Forgotten' /\ DeferredInv'
<1>0. \A x \in Blocks : ~InQueue(x) /\ ~(InQueue(x))'
  BY ONLY NoQueue, NoQueue' DEF NoQueue, InQueue
<1>1. /\ haveData \subseteq Blocks /\ hasTx \subseteq Blocks /\ failed' = failed
      /\ \A x \in NonGenesis : x \in Blocks /\ Prev[x] \in Blocks
  BY TreeAssumption DEF failed, NonGenesis, DInv, WInv, SInv, IInv, TypeOK
<1>2. \A x \in Blocks : LinkedSoon(x) <=> (LinkedSoon(x))'
  BY Zenon, <1>0 DEF LinkedSoon
<1>3. haveData' = haveData \ P
  BY DEF PruneFiles
<1>4. \A x \in Blocks : (Unlinked(x))' <=> Unlinked(x) /\ x \notin P
  <2>1. mapBlocksUnlinked \in [Blocks -> Nat]
    BY Zenon DEF DInv, WInv, SInv, IInv, TypeOK
  <2> QED
    BY ONLY PruneFiles(P, undo), <2>1 DEF PruneFiles, UnlinkedAfterPrune, Unlinked
<1>5. FailedSettled'
  BY Zenon, <1>1, <1>2 DEF DInv, FailedSettled
<1>6. Forgotten'
  BY Zenon, <1>1, <1>2, <1>3, <1>4 DEF DInv, Forgotten
<1>7. \A x \in Blocks : (Deferred(x))' <=> Deferred(x) /\ x \notin P
  BY Zenon, <1>2, <1>3, <1>4 DEF Deferred
<1>8. DeferredInv'
  BY Zenon, <1>0, <1>1, <1>3, <1>7 DEF DInv, DeferredInv
<1> QED
  BY Zenon, <1>5, <1>6, <1>8

LEMMA ReceiveBlockDeferred ==
  ASSUME DInv, NEW c \in Callers, NEW b \in NonGenesis, NEW fRequested \in BOOLEAN,
         ReceiveBlock(c, b, fRequested)
  PROVE  FailedSettled' /\ Forgotten' /\ DeferredInv'
<1>1. NoQueue
  BY Zenon, QueueEmpty DEF ReceiveBlock, DInv, WInv, SInv
<1>0. \A x \in Blocks : ~InQueue(x)
  BY ONLY SMT, SMTT(30), <1>1 DEF NoQueue, InQueue
<1>2. /\ b \in Blocks /\ b # Genesis /\ Prev[b] \in Blocks /\ Prev[b] \in mapBlockIndex
      /\ Prev[b] # b /\ b \notin failed /\ b \notin haveData
  BY TreeAssumption
  DEF NonGenesis, ReceiveBlock, HeaderAccepted, Ignored, DInv, WInv, SInv, IndexInv
<1>3. /\ haveData \subseteq Blocks /\ hasTx \subseteq Blocks
      /\ \A x \in NonGenesis : x \in Blocks /\ Prev[x] \in Blocks
  BY Zenon, TreeAssumption DEF NonGenesis, DInv, WInv, SInv, IInv, TypeOK
<1>4. /\ linked' = linked \ {b} /\ haveData' = haveData \cup {b} /\ hasTx' = hasTx \cup {b}
      /\ failed' = failed
      /\ queue' = (IF Prev[b] \in linked THEN [None EXCEPT ![b] = 1] ELSE None)
      /\ \A x \in Blocks \ {b} : mapBlocksUnlinked'[x] = mapBlocksUnlinked[x]
      /\ IF Prev[b] \notin linked /\ IsValid(Prev[b], VALID_TREE)
           THEN mapBlocksUnlinked'[b] = mapBlocksUnlinked[b] + 1
           ELSE mapBlocksUnlinked'[b] = mapBlocksUnlinked[b]
  BY Zenon, <1>2 DEF ReceiveBlock, failed, DInv, WInv, SInv, IInv, TypeOK
<1>5. \A x \in Blocks : (InQueue(x))' <=> x = b /\ Prev[b] \in linked
  BY ONLY SMT, SMTT(30), <1>2, <1>4 DEF InQueue, None
<1>6. /\ \A x \in Blocks \ {b} : /\ LinkedSoon(x) <=> (LinkedSoon(x))'
                                 /\ Unlinked(x) <=> (Unlinked(x))'
                                 /\ Deferred(x) <=> (Deferred(x))'
      /\ (LinkedSoon(b))' <=> Prev[b] \in linked
      /\ mapBlocksUnlinked[b] = 0
  <2>1. ~Unlinked(b) /\ mapBlocksUnlinked[b] \in Nat
    BY Zenon, <1>2 DEF DInv, WInv, SInv, StoreInv, IInv, TypeOK
  <2> QED
    <3>1. mapBlocksUnlinked[b] = 0
      BY ONLY <2>1 DEF Unlinked
    <3>2. \A x \in Blocks \ {b} : LinkedSoon(x) <=> (LinkedSoon(x))'
      BY Zenon, <1>0, <1>4, <1>5 DEF LinkedSoon
    <3>3. \A x \in Blocks \ {b} : Unlinked(x) <=> (Unlinked(x))'
      BY Zenon, <1>4 DEF Unlinked
    <3>4. (LinkedSoon(b))' <=> Prev[b] \in linked
      BY Zenon, <1>2, <1>4, <1>5 DEF LinkedSoon
    <3> QED
      BY Zenon, <1>4, <3>1, <3>2, <3>3, <3>4 DEF Deferred
<1>7. (Unlinked(b))' <=> Prev[b] \notin linked /\ IsValid(Prev[b], VALID_TREE)
  BY ONLY <1>4, <1>6 DEF Unlinked
<1>8. FailedSettled'
  BY Zenon, <1>2, <1>3, <1>4, <1>6 DEF DInv, FailedSettled
<1>9. Forgotten'
  <2>1. (LinkedSoon(b))' \/ (Unlinked(b))' \/ Prev[b] \in failed' \ hasTx'
    <3> SUFFICES ASSUME Prev[b] \notin linked, ~IsValid(Prev[b], VALID_TREE)
                 PROVE  Prev[b] \in failed' \ hasTx'
      BY Zenon, <1>6, <1>7
    <3>1. Prev[b] \in failed
      BY Zenon, <1>2 DEF IsValid, DInv, WInv, SInv, IndexInv
    <3>2. Prev[b] \notin hasTx
      BY Zenon, <1>0, <1>2, <3>1 DEF DInv, FailedSettled, LinkedSoon
    <3> QED
      BY Zenon, <1>2, <1>4, <3>1, <3>2
  <2>2. ASSUME NEW x \in haveData' \ {Genesis}, x # b
        PROVE  (LinkedSoon(x))' \/ (Unlinked(x))' \/ Prev[x] \in failed' \ hasTx'
    BY Zenon, <1>2, <1>3, <1>4, <1>6, <2>2 DEF DInv, Forgotten
  <2> QED
    BY Zenon, <2>1, <2>2 DEF Forgotten
<1>10. Prev[b] \notin linked => (Deferred(b))'
  BY Zenon, <1>4, <1>6 DEF Deferred
<1>11. Prev[b] \in linked => ~(Deferred(b))'
  BY Zenon, <1>6, <1>7 DEF Deferred
<1>12. DeferredInv'
  <2> SUFFICES ASSUME NEW x \in NonGenesis, (Deferred(x))'
               PROVE  Prev[x] \notin haveData' \/ (Deferred(Prev[x]))' \/ (InQueue(Prev[x]))'
    BY Zenon DEF DeferredInv
  <2>1. CASE Prev[x] = b
    BY Zenon, <1>2, <1>5, <1>10, <2>1
  <2>2. CASE x = b
    <3>1. Prev[b] \in haveData => Deferred(Prev[b])
      BY Zenon, <1>0, <1>2, <1>11, <2>2 DEF Deferred, LinkedSoon
    <3> QED
      BY Zenon, <1>2, <1>4, <1>6, <2>2, <3>1
  <2>3. CASE x # b /\ Prev[x] # b
    BY Zenon, <1>0, <1>3, <1>4, <1>6, <2>3 DEF DInv, DeferredInv
  <2> QED
    BY Zenon, <2>1, <2>2, <2>3
<1> QED
  BY Zenon, <1>8, <1>9, <1>12

LEMMA LinkBlockDeferred ==
  ASSUME DInv, NEW c \in Callers, NEW b \in NonGenesis, LinkBlock(c, b)
  PROVE  FailedSettled' /\ Forgotten' /\ DeferredInv'
<1>1. /\ linked' = linked \cup {b} /\ queue' = PopAndPush(b) /\ b \in Blocks
      /\ mapBlocksUnlinked' = EraseChildren(b) /\ UNCHANGED <<haveData, hasTx>>
      /\ failed' = failed /\ InQueue(b) /\ b \in hasTx
  BY Zenon DEF LinkBlock, NonGenesis, failed, InQueue, DInv, WInv, SInv, IInv, ReceivedInv
<1>2. /\ haveData \subseteq Blocks /\ hasTx \subseteq Blocks
      /\ \A x \in NonGenesis : x \in Blocks /\ Prev[x] \in Blocks /\ Prev[x] # x
  BY TreeAssumption DEF NonGenesis, DInv, WInv, SInv, IInv, TypeOK
<1>3. \A x \in Blocks \ {b} : InQueue(x) => (InQueue(x))'
  BY <1>1 DEF InQueue, PopAndPush, DInv, WInv, SInv, IInv, TypeOK
<1>4. \A x \in Blocks : LinkedSoon(x) => (LinkedSoon(x))'
  BY Zenon, <1>1, <1>3 DEF LinkedSoon
<1>5. \A x \in Blocks : Unlinked(x) => IF x \in Children(b) THEN (InQueue(x))' ELSE (Unlinked(x))'
  <2>1. mapBlocksUnlinked \in [Blocks -> Nat] /\ queue \in [Blocks -> Nat]
    BY Zenon DEF DInv, WInv, SInv, IInv, TypeOK
  <2> QED
    <3>1. Children(b) \subseteq Blocks \ {b}
      BY Zenon, <1>2 DEF Children
    <3>2. \A x \in Children(b) : Unlinked(x) => (InQueue(x))'
      BY ONLY <1>1, <2>1, <3>1 DEF Unlinked, InQueue, PopAndPush
    <3>3. \A x \in Blocks \ Children(b) : Unlinked(x) => (Unlinked(x))'
      BY Zenon, <1>1 DEF Unlinked, EraseChildren
    <3> QED
      BY Zenon, <3>2, <3>3
<1>6. \A x \in Blocks : (Unlinked(x))' => Unlinked(x) /\ x \notin Children(b)
  BY <1>1 DEF Unlinked, EraseChildren
<1>7. FailedSettled'
  BY <1>1, <1>2, <1>4 DEF DInv, FailedSettled
<1>8. Forgotten'
  BY Zenon, <1>1, <1>2, <1>4, <1>5 DEF DInv, Forgotten, LinkedSoon
<1>9. \A x \in Blocks : (Deferred(x))' => Deferred(x)
  BY Zenon, <1>1, <1>4, <1>6 DEF Deferred
<1>10. DeferredInv'
  <2> SUFFICES ASSUME NEW x \in NonGenesis, (Deferred(x))', Prev[x] \in haveData
               PROVE  (Deferred(Prev[x]))' \/ (InQueue(Prev[x]))'
    BY Zenon, <1>1 DEF DeferredInv
  <2>1. CASE Prev[x] = b
    <3>1. x \in Children(b) /\ x \in Blocks /\ x \in haveData \ {Genesis}
      BY Zenon, <1>1, <1>2, <1>6, <2>1 DEF Children, Deferred, NonGenesis
    <3>2. ~LinkedSoon(x) /\ ~Unlinked(x)
      BY Zenon, <1>4, <1>5, <1>6, <3>1 DEF Deferred, LinkedSoon
    <3> QED
      BY Zenon, <1>1, <2>1, <3>1, <3>2 DEF DInv, Forgotten
  <2>2. CASE Prev[x] # b
    <3>1. Deferred(Prev[x]) \/ InQueue(Prev[x])
      BY Zenon, <1>2, <1>9 DEF DInv, DeferredInv
    <3>2. CASE InQueue(Prev[x]) \/ Unlinked(Prev[x])
      BY Zenon, <1>2, <1>3, <1>5, <2>2, <3>2 DEF Deferred
    <3>3. CASE ~LinkedSoon(Prev[x]) /\ Prev[x] \in haveData
      BY Zenon, <1>1, <1>2, <2>2, <3>3 DEF Deferred, LinkedSoon
    <3> QED
      BY Zenon, <3>1, <3>2, <3>3 DEF Deferred
  <2> QED
    BY Zenon, <2>1, <2>2
<1> QED
  BY <1>7, <1>8, <1>10

LEMMA NextDInv == DInv /\ [Next]_vars => DInv'
<1> SUFFICES ASSUME DInv, [Next]_vars PROVE FailedSettled' /\ Forgotten' /\ DeferredInv'
  BY NextAInv, NextWInv DEF DInv, NextWithInvalidate
<1>0. SInv
  BY DEF DInv, WInv
<1>1. CASE UNCHANGED vars
  <2>1. \A x : (LinkedSoon(x))' = LinkedSoon(x) /\ (Unlinked(x))' = Unlinked(x)
               /\ (InQueue(x))' = InQueue(x)
    BY Zenon, <1>1 DEF LinkedSoon, InQueue, Unlinked
  <2> QED
    BY Zenon, <1>1, <2>1 DEF DInv, FailedSettled, Forgotten, DeferredInv, Deferred, failed
<1>2. ASSUME NEW c \in Callers, NEW b \in NonGenesis, NEW fRequested \in BOOLEAN,
             AcceptBlockHeader(b) \/ RejectBlock(c, b, fRequested)
      PROVE  FailedSettled' /\ Forgotten' /\ DeferredInv'
  <2>1. /\ UNCHANGED <<haveData, hasTx, linked, queue, mapBlocksUnlinked>>
        /\ failed \subseteq failed' /\ failed' \cap hasTx \subseteq failed
    BY Zenon, <1>2 DEF AcceptBlockHeader, RejectBlock, failed, DInv, AInv, VerdictInv
  <2>2. \A x : (LinkedSoon(x))' = LinkedSoon(x) /\ (Unlinked(x))' = Unlinked(x)
               /\ (InQueue(x))' = InQueue(x)
    BY Zenon, <2>1 DEF LinkedSoon, InQueue, Unlinked
  <2> QED
    BY Zenon, <2>1, <2>2 DEF DInv, FailedSettled, Forgotten, DeferredInv, Deferred
<1>3. ASSUME NEW c \in Callers, NEW b \in NonGenesis, NEW fRequested \in BOOLEAN,
             IgnoreBlock(c, b, fRequested)
      PROVE  FailedSettled' /\ Forgotten' /\ DeferredInv'
  <2>1. NoQueue
    BY Zenon, <1>0, <1>3, QueueEmpty DEF IgnoreBlock, SInv
  <2>2. NoQueue' /\ failed' = failed /\ UNCHANGED <<haveData, hasTx, linked, mapBlocksUnlinked>>
    BY <1>3 DEF IgnoreBlock, NoQueue, None, failed
  <2> QED
    BY Zenon, <2>1, <2>2, DeferredKept
<1>4. ASSUME NEW c \in Callers, FinishAccept(c) \/ ConnectTip(c)
      PROVE  FailedSettled' /\ Forgotten' /\ DeferredInv'
  <2>1. PICK P, undo : PruneFiles(P, undo)
    BY Zenon, <1>4 DEF FinishAccept, ConnectTip
  <2>2. NoQueue
    BY Zenon, <1>0, <1>4, QueueEmpty DEF FinishAccept, ConnectTip, SInv, NoQueue, None
  <2>3. NoQueue' /\ UNCHANGED <<hasTx, linked, failedValid, failedChild>>
    BY Zenon, <1>4, <2>2 DEF FinishAccept, ConnectTip, EndStep, Return, NoQueue, None
  <2> QED
    BY Zenon, <2>1, <2>2, <2>3, PruneDeferred
<1>5. ASSUME NEW c \in Callers, FindMostWorkChain(c)
      PROVE  FailedSettled' /\ Forgotten' /\ DeferredInv'
  <2>1. NoQueue
    BY Zenon, <1>0, <1>5, QueueEmpty DEF FindMostWorkChain, SInv
  <2>2. /\ NoQueue' /\ UNCHANGED <<haveData, hasTx, linked>> /\ failed \subseteq failed'
    BY Zenon, <1>5, <2>1 DEF FindMostWorkChain, Return, NoQueue, None, failed, GiveUp
  <2>3. CASE UNCHANGED <<failedChild, mapBlocksUnlinked>>
    BY Zenon, <1>5, <2>1, <2>2, <2>3, DeferredKept DEF FindMostWorkChain, failed
  <2>4. ASSUME NEW b \in setBlockIndexCandidates, NEW x \in ChainOf[b], IsFirstUnusable(b, x),
               GiveUp(b, x)
        PROVE  FailedSettled' /\ Forgotten' /\ DeferredInv'
    <3>1. PathSet(b, x) \subseteq linked
      BY Zenon, <1>0, <2>1, AllLinked DEF PathSet
    <3>2. failed' \subseteq failed \cup linked
      BY Zenon, <1>5, <2>4, <3>1 DEF GiveUp, failed, FindMostWorkChain
    <3>3. CASE x \in failed
      BY Zenon, <2>1, <2>2, <2>4, <3>2, <3>3, DeferredKept DEF GiveUp
    <3>4. CASE x \notin failed
      <4>1. x \notin haveData
        BY Zenon, <2>4, <3>4 DEF IsFirstUnusable, Unusable
      <4> QED
        BY Zenon, <2>1, <2>2, <2>4, <3>2, <4>1, DeferredKept
    <3> QED
      BY Zenon, <3>3, <3>4
  <2> QED
    BY Zenon, <1>5, <2>3, <2>4 DEF FindMostWorkChain
<1>6. ASSUME NEW c \in Callers, BeginStep(c) \/ DisconnectTip(c) \/ ConnectTipFails(c)
      PROVE  FailedSettled' /\ Forgotten' /\ DeferredInv'
  <2>1. NoQueue
    BY Zenon, <1>0, <1>6, QueueEmpty DEF BeginStep, DisconnectTip, ConnectTipFails, SInv
  <2>2. NoQueue'
    BY Zenon, <1>6, <2>1
    DEF BeginStep, DisconnectTip, ConnectTipFails, EndStep, Return, AbortNode, NoQueue, None
  <2>3. /\ UNCHANGED <<haveData, hasTx, linked, mapBlocksUnlinked, failedChild>>
        /\ failedValid' = failedValid \/ (ConnectTipFails(c) /\ failedValid' = failedValid \cup {NextToConnect(c)})
    BY Zenon, <1>6 DEF BeginStep, DisconnectTip, ConnectTipFails, AbortNode
  <2>4. ConnectTipFails(c) => NextToConnect(c) \in linked
    BY ZenonT(30), SMTT(30), <1>0, <2>1, AllLinked, NextToConnectFacts DEF ConnectTipFails, SInv, IInv, LockInv
  <2>5. failed \subseteq failed' /\ failed' \subseteq failed \cup linked
    BY ZenonT(30), <2>3, <2>4 DEF failed
  <2> QED
    BY Zenon, <2>1, <2>2, <2>3, <2>5, DeferredKept
<1>7. ASSUME NEW c \in Callers, InvalidateTip(c) \/ FinishInvalidate(c) PROVE FALSE
  BY Zenon, <1>7 DEF InvalidateTip, FinishInvalidate, DInv, AInv, VerdictInv
<1> QED
  BY Zenon, <1>1, <1>2, <1>3, <1>4, <1>5, <1>6, <1>7, ReceiveBlockDeferred, LinkBlockDeferred
  DEF Next, Arrival, Continue

\* While no block is being linked, a deferred block misses an ancestor's data.
LEMMA DeferredMisses ==
  ASSUME DInv, NoQueue
  PROVE  \A b \in Blocks : Deferred(b) => ~(ChainOf[b] \subseteq haveData)
<1> DEFINE S == {b \in Blocks : Deferred(b) => ~(ChainOf[b] \subseteq haveData)}
<1>1. Genesis \in S
  BY TreeAssumption DEF Deferred, Unlinked, LinkedSoon, DInv, WInv, SInv, IInv, ReceivedInv
<1>2. \A b \in NonGenesis : Prev[b] \in S => b \in S
  <2> SUFFICES ASSUME NEW b \in NonGenesis, Prev[b] \in S, Deferred(b)
               PROVE  ~(ChainOf[b] \subseteq haveData)
    BY DEF NonGenesis
  <2>1. Prev[b] \notin haveData \/ Deferred(Prev[b])
    BY DEF DInv, DeferredInv, InQueue, NoQueue
  <2>2. ChainOf[b] = {b} \cup ChainOf[Prev[b]] /\ Prev[b] \in ChainOf[Prev[b]]
    BY ChainBasics, TreeAssumption
  <2> QED
    BY <2>1, <2>2
<1>3. S = Blocks
  <2> HIDE DEF S
  <2>1. S \in SUBSET Blocks
    BY DEF S
  <2> QED
    BY <1>1, <1>2, <2>1, TreeInduction
<1> QED
  BY <1>3

\* Only stored blocks that miss the data of an ancestor wait in
\* mapBlocksUnlinked (ReceivedBlockTransactions, FindMostWorkChain and
\* PruneOneBlockFile in src/main.cpp), for any number of threads and with
\* pruning.
THEOREM UnlinkedAlwaysWaiting == Spec => []UnlinkedIsWaiting
<1>1. DInv => UnlinkedIsWaiting
  <2> SUFFICES ASSUME DInv, Quiet, NEW b \in Blocks, Unlinked(b)
               PROVE  b \in haveData /\ ~(ChainOf[b] \subseteq haveData)
    BY DEF UnlinkedIsWaiting
  <2>1. NoQueue
    BY QueueEmpty DEF Quiet, DInv, WInv, SInv
  <2> QED
    BY <2>1, DeferredMisses DEF Deferred, DInv, WInv, SInv, StoreInv
<1> QED
  BY <1>1, InitDInv, NextDInv, PTL DEF Spec

-----------------------------------------------------------------------------
(* Nodes that do not prune: no chain is higher than nPruneAfterHeight *)

NoPruning == \A b \in Blocks : nHeight[b] <= PruneAfterHeight

\* Their pruning steps delete nothing.
LEMMA NothingPruned ==
  ASSUME NoPruning, TypeOK, NEW P \in PrunableSets(haveData, tip, nLastBlockFile)
  PROVE  P = {}
<1>1. tip \in Blocks /\ nHeight[tip] \in Nat /\ PruneAfterHeight \in Nat
  BY TreeAssumption, ParameterAssumption DEF TypeOK
<1>2. ~(nHeight[tip] > PruneAfterHeight)
  BY <1>1 DEF NoPruning
<1> QED
  BY Zenon, <1>2, PrunedFrom

LEMMA NextUnpruned ==
  ASSUME NoPruning, TypeOK, fHavePruned = FALSE, [NextWithOperator]_vars
  PROVE  fHavePruned' = FALSE
<1>1. ASSUME NEW c \in Callers, FinishAccept(c) \/ ConnectTip(c) PROVE fHavePruned' = FALSE
  BY Zenon, <1>1, NothingPruned DEF FinishAccept, ConnectTip, PruneFiles
<1>2. ASSUME NEW c \in Callers, Arrival(c) PROVE fHavePruned' = FALSE
  BY ZenonT(30), SMTT(30), <1>2 DEF Arrival, AcceptBlockHeader, IgnoreBlock, RejectBlock, ReceiveBlock
<1>3. ASSUME NEW c \in Callers, Continue(c), ~FinishAccept(c), ~ConnectTip(c)
      PROVE  fHavePruned' = FALSE
  BY Zenon, <1>3
  DEF Continue, LinkBlock, BeginStep, FindMostWorkChain, DisconnectTip, ConnectTipFails,
      InvalidateTip, FinishInvalidate, AbortNode
<1>4. ASSUME NEW c \in Callers, NEW b \in Blocks, InvalidateBlock(c, b) \/ ReconsiderBlock(c, b)
      PROVE  fHavePruned' = FALSE
  BY Zenon, <1>4 DEF InvalidateBlock, ReconsiderBlock
<1> QED
  BY Zenon, <1>1, <1>2, <1>3, <1>4, ParameterAssumption
  DEF NextWithOperator, NextWithInvalidate, Next

\* On a node that does not prune, a block is linked exactly when it and all of
\* its ancestors were received (ReceivedBlockTransactions in src/main.cpp), in
\* whatever order they arrive and whatever fails meanwhile.
THEOREM LinkedExactly == ASSUME NoPruning PROVE Spec => []LinkedMeansReceived
<1> DEFINE UInv == DInv /\ fHavePruned = FALSE
<1>1. Init => UInv
  BY InitDInv DEF Init
<1>2. UInv /\ [Next]_vars => UInv'
  <2> SUFFICES ASSUME UInv, [Next]_vars PROVE fHavePruned' = FALSE
    BY Zenon, NextDInv
  <2> QED
    BY Zenon, NextUnpruned DEF DInv, WInv, SInv, IInv, NextWithOperator, NextWithInvalidate
<1>3. UInv => LinkedMeansReceived
  <2> SUFFICES ASSUME UInv, Quiet, NEW b \in mapBlockIndex
               PROVE  b \in linked <=> ChainOf[b] \subseteq hasTx
    BY Zenon DEF LinkedMeansReceived
  <2>1. NoQueue /\ b \in Blocks
    BY Zenon, QueueEmpty DEF Quiet, DInv, WInv, SInv, IInv, TypeOK
  <2>2. b \in linked => ChainOf[b] \subseteq hasTx
    BY Zenon, <2>1, AllLinked DEF DInv, WInv
  <2>3. hasTx = haveData
    BY DEF DInv, WInv, SInv, StoreInv
  <2>4. ChainOf[b] \subseteq haveData => b \in linked
    BY <2>1, DeferredMisses, ChainBasics DEF Deferred, LinkedSoon, InQueue, NoQueue
  <2> QED
    BY Zenon, <2>2, <2>3, <2>4
<1> QED
  BY <1>1, <1>2, <1>3, PTL DEF Spec

=============================================================================
