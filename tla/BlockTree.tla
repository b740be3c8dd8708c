------------------------------ MODULE BlockTree ------------------------------
(***************************************************************************)
(* The in-memory block index and the activation of the best chain          *)
(* (src/main.cpp, src/chain.h): headers and blocks arrive, blocks are      *)
(* linked to their ancestors, the candidate with the most work is made     *)
(* active step by step, blocks are invalidated and reconsidered by the     *)
(* operator, and old block files are pruned.                               *)
(*                                                                         *)
(* Every caller of ProcessNewBlock, invalidateblock and reconsiderblock is *)
(* a thread of its own.  cs_main is a lock: an action that takes or holds  *)
(* it is one iteration of one of the loops that run under it, and the      *)
(* other threads run only where the code has released it, which            *)
(* ActivateBestChain does between its steps.                               *)
(***************************************************************************)
EXTENDS Naturals, FiniteSets

CONSTANTS
  Blocks,        \* every block that may ever be announced
  Genesis,
  Prev,          \* pprev: the parent of every block but Genesis
  nHeight,       \* CBlockIndex::nHeight
  nChainWork,    \* CBlockIndex::nChainWork
  ChainOf,       \* ChainOf[b]: b and all its ancestors
  BadContext,    \* blocks that ContextualCheckBlock refuses
  BadConnect,    \* blocks that ConnectBlock finds invalid
  Corrupt,       \* blocks whose stored copy fails CheckBlock in ConnectBlock
  Callers,       \* threads that process blocks or serve RPC calls
  CsMainHolders, \* the callers that hold cs_main during the whole call: the
                 \* message handler does (the lock is recursive)
  Reconsidered,  \* the blocks the operator passes to reconsiderblock
  NULL,
  MinBlocksToKeep, PruneAfterHeight,
  MaxSequenceId, \* bound on nBlockSequenceId
  MaxFile        \* bound on nLastBlockFile

VARIABLES
  mapBlockIndex,      \* blocks with an index entry
  validity,           \* nStatus & BLOCK_VALID_MASK
  failedValid,        \* entries with BLOCK_FAILED_VALID
  failedChild,        \* entries with BLOCK_FAILED_CHILD
  haveData,           \* entries with BLOCK_HAVE_DATA
  haveUndo,           \* entries with BLOCK_HAVE_UNDO
  hasTx,              \* entries with nTx > 0
  linked,             \* entries with nChainTx > 0
  nSequenceId, nBlockSequenceId,
  setBlockIndexCandidates,
  mapBlocksUnlinked,  \* how often a block is entered; its key is Prev
  tip,                \* chainActive.Tip()
  nFile, nLastBlockFile, fHavePruned,
  nHeightLast,        \* vinfoBlockFile[f].nHeightLast
  csMain,             \* the thread that holds cs_main, or NULL
  pc,
  pblock,             \* the block that ActivateBestChain has in memory, or NULL
  pindexMostWork,     \* local to ActivateBestChain, kept across its steps
  pindexOldTip,       \* local to ActivateBestChainStep
  queue,              \* local to ReceivedBlockTransactions: how often a
                      \* block is in the queue; the order is left open
  pindexInvalid,      \* the argument of the running InvalidateBlock
  aborted             \* AbortNode was called

index == <<mapBlockIndex, validity, failedValid, failedChild, hasTx, linked,
           nSequenceId, nBlockSequenceId>>
files == <<haveData, haveUndo, nFile, nLastBlockFile, fHavePruned, nHeightLast>>
chain == <<setBlockIndexCandidates, mapBlocksUnlinked, tip>>
threads == <<csMain, pc, pblock, pindexMostWork, pindexOldTip, queue,
             pindexInvalid, aborted>>
vars == <<index, files, chain, threads>>

NonGenesis == Blocks \ {Genesis}
Files == 0 .. MaxFile

\* The block tree: each block knows its parent, and heights, work and
\* ancestors follow from it.
ASSUME TreeAssumption ==
  /\ Genesis \in Blocks
  /\ IsFiniteSet(Blocks)
  /\ Prev \in [NonGenesis -> Blocks]
  /\ nHeight \in [Blocks -> Nat]
  /\ nHeight[Genesis] = 0
  /\ \A b \in NonGenesis : nHeight[b] = nHeight[Prev[b]] + 1
  /\ nChainWork \in [Blocks -> Nat]
  /\ \A b \in NonGenesis : nChainWork[b] > nChainWork[Prev[b]]
  /\ ChainOf \in [Blocks -> SUBSET Blocks]
  /\ ChainOf[Genesis] = {Genesis}
  /\ \A b \in NonGenesis : ChainOf[b] = {b} \cup ChainOf[Prev[b]]

\* It is a tree: every block is reached from Genesis.
ASSUME TreeInduction ==
  \A S \in SUBSET Blocks :
    (Genesis \in S /\ \A b \in NonGenesis : Prev[b] \in S => b \in S) => S = Blocks

ASSUME VerdictAssumption ==
  /\ BadContext \subseteq NonGenesis
  /\ BadConnect \subseteq NonGenesis
  /\ Corrupt \subseteq NonGenesis

ASSUME ParameterAssumption ==
  /\ Reconsidered \subseteq Blocks
  /\ CsMainHolders \subseteq Callers
  /\ NULL \notin Blocks /\ NULL \notin Callers
  /\ MinBlocksToKeep \in Nat /\ PruneAfterHeight \in Nat
  /\ MinBlocksToKeep <= PruneAfterHeight
  /\ MaxSequenceId \in Nat /\ MaxFile \in Nat

-----------------------------------------------------------------------------
(* Block status (chain.h) *)

VALID_UNKNOWN == 0
VALID_TREE == 2
VALID_TRANSACTIONS == 3
VALID_SCRIPTS == 5

failed == failedValid \cup failedChild

IsValid(b, nUpTo) == b \notin failed /\ validity[b] >= nUpTo

\* Mutant: the old level is not masked out.
RaiseValidityUnmasked(b, nUpTo) ==
  IF b \in failed \/ validity[b] >= nUpTo THEN validity
  ELSE [validity EXCEPT ![b] =
          IF @ = VALID_TRANSACTIONS /\ nUpTo = VALID_SCRIPTS THEN 7 ELSE nUpTo]

RaiseValidity(b, nUpTo) ==
  IF b \in failed \/ validity[b] >= nUpTo THEN validity
  ELSE [validity EXCEPT ![b] = nUpTo]

\* CBlockIndexWorkComparator: less work first, then the later one received.
\* Two linked blocks never have the same sequence id (SequenceIdsDistinct).
Worse(seq, a, b) ==
  \/ nChainWork[a] < nChainWork[b]
  \/ nChainWork[a] = nChainWork[b] /\ seq[a] > seq[b]

chainActive == ChainOf[tip]

None == [b \in Blocks |-> 0]

Children(b) == {x \in NonGenesis : Prev[x] = b}

-----------------------------------------------------------------------------
(* Pruning (FindFilesToPrune, PruneOneBlockFile).  Block and file sizes are *)
(* abstracted to a free choice of when a file is full and of how many       *)
(* files the target asks to delete; the files go in ascending order.        *)

BlocksInFile(data, f) == {b \in data : nFile[b] = f}

\* CBlockFileInfo::AddBlock, called by FindBlockPos, keeps the largest height.
\* Mutant: it keeps the last one.
AddBlockLast(f, b) == [nHeightLast EXCEPT ![f] = nHeight[b]]

AddBlock(f, b) == [nHeightLast EXCEPT ![f] = IF nHeight[b] > @ THEN nHeight[b] ELSE @]

\* The files that are not empty (nSize) and hold no recent block.
PrunableFiles(data, top, last) ==
  {f \in {nFile[b] : b \in data} :
     /\ nHeight[top] > PruneAfterHeight
     /\ f < last
     /\ nHeightLast[f] <= nHeight[top] - MinBlocksToKeep}

\* The sets of blocks that one call of FlushStateToDisk may prune.
PrunableSets(data, top, last) ==
  {UNION {BlocksInFile(data, f) : f \in {g \in PrunableFiles(data, top, last) : g < k}} :
     k \in 0 .. last}

\* What PruneOneBlockFile leaves of mapBlocksUnlinked and of the undo flags.
\* Mutants: waiting blocks are not forgotten; the undo flag survives.
KeepUnlinked(P) == mapBlocksUnlinked

UnlinkedAfterPrune(P) == [b \in Blocks |-> IF b \in P THEN 0 ELSE mapBlocksUnlinked[b]]

KeepUndo(P, undo) == undo

UndoAfterPrune(P, undo) == undo \ P

\* PruneOneBlockFile for every file that holds a block of P; undo is the set
\* of blocks with undo data before the call.
PruneFiles(P, undo) ==
  /\ haveData' = haveData \ P
  /\ haveUndo' = UndoAfterPrune(P, undo)
  /\ nFile' = [b \in Blocks |-> IF b \in P THEN 0 ELSE nFile[b]]
  /\ mapBlocksUnlinked' = UnlinkedAfterPrune(P)
  /\ fHavePruned' = (fHavePruned \/ P # {})
  /\ nHeightLast' = [f \in Files |->
                       IF f \in {nFile[b] : b \in P} THEN 0 ELSE nHeightLast[f]]
  /\ UNCHANGED nLastBlockFile

-----------------------------------------------------------------------------
(* Threads *)

\* Variables of the functions that run under cs_main.
scope == <<pindexOldTip, queue, pindexInvalid>>

\* Thread c ends its critical section and continues at label l; the local
\* variables of the section go out of scope.
Release(c, l) ==
  /\ csMain' = IF c \in CsMainHolders /\ l # "idle" THEN c ELSE NULL
  /\ pc' = [pc EXCEPT ![c] = l]
  /\ pindexOldTip' = NULL /\ queue' = None /\ pindexInvalid' = NULL

\* Thread c takes or keeps cs_main and continues at label l.
Hold(c, l) == csMain' = c /\ pc' = [pc EXCEPT ![c] = l]

Free(c, l) == ~aborted /\ csMain \in {NULL, c} /\ pc[c] = l
Holds(c, l) == ~aborted /\ csMain = c /\ pc[c] = l

\* AbortNode: the thread returns its error and the node shuts down.
AbortNode(c) ==
  /\ aborted' = TRUE
  /\ Release(c, "idle")
  /\ UNCHANGED <<index, files, chain, pblock, pindexMostWork>>

-----------------------------------------------------------------------------
(* AcceptBlockHeader, AddToBlockIndex *)

HeaderAccepted(b) ==
  IF b \in mapBlockIndex
    THEN b \notin failed
    ELSE Prev[b] \in mapBlockIndex /\ Prev[b] \notin failed

AddToBlockIndex(b) ==
  /\ mapBlockIndex' = mapBlockIndex \cup {b}
  /\ validity' = RaiseValidity(b, VALID_TREE)

\* A "headers" message announces b.
AcceptBlockHeader(b) ==
  /\ ~aborted /\ csMain = NULL
  /\ b \notin mapBlockIndex
  /\ HeaderAccepted(b)
  /\ AddToBlockIndex(b)
  /\ UNCHANGED <<failedValid, failedChild, hasTx, linked, nSequenceId,
                 nBlockSequenceId, files, chain, threads>>

-----------------------------------------------------------------------------
(* ProcessNewBlock: AcceptBlock under cs_main, then ActivateBestChain *)

\* AcceptBlock returns early and successfully: the block is known already,
\* or nobody asked for it and it is pruned, too light or too far ahead.
Ignored(b, fRequested) ==
  \/ b \in haveData
  \/ /\ ~fRequested
     /\ \/ b \in hasTx
        \/ nChainWork[b] <= nChainWork[tip]
        \/ nHeight[b] > nHeight[tip] + MinBlocksToKeep

IgnoreBlock(c, b, fRequested) ==
  /\ Free(c, "idle") /\ HeaderAccepted(b) /\ Ignored(b, fRequested)
  /\ AddToBlockIndex(b)
  /\ Release(c, "activate")
  /\ pblock' = [pblock EXCEPT ![c] = b]
  /\ UNCHANGED <<failedValid, failedChild, hasTx, linked, nSequenceId,
                 nBlockSequenceId, files, chain, pindexMostWork, aborted>>

\* ContextualCheckBlock refuses the block.
RejectBlock(c, b, fRequested) ==
  /\ Free(c, "idle") /\ HeaderAccepted(b) /\ ~Ignored(b, fRequested)
  /\ b \in BadContext
  /\ AddToBlockIndex(b)
  /\ failedValid' = failedValid \cup {b}
  /\ UNCHANGED <<failedChild, hasTx, linked, nSequenceId, nBlockSequenceId,
                 files, chain, threads>>

\* The bound on sequence ids leaves room for every waiting block.
RoomFor(b) ==
  nBlockSequenceId + Cardinality({x \in Blocks : mapBlocksUnlinked[x] > 0})
    <= MaxSequenceId

\* The block is written to a file (FindBlockPos) and entered in the index (a
\* write that fails only requests a shutdown: ChainState).
\* If its parent is linked, the loop of ReceivedBlockTransactions links it
\* and its waiting descendants; otherwise it waits in mapBlocksUnlinked.
ReceiveBlock(c, b, fRequested) ==
  /\ Free(c, "idle") /\ HeaderAccepted(b) /\ ~Ignored(b, fRequested)
  /\ b \notin BadContext
  /\ RoomFor(b)
  /\ mapBlockIndex' = mapBlockIndex \cup {b}
  /\ validity' = RaiseValidity(b, VALID_TRANSACTIONS)
  /\ hasTx' = hasTx \cup {b}
  /\ linked' = linked \ {b}
  /\ \E f \in {nLastBlockFile, nLastBlockFile + 1} \cap Files :
       /\ nFile' = [nFile EXCEPT ![b] = f]
       /\ nLastBlockFile' = f
       /\ nHeightLast' = AddBlock(f, b)
  /\ haveData' = haveData \cup {b}
  /\ queue' = IF Prev[b] \in linked THEN [None EXCEPT ![b] = 1] ELSE None
  /\ mapBlocksUnlinked' =
       IF Prev[b] \notin linked /\ IsValid(Prev[b], VALID_TREE)
         THEN [mapBlocksUnlinked EXCEPT ![b] = @ + 1] ELSE mapBlocksUnlinked
  /\ Hold(c, "link")
  /\ pblock' = [pblock EXCEPT ![c] = b]
  /\ UNCHANGED <<failedValid, failedChild, nSequenceId, nBlockSequenceId,
                 haveUndo, fHavePruned, setBlockIndexCandidates, tip,
                 pindexMostWork, pindexOldTip, pindexInvalid, aborted>>

\* The queue after b is taken from it and what waits for b is added.
\* Mutants: nothing is added; b is not taken the first time.
PopOnly(b) == [queue EXCEPT ![b] = @ - 1]

PopSecondTime(b) == IF b \in linked THEN [queue EXCEPT ![b] = @ - 1] ELSE queue

PopAndPush(b) ==
  [x \in Blocks |->
     IF x = b THEN queue[x] - 1
     ELSE IF x \in Children(b) THEN queue[x] + mapBlocksUnlinked[x] ELSE queue[x]]

\* mapBlocksUnlinked without the entries for b.
\* Mutant: all entries go.
EraseAll(b) == None

EraseChildren(b) ==
  [x \in Blocks |-> IF x \in Children(b) THEN 0 ELSE mapBlocksUnlinked[x]]

\* One iteration of the loop of ReceivedBlockTransactions.
LinkBlock(c, b) ==
  /\ Holds(c, "link") /\ queue[b] > 0
  /\ linked' = linked \cup {b}
  /\ nSequenceId' = [nSequenceId EXCEPT ![b] = nBlockSequenceId]
  /\ nBlockSequenceId' = nBlockSequenceId + 1
  /\ setBlockIndexCandidates' =
       IF Worse(nSequenceId', b, tip) THEN setBlockIndexCandidates
       ELSE setBlockIndexCandidates \cup {b}
  /\ queue' = PopAndPush(b)
  /\ mapBlocksUnlinked' = EraseChildren(b)
  /\ UNCHANGED <<mapBlockIndex, validity, failedValid, failedChild, hasTx,
                 files, tip, csMain, pc, pblock, pindexMostWork, pindexOldTip,
                 pindexInvalid, aborted>>

\* The end of AcceptBlock, which prunes when FindBlockPos allocated space.
FinishAccept(c) ==
  /\ Holds(c, "link") /\ queue = None
  /\ \E P \in PrunableSets(haveData, tip, nLastBlockFile) :
       PruneFiles(P, haveUndo)
  /\ Release(c, "activate")
  /\ UNCHANGED <<index, setBlockIndexCandidates, tip, pblock, pindexMostWork, aborted>>

-----------------------------------------------------------------------------
(* ActivateBestChain *)

\* ActivateBestChain returns.
Return(c) ==
  /\ Release(c, "idle")
  /\ pindexMostWork' = [pindexMostWork EXCEPT ![c] = NULL]
  /\ pblock' = [pblock EXCEPT ![c] = NULL]

\* The top of the loop: take cs_main, and look for a chain if none is kept
\* from the step before.
BeginStep(c) ==
  /\ Free(c, "activate")
  /\ IF pindexMostWork[c] = NULL
       THEN Hold(c, "find") /\ UNCHANGED <<pblock, pindexMostWork, scope>>
       ELSE IF pindexMostWork[c] = tip
         THEN Return(c)
         ELSE /\ Hold(c, "step")
              /\ pindexOldTip' = tip
              /\ UNCHANGED <<pblock, pindexMostWork, queue, pindexInvalid>>
  /\ UNCHANGED <<index, files, chain, aborted>>

\* The last entry of setBlockIndexCandidates in its order.
IsBestCandidate(b) ==
  \A x \in setBlockIndexCandidates \ {b} : Worse(nSequenceId, x, b)

\* Mutant: only missing data counts.
UnusableMissing(b) == {x \in ChainOf[b] \ chainActive : x \notin haveData}

\* The blocks between candidate b and the active chain that cannot be used.
Unusable(b) == {x \in ChainOf[b] \ chainActive : x \in failed \/ x \notin haveData}

\* Walking down from b, the first of them is x.
IsFirstUnusable(b, x) ==
  x \in Unusable(b) /\ \A y \in Unusable(b) : nHeight[y] <= nHeight[x]

\* The blocks from b down to x, x excluded.
\* Mutant: one block too many.
PathSetTooLong(b, x) == {y \in ChainOf[b] : nHeight[y] + 1 >= nHeight[x]}

PathSet(b, x) == {y \in ChainOf[b] : nHeight[y] > nHeight[x]}

\* The chain from b down to the unusable x is given up: it is marked if x
\* failed, and waits for x if x is missing.
GiveUp(b, x) ==
  /\ failedChild' = IF x \in failed THEN failedChild \cup PathSet(b, x)
                    ELSE failedChild
  /\ mapBlocksUnlinked' =
       IF x \in failed THEN mapBlocksUnlinked
       ELSE [y \in Blocks |-> IF y \in PathSet(b, x) THEN mapBlocksUnlinked[y] + 1
                              ELSE mapBlocksUnlinked[y]]
  /\ setBlockIndexCandidates' = setBlockIndexCandidates \ (PathSet(b, x) \cup {x})

\* One iteration of FindMostWorkChain: the best candidate is taken, or its
\* chain is not usable and is given up.
FindMostWorkChain(c) ==
  /\ Holds(c, "find")
  /\ \/ /\ setBlockIndexCandidates = {}
        /\ Return(c)
        /\ UNCHANGED <<failedChild, chain>>
     \/ \E b \in setBlockIndexCandidates :
          /\ IsBestCandidate(b) /\ Unusable(b) = {}
          /\ IF b = tip
               THEN Return(c)
               ELSE /\ Hold(c, "step")
                    /\ pindexMostWork' = [pindexMostWork EXCEPT ![c] = b]
                    /\ pindexOldTip' = tip
                    /\ UNCHANGED <<pblock, queue, pindexInvalid>>
          /\ UNCHANGED <<failedChild, chain>>
     \/ \E b \in setBlockIndexCandidates : \E x \in ChainOf[b] :
          /\ IsBestCandidate(b) /\ IsFirstUnusable(b, x)
          /\ GiveUp(b, x)
          /\ UNCHANGED <<tip, csMain, pc, pblock, pindexMostWork, scope>>
  /\ UNCHANGED <<mapBlockIndex, validity, failedValid, hasTx, linked,
                 nSequenceId, nBlockSequenceId, files, aborted>>

-----------------------------------------------------------------------------
(* ActivateBestChainStep *)

\* Leave the step.  The loop ends when the tip is the chain looked for.
EndStep(c, newTip) ==
  IF newTip = pindexMostWork[c]
    THEN Return(c)
    ELSE Release(c, "activate") /\ UNCHANGED <<pblock, pindexMostWork>>

\* DisconnectTip needs the block and its undo data on disk.  Without the
\* block the node aborts; without undo data the caller gets an error.
CanDisconnect == tip \in haveData /\ tip \in haveUndo

DisconnectTip(c) ==
  /\ Holds(c, "step")
  /\ tip \notin ChainOf[pindexMostWork[c]]
  /\ \/ tip \notin haveData /\ AbortNode(c)
     \/ /\ tip \in haveData \ haveUndo
        /\ Return(c)
        /\ UNCHANGED <<index, files, chain, aborted>>
     \/ /\ CanDisconnect
        /\ tip' = Prev[tip]
        /\ IF tip' = pindexMostWork[c] THEN EndStep(c, tip')
           ELSE UNCHANGED <<csMain, pc, pblock, pindexMostWork, scope>>
        /\ UNCHANGED <<index, files, setBlockIndexCandidates,
                       mapBlocksUnlinked, aborted>>

\* Mutant: the blocks are connected from the top.
NextToConnectTop(c) == pindexMostWork[c]

\* The next block on the way from the tip to pindexMostWork.
NextToConnect(c) ==
  CHOOSE b \in ChainOf[pindexMostWork[c]] : nHeight[b] = nHeight[tip] + 1

\* Mutants: nothing is deleted; blocks as good as the tip go too.
PruneNoCandidates(b) == UNCHANGED setBlockIndexCandidates

PruneTies(b) ==
  setBlockIndexCandidates' =
    {x \in setBlockIndexCandidates : nChainWork[x] > nChainWork[b]}

\* PruneBlockIndexCandidates, for the tip b.
PruneBlockIndexCandidates(b) ==
  setBlockIndexCandidates' =
    {x \in setBlockIndexCandidates : ~Worse(nSequenceId, x, b)}

\* ConnectTip has the block in memory: the caller has just received it.
InMemory(c, b) == b = pindexMostWork[c] /\ b = pblock[c]

\* ConnectTip finds the block missing, invalid or damaged.
ConnectTipFails(c) ==
  /\ Holds(c, "step")
  /\ tip \in ChainOf[pindexMostWork[c]]
  /\ LET b == NextToConnect(c) IN
     \/ b \notin haveData /\ ~InMemory(c, b) /\ AbortNode(c)
     \/ /\ b \in haveData \/ InMemory(c, b)
        /\ \/ /\ b \in Corrupt /\ ~InMemory(c, b)
              /\ UNCHANGED <<failedValid, setBlockIndexCandidates>>
           \/ /\ b \in BadConnect
              /\ b \notin Corrupt \/ InMemory(c, b)
              /\ failedValid' = failedValid \cup {b}
              /\ setBlockIndexCandidates' = setBlockIndexCandidates \ {b}
        /\ Release(c, "activate")
        /\ pindexMostWork' = [pindexMostWork EXCEPT ![c] = NULL]
        /\ UNCHANGED pblock
        /\ UNCHANGED <<mapBlockIndex, validity, failedChild, hasTx, linked,
                       nSequenceId, nBlockSequenceId, files,
                       mapBlocksUnlinked, tip, aborted>>

\* ConnectTip succeeds: undo data is written, FlushStateToDisk may prune
\* below the old tip, the tip moves and worse candidates are dropped.  The
\* step ends as soon as the node is better off than when it began.
ConnectTip(c) ==
  /\ Holds(c, "step")
  /\ tip \in ChainOf[pindexMostWork[c]]
  /\ LET b == NextToConnect(c) IN
     /\ b \in haveData \ Corrupt \/ InMemory(c, b)
     /\ b \notin BadConnect
     /\ validity' = RaiseValidity(b, VALID_SCRIPTS)
     /\ \E P \in PrunableSets(haveData, tip, nLastBlockFile) :
          PruneFiles(P, haveUndo \cup {b})
     /\ tip' = b
     /\ PruneBlockIndexCandidates(b)
     /\ IF b = pindexMostWork[c] \/ nChainWork[b] > nChainWork[pindexOldTip]
          THEN EndStep(c, b)
          ELSE UNCHANGED <<csMain, pc, pblock, pindexMostWork, scope>>
  /\ UNCHANGED <<mapBlockIndex, failedValid, failedChild, hasTx, linked,
                 nSequenceId, nBlockSequenceId, aborted>>

-----------------------------------------------------------------------------
(* The invalidateblock and reconsiderblock RPC calls *)

InvalidateBlock(c, b) ==
  /\ Free(c, "idle")
  /\ b \in mapBlockIndex \ {Genesis}
  /\ failedValid' = failedValid \cup {b}
  /\ setBlockIndexCandidates' = setBlockIndexCandidates \ {b}
  /\ pindexInvalid' = b
  /\ Hold(c, "invalidate")
  /\ UNCHANGED <<mapBlockIndex, validity, failedChild, hasTx, linked,
                 nSequenceId, nBlockSequenceId, files, mapBlocksUnlinked, tip,
                 pblock, pindexMostWork, pindexOldTip, queue, aborted>>

\* One iteration of its loop: the tip is marked and disconnected.
InvalidateTip(c) ==
  /\ Holds(c, "invalidate") /\ pindexInvalid \in chainActive
  /\ failedChild' = failedChild \cup {tip}
  /\ setBlockIndexCandidates' = setBlockIndexCandidates \ {tip}
  /\ \/ /\ CanDisconnect /\ tip' = Prev[tip]
        /\ UNCHANGED <<csMain, pc, scope, aborted>>
     \/ /\ tip \in haveData \ haveUndo
        /\ Release(c, "activate") /\ UNCHANGED <<tip, aborted>>
     \/ /\ tip \notin haveData
        /\ Release(c, "idle") /\ aborted' = TRUE /\ UNCHANGED tip
  /\ UNCHANGED <<mapBlockIndex, validity, failedValid, hasTx, linked,
                 nSequenceId, nBlockSequenceId, files, mapBlocksUnlinked,
                 pblock, pindexMostWork>>

\* The blocks as good as the new tip.
\* Mutant: the candidates are not refilled.
NoRefill == {}

Refill ==
  {x \in linked : IsValid(x, VALID_TRANSACTIONS) /\ ~Worse(nSequenceId, x, tip)}

\* After the loop, they are candidates again.
FinishInvalidate(c) ==
  /\ Holds(c, "invalidate") /\ pindexInvalid \notin chainActive
  /\ setBlockIndexCandidates' = setBlockIndexCandidates \cup Refill
  /\ Release(c, "activate")
  /\ UNCHANGED <<index, files, mapBlocksUnlinked, tip, pblock, pindexMostWork,
                 aborted>>

ReconsiderBlock(c, b) ==
  /\ Free(c, "idle")
  /\ b \in mapBlockIndex
  /\ LET cleared == {x \in mapBlockIndex :
                       ~IsValid(x, VALID_TRANSACTIONS) /\ b \in ChainOf[x]}
         clear == cleared \cup ChainOf[b] IN
     /\ failedValid' = failedValid \ clear
     /\ failedChild' = failedChild \ clear
     /\ setBlockIndexCandidates' = setBlockIndexCandidates \cup
          {x \in cleared \cap linked :
             validity[x] >= VALID_TRANSACTIONS /\ Worse(nSequenceId, tip, x)}
  /\ Release(c, "activate")
  /\ UNCHANGED <<mapBlockIndex, validity, hasTx, linked, nSequenceId,
                 nBlockSequenceId, files, mapBlocksUnlinked, tip,
                 pblock, pindexMostWork, aborted>>

-----------------------------------------------------------------------------
\* InitBlockIndex and the first ActivateBestChain: the genesis block is
\* stored, linked with the first sequence id, and active.
Init ==
  /\ mapBlockIndex = {Genesis}
  /\ validity = [b \in Blocks |-> IF b = Genesis THEN VALID_TRANSACTIONS
                                  ELSE VALID_UNKNOWN]
  /\ failedValid = {} /\ failedChild = {}
  /\ haveData = {Genesis} /\ haveUndo = {}
  /\ hasTx = {Genesis} /\ linked = {Genesis}
  /\ nSequenceId = [b \in Blocks |-> IF b = Genesis THEN 1 ELSE 0]
  /\ nBlockSequenceId = 2
  /\ setBlockIndexCandidates = {Genesis}
  /\ mapBlocksUnlinked = None
  /\ tip = Genesis
  /\ nFile = [b \in Blocks |-> 0] /\ nLastBlockFile = 0 /\ fHavePruned = FALSE
  /\ nHeightLast = [f \in Files |-> 0]
  /\ csMain = NULL
  /\ pc = [c \in Callers |-> "idle"]
  /\ pblock = [c \in Callers |-> NULL]
  /\ pindexMostWork = [c \in Callers |-> NULL]
  /\ pindexOldTip = NULL /\ queue = None /\ pindexInvalid = NULL
  /\ aborted = FALSE

\* A block or a header arrives from a peer or from submitblock.
Arrival(c) ==
  \E b \in NonGenesis :
    \/ AcceptBlockHeader(b)
    \/ \E fRequested \in BOOLEAN : \/ IgnoreBlock(c, b, fRequested)
                                   \/ RejectBlock(c, b, fRequested)
                                   \/ ReceiveBlock(c, b, fRequested)

\* Steps of a thread that is past its entry point.
Continue(c) ==
  \/ (\E b \in NonGenesis : LinkBlock(c, b)) \/ FinishAccept(c)
  \/ BeginStep(c) \/ FindMostWorkChain(c)
  \/ DisconnectTip(c) \/ ConnectTipFails(c) \/ ConnectTip(c)
  \/ InvalidateTip(c) \/ FinishInvalidate(c)

Next == \E c \in Callers : Arrival(c) \/ Continue(c)

\* The same with the operator's RPC calls.
NextWithInvalidate ==
  Next \/ \E c \in Callers, b \in Blocks : InvalidateBlock(c, b)

NextWithOperator ==
  NextWithInvalidate \/ \E c \in Callers, b \in Reconsidered : ReconsiderBlock(c, b)

Spec == Init /\ [][Next]_vars
SpecWithInvalidate == Init /\ [][NextWithInvalidate]_vars
SpecWithOperator == Init /\ [][NextWithOperator]_vars

-----------------------------------------------------------------------------
(* Properties *)

Labels == {"idle", "link", "activate", "find", "step", "invalidate"}

\* The type of every variable of the block index and its threads.
TypeOK ==
  /\ mapBlockIndex \subseteq Blocks
  /\ validity \in [Blocks -> {VALID_UNKNOWN, VALID_TREE, VALID_TRANSACTIONS,
                              VALID_SCRIPTS}]
  /\ failedValid \subseteq Blocks /\ failedChild \subseteq Blocks
  /\ haveData \subseteq Blocks /\ haveUndo \subseteq Blocks
  /\ hasTx \subseteq Blocks /\ linked \subseteq Blocks
  /\ nSequenceId \in [Blocks -> Nat] /\ nBlockSequenceId \in Nat
  /\ setBlockIndexCandidates \subseteq Blocks
  /\ mapBlocksUnlinked \in [Blocks -> Nat]
  /\ tip \in Blocks
  /\ nFile \in [Blocks -> Files] /\ nLastBlockFile \in Files
  /\ nHeightLast \in [Files -> Nat] /\ fHavePruned \in BOOLEAN
  /\ csMain \in Callers \cup {NULL}
  /\ pc \in [Callers -> Labels]
  /\ pblock \in [Callers -> Blocks \cup {NULL}]
  /\ pindexMostWork \in [Callers -> Blocks \cup {NULL}]
  /\ pindexOldTip \in Blocks \cup {NULL}
  /\ queue \in [Blocks -> Nat]
  /\ pindexInvalid \in Blocks \cup {NULL}
  /\ aborted \in BOOLEAN

\* The properties below are the assertions of CheckBlockIndex, which takes
\* cs_main: they are about the states in which no thread holds it.
Quiet == csMain = NULL /\ ~aborted

\* No call is in progress.
Settled == Quiet /\ \A c \in Callers : pc[c] = "idle"

Unlinked(b) == mapBlocksUnlinked[b] > 0

\* The bits of nStatus, nTx and nSequenceId agree with what was received and
\* stored (CheckBlockIndex), through pruning and repeated downloads.
StatusConsistent ==
  Quiet => \A b \in mapBlockIndex :
    /\ b \notin linked => nSequenceId[b] = 0
    /\ ~fHavePruned => (b \in haveData <=> b \in hasTx)
    /\ b \in haveData => b \in hasTx
    /\ b \in haveUndo => b \in haveData
    /\ validity[b] >= VALID_TRANSACTIONS <=> b \in hasTx
    /\ validity[b] >= VALID_TREE

\* ReceivedBlockTransactions links blocks: nChainTx is set exactly when the block and all of its
\* ancestors were received at some time.
LinkedMeansReceived ==
  Quiet => \A b \in mapBlockIndex : b \in linked <=> ChainOf[b] \subseteq hasTx

\* ConnectTip has checked the scripts of all ancestors of a block before its
\* own ("SCRIPTS valid implies all parents are SCRIPTS valid", CheckBlockIndex).
ScriptsValidChain ==
  Quiet => \A b \in mapBlockIndex : validity[b] = VALID_SCRIPTS =>
    \A x \in ChainOf[b] \ {Genesis} : validity[x] = VALID_SCRIPTS

\* A failed flag set by FindMostWorkChain, InvalidateBlock or AcceptBlock has a
\* cause: an ancestor that was itself found invalid ("The failed mask cannot be
\* set for blocks without invalid parents", CheckBlockIndex).
FailedHasCause ==
  Quiet => \A b \in failed : ChainOf[b] \cap failedValid # {}

\* Every usable block as good as the tip is in setBlockIndexCandidates
\* (CheckBlockIndex), after invalidateblock of any block and reconsiderblock of
\* a block right above Genesis (Reconsidered).  It does not hold for other
\* choices of Reconsidered: ReconsiderBlock takes the mark off the ancestors of its
\* block and does not put them back into the set.
CandidatesComplete ==
  Settled => \A b \in mapBlockIndex :
    (/\ ~Worse(nSequenceId, b, tip)
     /\ b \in linked
     /\ ChainOf[b] \cap failedValid = {}
     /\ ChainOf[b] \subseteq haveData \/ b = tip)
    => b \in setBlockIndexCandidates

\* A candidate is linked and not worse than the tip, after the insertions of
\* several threads and the removals of PruneBlockIndexCandidates.
CandidatesSound ==
  Quiet => \A b \in setBlockIndexCandidates :
    b \in linked /\ ~Worse(nSequenceId, b, tip)

\* A stored block that waits for an ancestor that was never received can be
\* found in mapBlocksUnlinked when the ancestor arrives
\* (ReceivedBlockTransactions, PruneOneBlockFile).
WaitingIsUnlinked ==
  Quiet => \A b \in haveData \ {Genesis} :
    ~(ChainOf[b] \subseteq hasTx) /\ ChainOf[b] \cap failedValid = {} => Unlinked(b)

\* Only stored blocks that miss the data of an ancestor are in
\* mapBlocksUnlinked (CheckBlockIndex).
UnlinkedIsWaiting ==
  Quiet => \A b \in Blocks : Unlinked(b) =>
    b \in haveData /\ ~(ChainOf[b] \subseteq haveData)

\* No block of chainActive is marked as failed ("we know all blocks in it are
\* valid already", FindMostWorkChain).
ActiveChainValid == Quiet => chainActive \cap failed = {}

\* At every moment the blocks of chainActive were received and have passed
\* ContextualCheckBlock (AcceptBlock) and ConnectBlock (ConnectTip), also when
\* reconsiderblock has taken the mark off a block that fails them.
ActiveChainChecked == chainActive \subseteq hasTx \ (BadContext \cup BadConnect)

\* When every caller of ActivateBestChain has returned, no usable chain has
\* more work than the active one ("either failure or an activated best chain").
BestChainActivated ==
  Settled =>
    \A b \in linked :
      (Unusable(b) = {} /\ ChainOf[b] \cap (BadConnect \cup Corrupt) = {})
      => nChainWork[b] <= nChainWork[tip]

\* When every caller of ActivateBestChain has returned, the tip comes before
\* every other usable block in the order of CBlockIndexWorkComparator: of two
\* chains with the same work the node stays on the one whose last block it
\* could link first ("First sort by most total work, ... then by earliest time
\* received").
FirstSeenActivated ==
  Settled =>
    \A b \in linked \ {tip} :
      (Unusable(b) = {} /\ ChainOf[b] \cap (BadConnect \cup Corrupt) = {})
      => Worse(nSequenceId, b, tip)

\* ReceivedBlockTransactions gives no two linked blocks the same sequence id, so
\* that CBlockIndexWorkComparator never falls back to the addresses ("should only
\* happen with blocks loaded from disk").
SequenceIdsDistinct ==
  \A a, b \in linked : nSequenceId[a] = nSequenceId[b] => a = b

\* FindFilesToPrune, which only looks at the nHeightLast that FindBlockPos keeps
\* for each file, never deletes the data or the undo data of an active block that
\* a reorganisation of the promised depth would have to disconnect, in whatever
\* order blocks of different heights and branches were put into the files.
PruneKeepsRecent ==
  [][\A b \in chainActive \cap chainActive' :
       b \notin haveData' \cap haveUndo' /\ b \in haveData \cap haveUndo
       => nHeight[b] + MinBlocksToKeep <= nHeight[tip]]_vars

\* setBlockIndexCandidates is ordered by work and sequence id: the id of a
\* block does not change while it is in the set.
CandidateKeysStable ==
  [][\A b \in setBlockIndexCandidates :
       nSequenceId'[b] # nSequenceId[b] => b \notin setBlockIndexCandidates']_vars

\* ProcessNewBlock with its loops (ReceivedBlockTransactions, FindMostWorkChain,
\* ActivateBestChain) returns, or the node aborts.
CallsReturn == \A c \in Callers : pc[c] # "idle" ~> pc[c] = "idle" \/ aborted

\* Every caller goes on, and gets cs_main if it is free again and again.
FairSpec == Spec /\ \A c \in Callers : SF_vars(Continue(c))
=============================================================================
