---------------------------- MODULE BlockTreeBest ----------------------------
(***************************************************************************)
(* On nodes that do not prune: setBlockIndexCandidates holds the right     *)
(* blocks under keys that never change, and when the calls do not overlap  *)
(* the best chain is active whenever all of them have returned.            *)
(***************************************************************************)
EXTENDS BlockTreeProofs

USE DEF Release, Hold, Free, Holds, index, files, chain, threads, scope, vars,
        VALID_UNKNOWN, VALID_TREE, VALID_TRANSACTIONS, VALID_SCRIPTS

-----------------------------------------------------------------------------
(* The order of CBlockIndexWorkComparator *)

LEMMA WorseOrder ==
  ASSUME NEW seq \in [Blocks -> Nat], NEW x \in Blocks, NEW y \in Blocks, NEW z \in Blocks
  PROVE  /\ ~Worse(seq, x, x)
         /\ Worse(seq, x, y) => ~Worse(seq, y, x)
         /\ Worse(seq, x, y) /\ Worse(seq, y, z) => Worse(seq, x, z)
         /\ ~Worse(seq, x, y) /\ ~Worse(seq, y, z) => ~Worse(seq, x, z)
<1>1. /\ nChainWork[x] \in Nat /\ nChainWork[y] \in Nat /\ nChainWork[z] \in Nat
      /\ seq[x] \in Nat /\ seq[y] \in Nat /\ seq[z] \in Nat
  BY TreeAssumption
<1> QED
  BY <1>1 DEF Worse

\* An ancestor has less work, unless it is the block itself.
LEMMA ChainWork ==
  \A b \in Blocks : \A x \in ChainOf[b] : x = b \/ nChainWork[x] < nChainWork[b]
<1> DEFINE S == {b \in Blocks : \A x \in ChainOf[b] : x = b \/ nChainWork[x] < nChainWork[b]}
<1>1. Genesis \in S
  BY TreeAssumption
<1>2. \A b \in NonGenesis : Prev[b] \in S => b \in S
  <2> SUFFICES ASSUME NEW b \in NonGenesis, Prev[b] \in S,
                      NEW x \in ChainOf[b], x # b
               PROVE  nChainWork[x] < nChainWork[b]
    BY DEF NonGenesis
  <2>1. x \in ChainOf[Prev[b]]
    BY TreeAssumption
  <2>2. x = Prev[b] \/ nChainWork[x] < nChainWork[Prev[b]]
    BY <2>1
  <2>3. x \in Blocks /\ Prev[b] \in Blocks /\ b \in Blocks
    BY TreeAssumption DEF NonGenesis
  <2>4. /\ nChainWork[b] > nChainWork[Prev[b]] /\ nChainWork[x] \in Nat
        /\ nChainWork[Prev[b]] \in Nat /\ nChainWork[b] \in Nat
    BY <2>3, TreeAssumption
  <2> QED
    BY <2>2, <2>4
<1>3. S = Blocks
  <2> HIDE DEF S
  <2>1. S \in SUBSET Blocks
    BY DEF S
  <2> QED
    BY <1>1, <1>2, <2>1, TreeInduction
<1> QED
  BY <1>3

-----------------------------------------------------------------------------
(* Candidates *)

\* Without pruning a block is received once: it is queued or waits at most
\* once, and never after it is linked.
OnceInv ==
  /\ fHavePruned = FALSE
  /\ \A b \in Blocks : queue[b] + mapBlocksUnlinked[b] <= 1
  /\ \A b \in linked : queue[b] = 0 /\ mapBlocksUnlinked[b] = 0

\* Candidates are linked, like the tip, and not worse than it.
SoundInv ==
  /\ setBlockIndexCandidates \subseteq linked /\ tip \in linked
  /\ \A b \in setBlockIndexCandidates : ~Worse(nSequenceId, b, tip)

CInv == SInv /\ OnceInv /\ SoundInv

LEMMA InitCInv == Init => CInv
<1> SUFFICES ASSUME Init PROVE OnceInv /\ SoundInv
  BY InitSInv DEF CInv
<1>1. OnceInv
  BY TreeAssumption DEF Init, OnceInv, None
<1>2. nSequenceId \in [Blocks -> Nat] /\ Genesis \in Blocks
  BY TreeAssumption, InitIInv DEF IInv, TypeOK
<1>3. ~Worse(nSequenceId, Genesis, Genesis)
  BY <1>2, WorseOrder
<1>4. SoundInv
  BY <1>3 DEF Init, SoundInv
<1> QED
  BY <1>1, <1>4

\* Steps that neither receive nor link a block.
LEMMA OnceKept ==
  ASSUME NoPruning, CInv, [NextWithOperator]_vars, NoQueue, NoQueue',
         UNCHANGED <<linked, mapBlocksUnlinked, nSequenceId>>,
         \A b \in setBlockIndexCandidates' : ~Worse(nSequenceId, b, tip')
  PROVE  OnceInv' /\ SoundInv'
<1>1. SInv' /\ IInv'
  BY NextSInv DEF CInv, SInv
<1>2. fHavePruned' = FALSE
  BY Zenon, NextUnpruned DEF CInv, SInv, IInv, OnceInv
<1>3. OnceInv'
  BY <1>2 DEF CInv, OnceInv, SInv, IInv, TypeOK, NoQueue
<1>4. setBlockIndexCandidates' \subseteq linked' /\ tip' \in linked'
  BY <1>1 DEF SInv, LinkInv, LinkedSoon, InQueue, NoQueue, IInv, TypeOK
<1> QED
  BY <1>3, <1>4 DEF SoundInv

\* Fewer candidates, and a tip with no more work.
LEMMA SoundKept ==
  ASSUME CInv, setBlockIndexCandidates' \subseteq setBlockIndexCandidates,
         tip' \in {tip, Prev[tip]}, tip' # tip => tip \in NonGenesis
  PROVE  \A b \in setBlockIndexCandidates' : ~Worse(nSequenceId, b, tip')
<1>1. CASE tip' = tip
  BY <1>1 DEF CInv, SoundInv
<1>2. CASE tip \in NonGenesis /\ tip' = Prev[tip]
  <2>1. /\ nChainWork[tip] > nChainWork[Prev[tip]]
        /\ nChainWork[tip] \in Nat /\ nChainWork[Prev[tip]] \in Nat
    BY <1>2, TreeAssumption DEF NonGenesis
  <2> SUFFICES ASSUME NEW b \in setBlockIndexCandidates, Worse(nSequenceId, b, Prev[tip])
               PROVE  FALSE
    BY <1>2
  <2>2. nChainWork[b] \in Nat /\ ~Worse(nSequenceId, b, tip)
    BY TreeAssumption DEF CInv, SoundInv, SInv, IInv, TypeOK
  <2> QED
    BY <2>1, <2>2 DEF Worse
<1> QED
  BY <1>1, <1>2

\* A received block is new: it is queued or waits for the first time.
LEMMA ReceiveBlockCInv ==
  ASSUME CInv, NEW c \in Callers, NEW b \in NonGenesis, NEW fRequested \in BOOLEAN,
         ReceiveBlock(c, b, fRequested)
  PROVE  OnceInv' /\ SoundInv' /\ linked' = linked
<1>1. NoQueue
  BY QueueEmpty DEF ReceiveBlock, CInv, SInv
<1>2. b \notin haveData /\ hasTx \subseteq haveData /\ linked \subseteq hasTx /\ b \in Blocks
  BY DEF ReceiveBlock, Ignored, NonGenesis, CInv, SInv, IInv, StoreInv, ReceivedInv, OnceInv
<1>3. b \notin linked /\ mapBlocksUnlinked[b] = 0
  BY <1>2 DEF CInv, SInv, StoreInv, Unlinked, IInv, TypeOK
<1>4. /\ linked' = linked /\ UNCHANGED <<fHavePruned, nSequenceId, setBlockIndexCandidates, tip>>
  BY <1>3 DEF ReceiveBlock
<1>5. /\ queue' = (IF Prev[b] \in linked THEN [None EXCEPT ![b] = 1] ELSE None)
      /\ mapBlocksUnlinked' =
           IF Prev[b] \notin linked /\ IsValid(Prev[b], VALID_TREE)
             THEN [mapBlocksUnlinked EXCEPT ![b] = @ + 1] ELSE mapBlocksUnlinked
  BY DEF ReceiveBlock
<1>6. /\ \A x \in Blocks \ {b} : queue'[x] = 0 /\ mapBlocksUnlinked'[x] = mapBlocksUnlinked[x]
      /\ queue'[b] + mapBlocksUnlinked'[b] <= 1
  BY <1>2, <1>3, <1>5 DEF None, CInv, SInv, IInv, TypeOK
<1>7. OnceInv'
  BY <1>1, <1>3, <1>4, <1>6 DEF CInv, OnceInv, NoQueue, SInv, IInv, TypeOK
<1>8. SoundInv'
  BY <1>4 DEF CInv, SoundInv
<1> QED
  BY <1>4, <1>7, <1>8

\* A block is linked once, and keys of candidates are left alone.
LEMMA LinkBlockCInv ==
  ASSUME CInv, NEW c \in Callers, NEW b \in NonGenesis, LinkBlock(c, b)
  PROVE  /\ OnceInv' /\ SoundInv'
         /\ b \notin linked /\ \A x \in linked : nSequenceId'[x] = nSequenceId[x]
<1>1. /\ b \in Blocks /\ linked' = linked \cup {b} /\ queue' = PopAndPush(b) /\ queue[b] > 0
      /\ mapBlocksUnlinked' = EraseChildren(b) /\ tip' = tip
      /\ nSequenceId' = [nSequenceId EXCEPT ![b] = nBlockSequenceId]
      /\ UNCHANGED fHavePruned
      /\ setBlockIndexCandidates' \subseteq setBlockIndexCandidates \cup {b}
      /\ b \in setBlockIndexCandidates' => ~Worse(nSequenceId', b, tip) \/ b \in setBlockIndexCandidates
  BY DEF LinkBlock, NonGenesis
<1>0. /\ queue \in [Blocks -> Nat] /\ mapBlocksUnlinked \in [Blocks -> Nat]
      /\ nSequenceId \in [Blocks -> Nat] /\ linked \subseteq Blocks
      /\ \A x \in Blocks : queue[x] + mapBlocksUnlinked[x] <= 1
      /\ \A x \in linked : queue[x] = 0 /\ mapBlocksUnlinked[x] = 0
  BY DEF CInv, OnceInv, SInv, IInv, TypeOK
<1>2. /\ b \notin linked /\ queue[b] = 1 /\ mapBlocksUnlinked[b] = 0
      /\ \A x \in linked : nSequenceId'[x] = nSequenceId[x]
  <2>1. queue[b] \in Nat /\ mapBlocksUnlinked[b] \in Nat /\ queue[b] + mapBlocksUnlinked[b] <= 1
    BY <1>0, <1>1
  <2>2. queue[b] > 0 /\ (b \in linked => queue[b] = 0)
    BY <1>0, <1>1
  <2>3. b \notin linked /\ queue[b] = 1 /\ mapBlocksUnlinked[b] = 0
    BY ONLY <2>1, <2>2
  <2> QED
    BY <1>0, <1>1, <2>3
<1>3. /\ \A x \in Blocks : queue'[x] + mapBlocksUnlinked'[x] <= 1
      /\ \A x \in linked' : queue'[x] = 0 /\ mapBlocksUnlinked'[x] = 0
  <2>1. \A x \in Blocks : /\ x = b => queue'[x] = 0 /\ mapBlocksUnlinked'[x] \in {0, mapBlocksUnlinked[x]}
                          /\ x # b => \/ /\ queue'[x] = queue[x] + mapBlocksUnlinked[x]
                                         /\ mapBlocksUnlinked'[x] = 0
                                      \/ /\ queue'[x] = queue[x]
                                         /\ mapBlocksUnlinked'[x] = mapBlocksUnlinked[x]
    BY ONLY <1>1, <1>2 DEF PopAndPush, EraseChildren
  <2> QED
    BY ONLY <1>0, <1>1, <1>2, <2>1
<1>4. OnceInv'
  BY <1>1, <1>3 DEF CInv, OnceInv
<1>5. \A x \in setBlockIndexCandidates : ~Worse(nSequenceId', x, tip)
  BY <1>2 DEF CInv, SoundInv, Worse
<1>6. SoundInv'
  BY Zenon, <1>1, <1>2, <1>5 DEF CInv, SoundInv
<1> QED
  BY <1>2, <1>4, <1>6

\* Without pruning, the path from a candidate can only be given up because of
\* a failed block.
LEMMA GivesUpFailed ==
  ASSUME CInv, NoQueue, NEW b \in setBlockIndexCandidates, NEW x \in ChainOf[b],
         IsFirstUnusable(b, x)
  PROVE  x \in failed
<1>1. x \in haveData
  BY AllLinked DEF CInv, SInv, OnceInv, StoreInv
<1> QED
  BY <1>1 DEF IsFirstUnusable, Unusable

LEMMA ArrivalCInv ==
  ASSUME NoPruning, CInv, NEW c \in Callers, Arrival(c)
  PROVE  OnceInv' /\ SoundInv'
<1>1. ASSUME NEW b \in NonGenesis, NEW fRequested \in BOOLEAN,
             AcceptBlockHeader(b) \/ RejectBlock(c, b, fRequested)
      PROVE  OnceInv' /\ SoundInv'
  BY <1>1 DEF AcceptBlockHeader, RejectBlock, CInv, OnceInv, SoundInv
<1>2. ASSUME NEW b \in NonGenesis, NEW fRequested \in BOOLEAN, IgnoreBlock(c, b, fRequested)
      PROVE  OnceInv' /\ SoundInv'
  <2>1. NoQueue
    BY <1>2, QueueEmpty DEF IgnoreBlock, CInv, SInv
  <2>2. /\ UNCHANGED <<linked, mapBlocksUnlinked, nSequenceId, fHavePruned, tip, setBlockIndexCandidates>>
        /\ \A x \in Blocks : queue'[x] = queue[x]
    BY <1>2, <2>1 DEF IgnoreBlock, NoQueue, None
  <2> QED
    BY <2>2 DEF CInv, OnceInv, SoundInv, SInv, IInv, TypeOK
<1> QED
  BY Zenon, <1>1, <1>2, ReceiveBlockCInv DEF Arrival

\* FindMostWorkChain and the steps that connect and disconnect.
LEMMA ActivateCInv ==
  ASSUME NoPruning, CInv, NEW c \in Callers,
         FinishAccept(c) \/ BeginStep(c) \/ FindMostWorkChain(c) \/ DisconnectTip(c)
         \/ ConnectTipFails(c) \/ ConnectTip(c)
  PROVE  OnceInv' /\ SoundInv'
<1>1. [NextWithOperator]_vars
  BY DEF NextWithOperator, NextWithInvalidate, Next, Continue
<1>2. NoQueue
  BY Zenon, QueueEmpty
  DEF FinishAccept, BeginStep, FindMostWorkChain, DisconnectTip, ConnectTipFails, ConnectTip,
      CInv, SInv, NoQueue, None
<1>3. NoQueue'
  BY Zenon, <1>2
  DEF FinishAccept, BeginStep, FindMostWorkChain, DisconnectTip, ConnectTipFails, ConnectTip,
      EndStep, Return, AbortNode, NoQueue, None
<1>4. UNCHANGED <<linked, nSequenceId>>
  BY Zenon DEF FinishAccept, BeginStep, FindMostWorkChain, DisconnectTip, ConnectTipFails, ConnectTip,
         AbortNode
<1>5. mapBlocksUnlinked' = mapBlocksUnlinked
  <2>1. CASE FinishAccept(c) \/ ConnectTip(c)
    <3>1. PICK P \in PrunableSets(haveData, tip, nLastBlockFile) : \E undo : PruneFiles(P, undo)
      BY Zenon, <2>1 DEF FinishAccept, ConnectTip
    <3>2. P = {}
      BY Zenon, NothingPruned DEF CInv, SInv, IInv
    <3> QED
      BY <3>1, <3>2 DEF PruneFiles, UnlinkedAfterPrune, CInv, SInv, IInv, TypeOK
  <2>2. CASE FindMostWorkChain(c)
    BY Zenon, <1>2, <2>2, GivesUpFailed DEF FindMostWorkChain, GiveUp
  <2>3. CASE BeginStep(c) \/ DisconnectTip(c) \/ ConnectTipFails(c)
    BY Zenon, <2>3 DEF BeginStep, DisconnectTip, ConnectTipFails, AbortNode
  <2> QED
    BY <2>1, <2>2, <2>3
<1>6. \A b \in setBlockIndexCandidates' : ~Worse(nSequenceId, b, tip')
  <2>1. CASE ConnectTip(c)
    BY Zenon, <2>1 DEF ConnectTip, PruneBlockIndexCandidates
  <2>2. CASE FinishAccept(c) \/ BeginStep(c) \/ FindMostWorkChain(c) \/ ConnectTipFails(c)
    <3>1. setBlockIndexCandidates' \subseteq setBlockIndexCandidates /\ tip' = tip
      BY Zenon, <2>2 DEF FinishAccept, BeginStep, FindMostWorkChain, GiveUp, ConnectTipFails, AbortNode
    <3> QED
      BY ONLY CInv, <3>1, SoundKept
  <2>3. CASE DisconnectTip(c)
    <3>1. /\ setBlockIndexCandidates' = setBlockIndexCandidates /\ tip' \in {tip, Prev[tip]}
          /\ tip \in NonGenesis
      BY SMT, ZenonT(30), <2>3, ChainBasics
      DEF DisconnectTip, AbortNode, NonGenesis, CInv, SInv, IInv, LockInv, TypeOK
    <3> QED
      BY ONLY ZenonT(30), CInv, <3>1, SoundKept
  <2> QED
    BY Zenon, <2>1, <2>2, <2>3
<1> QED
  BY <1>1, <1>2, <1>3, <1>4, <1>5, <1>6, OnceKept

LEMMA OperatorCInv ==
  ASSUME NoPruning, CInv, NEW c \in Callers, NEW b \in Blocks,
         InvalidateBlock(c, b) \/ InvalidateTip(c) \/ FinishInvalidate(c)
         \/ (b \in Reconsidered /\ ReconsiderBlock(c, b))
  PROVE  OnceInv' /\ SoundInv'
<1>1. [NextWithOperator]_vars
  BY DEF NextWithOperator, NextWithInvalidate, Next, Continue
<1>2. NoQueue
  BY Zenon, QueueEmpty
  DEF InvalidateBlock, InvalidateTip, FinishInvalidate, ReconsiderBlock, CInv, SInv
<1>3. NoQueue'
  BY Zenon, <1>2
  DEF InvalidateBlock, InvalidateTip, FinishInvalidate, ReconsiderBlock, NoQueue, None
<1>4. UNCHANGED <<linked, mapBlocksUnlinked, nSequenceId>>
  BY Zenon DEF InvalidateBlock, InvalidateTip, FinishInvalidate, ReconsiderBlock
<1>5. \A x \in setBlockIndexCandidates' : ~Worse(nSequenceId, x, tip')
  <2>1. CASE InvalidateBlock(c, b)
    BY Zenon, <2>1, SoundKept DEF InvalidateBlock
  <2>2. CASE InvalidateTip(c)
    <3>1. /\ setBlockIndexCandidates' \subseteq setBlockIndexCandidates
          /\ tip' \in {tip, Prev[tip]}
      BY Zenon, <2>2 DEF InvalidateTip
    <3>2. tip \in NonGenesis
      BY SMT, ZenonT(30), <2>2, TreeAssumption
      DEF InvalidateTip, chainActive, NonGenesis, CInv, SInv, IInv, LockInv, TypeOK
    <3> QED
      BY ONLY CInv, <3>1, <3>2, SoundKept
  <2>3. CASE FinishInvalidate(c)
    BY <2>3 DEF FinishInvalidate, Refill, CInv, SoundInv
  <2>4. CASE ReconsiderBlock(c, b)
    <3>1. /\ tip' = tip /\ tip \in Blocks /\ nSequenceId \in [Blocks -> Nat] /\ linked \subseteq Blocks
          /\ \A x \in setBlockIndexCandidates' :
               x \in setBlockIndexCandidates \/ (x \in linked /\ Worse(nSequenceId, tip, x))
      BY Zenon, <2>4 DEF ReconsiderBlock, CInv, SInv, IInv, TypeOK
    <3> QED
      BY <3>1, WorseOrder DEF CInv, SoundInv
  <2> QED
    BY Zenon, <2>1, <2>2, <2>3, <2>4
<1> QED
  BY ONLY NoPruning, CInv, <1>1, <1>2, <1>3, <1>4, <1>5, OnceKept

LEMMA NextCInv ==
  ASSUME NoPruning PROVE CInv /\ [NextWithOperator]_vars => CInv'
<1> SUFFICES ASSUME CInv, [NextWithOperator]_vars PROVE OnceInv' /\ SoundInv'
  BY Zenon, NextSInv DEF CInv
<1>1. CASE UNCHANGED vars
  BY Zenon, <1>1 DEF CInv, OnceInv, SoundInv
<1>2. ASSUME NEW c \in Callers, Continue(c) PROVE OnceInv' /\ SoundInv'
  BY Zenon, <1>2, LinkBlockCInv, ActivateCInv, OperatorCInv, TreeAssumption DEF Continue
<1> QED
  BY Zenon, <1>1, <1>2, ArrivalCInv, OperatorCInv, ParameterAssumption
  DEF NextWithOperator, NextWithInvalidate, Next

\* On a node that does not prune, candidates are linked and not worse than the
\* tip, after the insertions of several threads (ReceivedBlockTransactions,
\* InvalidateBlock, ReconsiderBlock) and the removals of
\* PruneBlockIndexCandidates in src/main.cpp.
THEOREM CandidatesAlwaysSound ==
  ASSUME NoPruning PROVE SpecWithOperator => []CandidatesSound
<1>1. CInv => CandidatesSound
  BY DEF CInv, SoundInv, CandidatesSound
<1>2. Init => CInv
  BY InitCInv
<1>3. CInv /\ [NextWithOperator]_vars => CInv'
  BY NextCInv
<1> QED
  BY <1>1, <1>2, <1>3, PTL DEF SpecWithOperator

\* Only ReceivedBlockTransactions assigns sequence ids.
LEMMA OnlyLinkBlock ==
  ASSUME [NextWithOperator]_vars
  PROVE  \/ nSequenceId' = nSequenceId /\ nBlockSequenceId' = nBlockSequenceId /\ linked' \subseteq linked
         \/ \E c \in Callers, b \in NonGenesis : LinkBlock(c, b)
<1> DEFINE Kept == /\ nSequenceId' = nSequenceId /\ nBlockSequenceId' = nBlockSequenceId
                   /\ linked' \subseteq linked
<1>1. ASSUME UNCHANGED <<nSequenceId, nBlockSequenceId, linked>> PROVE Kept
  BY <1>1
<1>2. ASSUME NEW c \in Callers, NEW b \in NonGenesis, NEW fRequested \in BOOLEAN,
             ReceiveBlock(c, b, fRequested)
      PROVE  Kept
  BY <1>2 DEF ReceiveBlock
<1> HIDE DEF Kept
<1>3. ASSUME NEW c \in Callers, NEW b \in NonGenesis, NEW fRequested \in BOOLEAN,
             AcceptBlockHeader(b) \/ IgnoreBlock(c, b, fRequested) \/ RejectBlock(c, b, fRequested)
      PROVE  Kept
  BY Zenon, <1>1, <1>3 DEF AcceptBlockHeader, IgnoreBlock, RejectBlock
<1>4. ASSUME NEW c \in Callers, Arrival(c) PROVE Kept
  BY Zenon, <1>2, <1>3, <1>4 DEF Arrival
<1>5. ASSUME NEW c \in Callers, FinishAccept(c) \/ BeginStep(c) \/ FindMostWorkChain(c)
                  \/ DisconnectTip(c) \/ ConnectTipFails(c) \/ ConnectTip(c)
                  \/ InvalidateTip(c) \/ FinishInvalidate(c)
        PROVE  Kept
  BY Zenon, <1>1, <1>5
  DEF FinishAccept, BeginStep, FindMostWorkChain, DisconnectTip, ConnectTipFails, ConnectTip,
      InvalidateTip, FinishInvalidate, AbortNode
<1>6. ASSUME NEW c \in Callers, NEW b \in Blocks, InvalidateBlock(c, b) \/ ReconsiderBlock(c, b)
      PROVE  Kept
  BY Zenon, <1>1, <1>6 DEF InvalidateBlock, ReconsiderBlock
<1>7. CASE UNCHANGED vars
  BY <1>1, <1>7 DEF vars, index
<1> QED
  BY Zenon, <1>4, <1>5, <1>6, <1>7, ParameterAssumption
  DEF Kept, NextWithOperator, NextWithInvalidate, Next, Continue

\* Ids are below the counter, and were given out once; who is linked has one.
IdsInv ==
  /\ nBlockSequenceId > 0
  /\ \A b \in Blocks : nSequenceId[b] < nBlockSequenceId
  /\ \A b \in linked : nSequenceId[b] > 0
  /\ \A a, b \in Blocks : nSequenceId[a] = nSequenceId[b] /\ nSequenceId[a] > 0 => a = b

LEMMA LinkBlockIds ==
  ASSUME IInv, IdsInv, NEW c \in Callers, NEW b \in NonGenesis, LinkBlock(c, b)
  PROVE  IdsInv'
<1>1. /\ b \in Blocks /\ linked \subseteq Blocks
      /\ nSequenceId \in [Blocks -> Nat] /\ nBlockSequenceId \in Nat
  BY DEF IInv, TypeOK, NonGenesis
<1>2. /\ linked' = linked \cup {b} /\ nBlockSequenceId' = nBlockSequenceId + 1
      /\ nSequenceId' = [nSequenceId EXCEPT ![b] = nBlockSequenceId]
  BY Zenon DEF LinkBlock
<1>3. \A x \in Blocks : nSequenceId'[x] = IF x = b THEN nBlockSequenceId ELSE nSequenceId[x]
  BY <1>1, <1>2
<1>4. \A x \in Blocks : nSequenceId[x] \in Nat
  BY <1>1
<1> QED
  BY ONLY IdsInv, <1>1, <1>2, <1>3, <1>4 DEF IdsInv

\* nBlockSequenceId++ (ReceivedBlockTransactions, src/main.cpp) gives every linked
\* block an id of its own, with any number of threads, with pruning, repeated
\* downloads and both operator calls: the comparator of setBlockIndexCandidates
\* orders any two linked blocks without looking at their addresses.
THEOREM IdsAlwaysDistinct == SpecWithOperator => []SequenceIdsDistinct
<1>1. IInv /\ IdsInv => SequenceIdsDistinct
  BY DEF IInv, TypeOK, IdsInv, SequenceIdsDistinct
<1>2. Init => IInv /\ IdsInv
  <2>1. ASSUME Init PROVE IdsInv
    <3>1. /\ nBlockSequenceId = 2 /\ linked = {Genesis} /\ Genesis \in Blocks
          /\ \A b \in Blocks : nSequenceId[b] = IF b = Genesis THEN 1 ELSE 0
      BY <2>1, TreeAssumption DEF Init
    <3> QED
      BY ONLY <3>1 DEF IdsInv
  <2> QED
    BY <2>1, InitIInv
<1>3. IInv /\ IdsInv /\ [NextWithOperator]_vars => IInv' /\ IdsInv'
  <2> SUFFICES ASSUME IInv, IdsInv, [NextWithOperator]_vars PROVE IdsInv'
    BY Zenon, NextIInv
  <2>1. ASSUME nSequenceId' = nSequenceId, nBlockSequenceId' = nBlockSequenceId,
               linked' \subseteq linked
        PROVE  IdsInv'
    BY <2>1 DEF IdsInv
  <2> QED
    BY Zenon, <2>1, OnlyLinkBlock, LinkBlockIds
<1> QED
  BY <1>1, <1>2, <1>3, PTL DEF SpecWithOperator

\* On a node that does not prune, ReceivedBlockTransactions (src/main.cpp) never
\* changes the sequence id of a block while setBlockIndexCandidates, which is
\* ordered by it, holds the block.
THEOREM KeysStable == ASSUME NoPruning PROVE SpecWithOperator => CandidateKeysStable
<1> DEFINE Stable == \A b \in setBlockIndexCandidates :
                       nSequenceId'[b] # nSequenceId[b] => b \notin setBlockIndexCandidates'
<1>1. ASSUME CInv, [NextWithOperator]_vars PROVE [Stable]_vars
  <2>1. ASSUME nSequenceId' = nSequenceId PROVE Stable
    BY <2>1
  <2>2. ASSUME NEW c \in Callers, NEW b \in NonGenesis, LinkBlock(c, b) PROVE Stable
    BY <1>1, <2>2, LinkBlockCInv DEF CInv, SoundInv
  <2> HIDE DEF Stable
  <2> QED
    BY Zenon, <1>1, <2>1, <2>2, OnlyLinkBlock
<1>2. Init => CInv
  BY InitCInv
<1>3. CInv /\ [NextWithOperator]_vars => CInv'
  BY NextCInv
<1> QED
  BY <1>1, <1>2, <1>3, PTL DEF SpecWithOperator, CandidateKeysStable

-----------------------------------------------------------------------------
(* The best chain, when calls do not overlap *)

Working == \E c \in Callers : pc[c] # "idle"
Activating == \E c \in Callers : pc[c] \in {"activate", "find", "step", "invalidate"}
Invalidating == \E c \in Callers : pc[c] = "invalidate"

Clean(b) == ChainOf[b] \cap failedValid = {}

\* A good candidate, with every clean block that is not worse among the
\* candidates: FindMostWorkChain cannot run out of them.
Base(t) ==
  /\ t \in setBlockIndexCandidates /\ Clean(t) /\ ChainOf[t] \cap BadConnect = {}
  /\ \A b \in linked : Clean(b) /\ ~Worse(nSequenceId, b, t) => b \in setBlockIndexCandidates

\* The target of ActivateBestChain is the best candidate, and not yet the tip.
BestTarget(m) == m # tip /\ m \in setBlockIndexCandidates /\ Clean(m) /\ IsBestCandidate(m)

BestInv ==
  ~aborted =>
    /\ chainActive \ {Genesis} \subseteq haveUndo /\ chainActive \cap BadConnect = {}
    /\ ~Invalidating => Clean(tip) /\ \E t \in linked : Base(t)
    /\ Invalidating => chainActive \cap failedValid \subseteq {pindexInvalid}
    /\ ~Activating => Base(tip)
    /\ ~Working => setBlockIndexCandidates = {tip}
    /\ \A c \in Callers : pindexMostWork[c] \in Blocks => BestTarget(pindexMostWork[c])

BInv == RInv /\ FailedInv /\ CInv /\ BestInv

LEMMA InitBInv == Init => BInv
<1> SUFFICES ASSUME Init PROVE BestInv
  BY InitRInv, InitCInv, InitFInv DEF BInv, FInv
<1>1. /\ tip = Genesis /\ ChainOf[Genesis] = {Genesis} /\ linked = {Genesis} /\ Genesis \in Blocks
      /\ setBlockIndexCandidates = {Genesis} /\ failedValid = {} /\ Genesis \notin BadConnect
      /\ \A c \in Callers : pc[c] = "idle" /\ pindexMostWork[c] = NULL
  BY TreeAssumption, VerdictAssumption DEF Init, NonGenesis
<1>2. Base(tip)
  BY <1>1 DEF Base, Clean
<1> QED
  BY <1>1, <1>2, ParameterAssumption DEF BestInv, Invalidating, Working, chainActive, Clean

LEMMA Phases ==
  ASSUME Serial, RInv, NEW c \in Callers, csMain \in {NULL, c}
  PROVE  /\ Working <=> pc[c] # "idle"
         /\ Activating <=> pc[c] \in {"activate", "find", "step", "invalidate"}
         /\ Invalidating <=> pc[c] = "invalidate"
<1>1. \A d \in Callers : d # c => pc[d] = "idle"
  BY OthersIdle
<1> QED
  BY <1>1 DEF Working, Activating, Invalidating

LEMMA PhasesAfter ==
  ASSUME Serial, RInv, NEW c \in Callers, csMain \in {NULL, c},
         NEW l, pc' = [pc EXCEPT ![c] = l]
  PROVE  /\ Working' <=> l # "idle"
         /\ Activating' <=> l \in {"activate", "find", "step", "invalidate"}
         /\ Invalidating' <=> l = "invalidate"
<1>1. \A d \in Callers : d # c => pc'[d] = "idle"
  BY OthersIdle DEF RInv, SInv, IInv, TypeOK
<1>2. pc'[c] = l
  BY DEF RInv, SInv, IInv, TypeOK
<1> QED
  BY <1>1, <1>2 DEF Working, Activating, Invalidating

\* Removing candidates that are not clean, and marking further blocks.
LEMMA BaseKept ==
  ASSUME NEW t \in linked, Base(t), UNCHANGED <<linked, nSequenceId>>,
         failedValid \subseteq failedValid', (Clean(t))',
         \A x \in setBlockIndexCandidates : x \in setBlockIndexCandidates' \/ ~(Clean(x))'
  PROVE  (Base(t))'
<1>1. \A x : (Clean(x))' => Clean(x)
  BY DEF Clean
<1> QED
  BY <1>1 DEF Base

\* The facts at the beginning of a step of c.
LEMMA AtStep ==
  ASSUME Serial, BInv, ~aborted, NEW c \in Callers, csMain \in {NULL, c}
  PROVE  /\ \A d \in Callers : d # c => pindexMostWork[d] = NULL
         /\ pc[c] \notin {"activate", "step"} => pindexMostWork[c] = NULL
         /\ chainActive \ {Genesis} \subseteq haveUndo /\ chainActive \cap BadConnect = {}
         /\ pc[c] # "invalidate" => Clean(tip) /\ \E t \in linked : Base(t)
         /\ pc[c] = "invalidate" => chainActive \cap failedValid \subseteq {pindexInvalid}
         /\ pc[c] \in {"idle", "link"} => Base(tip)
         /\ pc[c] = "idle" => setBlockIndexCandidates = {tip}
         /\ pindexMostWork[c] \in Blocks => BestTarget(pindexMostWork[c])
<1>1. pc[c] \in Labels
  BY DEF BInv, RInv, SInv, IInv, TypeOK
<1> QED
  BY <1>1, OnlyTarget, Phases DEF BInv, BestInv, Labels

\* What to show at its end, when it goes on at label l.
LEMMA StepEnds ==
  ASSUME Serial, BInv, NEW c \in Callers, csMain \in {NULL, c},
         NEW l \in Labels, pc' = [pc EXCEPT ![c] = l],
         \A d \in Callers : d # c => pindexMostWork'[d] = NULL,
         chainActive' \ {Genesis} \subseteq haveUndo', chainActive' \cap BadConnect = {},
         l # "invalidate" => (Clean(tip))' /\ \E t \in linked' : (Base(t))',
         l = "invalidate" => chainActive' \cap failedValid' \subseteq {pindexInvalid'},
         l \in {"idle", "link"} => (Base(tip))',
         l = "idle" => setBlockIndexCandidates' = {tip'},
         pindexMostWork'[c] \in Blocks => (BestTarget(pindexMostWork[c]))'
  PROVE  BestInv'
<1>1. /\ Working' <=> l # "idle"
      /\ Activating' <=> l \in {"activate", "find", "step", "invalidate"}
      /\ Invalidating' <=> l = "invalidate"
  BY Zenon, PhasesAfter DEF BInv
<1>2. \A d \in Callers : pindexMostWork'[d] \in Blocks => (BestTarget(pindexMostWork[d]))'
  BY ParameterAssumption
<1> QED
  BY <1>1, <1>2 DEF BestInv, Labels

\* The step leaves the candidates, the chains and the marks alone.
LEMMA Untouched ==
  ASSUME UNCHANGED <<tip, linked, nSequenceId, setBlockIndexCandidates, failedValid>>
  PROVE  /\ (Clean(tip))' <=> Clean(tip)
         /\ \A t : (Base(t))' <=> Base(t)
         /\ (Base(tip))' <=> Base(tip)
         /\ \A m : (BestTarget(m))' <=> BestTarget(m)
         /\ chainActive' = chainActive
BY DEF Clean, Base, BestTarget, IsBestCandidate, chainActive

LEMMA HeaderBest ==
  ASSUME Serial, BInv, NEW c \in Callers, NEW b \in NonGenesis, NEW fRequested \in BOOLEAN,
         AcceptBlockHeader(b) \/ IgnoreBlock(c, b, fRequested) \/ ReceiveBlock(c, b, fRequested)
  PROVE  BestInv'
<1>1. CASE AcceptBlockHeader(b)
  <2>1. UNCHANGED <<tip, linked, nSequenceId, setBlockIndexCandidates, failedValid, haveUndo, pc,
                    aborted, pindexMostWork, pindexInvalid>>
    BY <1>1 DEF AcceptBlockHeader
  <2>2. /\ Working' = Working /\ Activating' = Activating /\ Invalidating' = Invalidating
    BY Zenon, <2>1 DEF Working, Activating, Invalidating
  <2> QED
    BY <2>1, <2>2, Untouched DEF BInv, BestInv
<1>2. ASSUME NEW l \in {"activate", "link"}, pc' = [pc EXCEPT ![c] = l],
             ~aborted, csMain \in {NULL, c}, pc[c] = "idle",
             UNCHANGED <<tip, linked, nSequenceId, setBlockIndexCandidates, failedValid, haveUndo,
                         pindexMostWork>>
      PROVE  BestInv'
  <2>1. /\ Base(tip) /\ Clean(tip) /\ \E t \in linked : Base(t)
        /\ \A d \in Callers : pindexMostWork[d] = NULL
        /\ chainActive \ {Genesis} \subseteq haveUndo /\ chainActive \cap BadConnect = {}
    BY Zenon, <1>2, AtStep
  <2>2. /\ (Base(tip))' /\ (Clean(tip))' /\ \E t \in linked : (Base(t))'
        /\ \A d \in Callers : pindexMostWork'[d] = NULL
        /\ chainActive' \ {Genesis} \subseteq haveUndo' /\ chainActive' \cap BadConnect = {}
    BY Zenon, <1>2, <2>1, Untouched
  <2>3. l \in Labels /\ l # "invalidate" /\ l # "idle"
    BY DEF Labels
  <2> QED
    BY Zenon, <1>2, <2>2, <2>3, StepEnds, ParameterAssumption
<1>3. CASE IgnoreBlock(c, b, fRequested)
  BY Zenon, <1>2, <1>3 DEF IgnoreBlock
<1>4. CASE ReceiveBlock(c, b, fRequested)
  BY Zenon, <1>2, <1>4, ReceiveBlockCInv DEF ReceiveBlock, BInv
<1> QED
  BY <1>1, <1>3, <1>4

LEMMA RejectBlockBest ==
  ASSUME Serial, BInv, NEW c \in Callers, NEW b \in NonGenesis, NEW fRequested \in BOOLEAN,
         RejectBlock(c, b, fRequested)
  PROVE  BestInv'
<1>1. /\ Base(tip) /\ Clean(tip) /\ setBlockIndexCandidates = {tip}
      /\ \A d \in Callers : pindexMostWork[d] = NULL
      /\ chainActive \ {Genesis} \subseteq haveUndo /\ chainActive \cap BadConnect = {}
  BY Zenon, AtStep DEF RejectBlock
<1>2. /\ UNCHANGED <<tip, linked, nSequenceId, setBlockIndexCandidates, haveUndo, pindexMostWork, pc>>
      /\ failedValid' = failedValid \cup {b} /\ pc[c] = "idle" /\ csMain \in {NULL, c}
  BY DEF RejectBlock
<1>3. b \notin hasTx
  BY Zenon DEF RejectBlock, Ignored, BInv, CInv, SInv, StoreInv, OnceInv
<1>4. (Clean(tip))'
  BY <1>1, <1>2, <1>3 DEF Clean, BInv, CInv, SInv, IInv, TargetInv
<1>5. tip \in linked
  BY DEF BInv, CInv, SoundInv
<1>6. PICK t \in linked : t = tip
  BY <1>5
<1>7. (Base(t))'
  BY Zenon, <1>1, <1>2, <1>4, <1>6, BaseKept DEF Clean
<1>8. (Base(tip))' /\ \E u \in linked' : (Base(u))'
  BY <1>2, <1>6, <1>7 DEF Base, Clean
<1>9. pc' = [pc EXCEPT ![c] = "idle"] /\ "idle" \in Labels
  BY <1>2 DEF BInv, RInv, SInv, IInv, TypeOK, Labels
<1>10. chainActive' = chainActive
  BY <1>2 DEF chainActive
<1> QED
  BY ZenonT(30), <1>1, <1>2, <1>4, <1>8, <1>9, <1>10, StepEnds, ParameterAssumption

LEMMA LinkBlockBest ==
  ASSUME Serial, BInv, NEW c \in Callers, NEW b \in NonGenesis, LinkBlock(c, b)
  PROVE  BestInv'
<1>1. /\ Base(tip) /\ Clean(tip) /\ \A d \in Callers : pindexMostWork[d] = NULL
      /\ chainActive \ {Genesis} \subseteq haveUndo /\ chainActive \cap BadConnect = {}
  BY AtStep DEF LinkBlock
<1>2. /\ UNCHANGED <<tip, haveUndo, pindexMostWork, pc, failedValid>>
      /\ linked' = linked \cup {b} /\ pc[c] = "link" /\ csMain = c
      /\ setBlockIndexCandidates' = IF Worse(nSequenceId', b, tip) THEN setBlockIndexCandidates
                                    ELSE setBlockIndexCandidates \cup {b}
  BY DEF LinkBlock
<1>3. tip \in linked /\ \A x \in linked : nSequenceId'[x] = nSequenceId[x]
  BY LinkBlockCInv DEF BInv, CInv, SoundInv
<1>4. \A x \in linked : Worse(nSequenceId', x, tip) <=> Worse(nSequenceId, x, tip)
  BY Zenon, <1>3 DEF Worse
<1>5. /\ tip \in setBlockIndexCandidates' /\ (Clean(tip))' /\ ChainOf[tip] \cap BadConnect = {}
      /\ \A x \in linked' : (Clean(x))' /\ ~Worse(nSequenceId', x, tip) => x \in setBlockIndexCandidates'
  BY Zenon, <1>1, <1>2, <1>4 DEF Base, Clean
<1>6. (Base(tip))'
  BY Zenon, <1>2, <1>5 DEF Base
<1>7. \E t \in linked' : (Base(t))'
  <2>1. PICK t \in linked' : t = tip
    BY <1>2, <1>3
  <2> QED
    BY <1>2, <1>6, <2>1 DEF Base, Clean
<1>8. pc' = [pc EXCEPT ![c] = "link"] /\ "link" \in Labels /\ chainActive' = chainActive
  BY <1>2 DEF BInv, RInv, SInv, IInv, TypeOK, Labels, chainActive
<1> QED
  BY Zenon, <1>1, <1>2, <1>5, <1>6, <1>7, <1>8, StepEnds, ParameterAssumption

LEMMA FinishAcceptBest ==
  ASSUME NoPruning, Serial, BInv, NEW c \in Callers, FinishAccept(c)
  PROVE  BestInv'
<1>1. /\ Clean(tip) /\ (\E t \in linked : Base(t)) /\ \A d \in Callers : pindexMostWork[d] = NULL
      /\ chainActive \ {Genesis} \subseteq haveUndo /\ chainActive \cap BadConnect = {}
  BY AtStep DEF FinishAccept
<1>2. /\ UNCHANGED <<tip, linked, nSequenceId, setBlockIndexCandidates, failedValid, pindexMostWork>>
      /\ pc' = [pc EXCEPT ![c] = "activate"] /\ csMain = c /\ "activate" \in Labels
  BY DEF FinishAccept, Labels
<1>3. haveUndo' = haveUndo
  <2>1. PICK P \in PrunableSets(haveData, tip, nLastBlockFile) : PruneFiles(P, haveUndo)
    BY DEF FinishAccept
  <2>2. P = {}
    BY NothingPruned DEF BInv, RInv, SInv, IInv
  <2> QED
    BY <2>1, <2>2 DEF PruneFiles, UndoAfterPrune
<1>4. (Clean(tip))' /\ (\E t \in linked' : (Base(t))') /\ chainActive' = chainActive
  BY <1>1, <1>2, Untouched
<1> QED
  BY Zenon, <1>1, <1>2, <1>3, <1>4, StepEnds, ParameterAssumption

\* The kept target of a call is never the tip already, as nobody else moves it.
LEMMA BeginStepBest ==
  ASSUME Serial, BInv, NEW c \in Callers, BeginStep(c)
  PROVE  BestInv'
<1>1. /\ Clean(tip) /\ (\E t \in linked : Base(t))
      /\ \A d \in Callers : d # c => pindexMostWork[d] = NULL
      /\ chainActive \ {Genesis} \subseteq haveUndo /\ chainActive \cap BadConnect = {}
      /\ pindexMostWork[c] \in Blocks => BestTarget(pindexMostWork[c])
  BY AtStep DEF BeginStep
<1>2. pindexMostWork[c] = NULL \/ pindexMostWork[c] # tip
  BY Zenon, <1>1 DEF BInv, RInv, SInv, IInv, TypeOK, BestTarget
<1>3. /\ UNCHANGED <<index, files, chain, pindexMostWork>> /\ csMain \in {NULL, c}
      /\ pc' = [pc EXCEPT ![c] = "find"] \/ pc' = [pc EXCEPT ![c] = "step"]
  BY Zenon, <1>2 DEF BeginStep
<1>4. UNCHANGED <<tip, linked, nSequenceId, setBlockIndexCandidates, failedValid, haveUndo>>
  BY Zenon, <1>3
<1>5. /\ (Clean(tip))' /\ (\E t \in linked' : (Base(t))') /\ chainActive' = chainActive
      /\ pindexMostWork'[c] \in Blocks => (BestTarget(pindexMostWork[c]))'
  <2>1. PICK m : m = pindexMostWork[c]
    OBVIOUS
  <2>2. m \in Blocks => (BestTarget(m))'
    BY ZenonT(30), <1>1, <1>4, <2>1, Untouched
  <2>3. pindexMostWork'[c] \in Blocks => (BestTarget(pindexMostWork[c]))'
    BY <1>3, <2>1, <2>2 DEF BestTarget, Clean, IsBestCandidate
  <2> QED
    BY Zenon, <1>1, <1>4, <2>3, Untouched
<1>6. "find" \in Labels /\ "step" \in Labels
  BY DEF Labels
<1>7. ASSUME NEW l \in {"find", "step"}, pc' = [pc EXCEPT ![c] = l] PROVE BestInv'
  <2>1. l # "invalidate" /\ l \notin {"idle", "link"} /\ l # "idle" /\ l \in Labels
    BY <1>6
  <2> QED
    BY Zenon, <1>1, <1>3, <1>4, <1>5, <1>7, <2>1, StepEnds
<1> QED
  BY Zenon, <1>3, <1>7

\* FindMostWorkChain: the search ends at the tip only if it is the only
\* candidate, and giving up a chain spares every clean candidate.
LEMMA FindMostWorkChainBest ==
  ASSUME Serial, BInv, NEW c \in Callers, FindMostWorkChain(c)
  PROVE  BestInv'
<1>1. /\ Clean(tip) /\ (\E t \in linked : Base(t)) /\ \A d \in Callers : pindexMostWork[d] = NULL
      /\ chainActive \ {Genesis} \subseteq haveUndo /\ chainActive \cap BadConnect = {}
  BY Zenon, AtStep DEF FindMostWorkChain
<1>2. PICK t \in linked : Base(t)
  BY Zenon, <1>1
<1>3. /\ UNCHANGED <<tip, linked, nSequenceId, failedValid, haveUndo>>
      /\ csMain = c /\ pc[c] = "find" /\ chainActive' = chainActive
  BY Zenon DEF FindMostWorkChain, chainActive
<1>4. NoQueue
  BY QueueEmpty DEF FindMostWorkChain, BInv, CInv, SInv
<1>5. setBlockIndexCandidates # {}
  BY <1>2 DEF Base
<1>6. ASSUME NEW b \in setBlockIndexCandidates, IsBestCandidate(b), b = tip, Return(c),
             UNCHANGED chain
      PROVE  BestInv'
  <2>1. setBlockIndexCandidates = {tip}
    BY <1>6 DEF IsBestCandidate, BInv, CInv, SoundInv
  <2>2. Base(tip)
    BY Zenon, <1>2, <2>1 DEF Base
  <2>3. /\ (Clean(tip))' /\ (\E u \in linked' : (Base(u))') /\ (Base(tip))'
        /\ setBlockIndexCandidates' = {tip'}
    BY Zenon, <1>1, <1>3, <1>6, <2>1, <2>2, Untouched
  <2>4. pc' = [pc EXCEPT ![c] = "idle"] /\ \A d \in Callers : pindexMostWork'[d] = NULL
    BY <1>1, <1>6 DEF Return, BInv, RInv, SInv, IInv, TypeOK
  <2>5. "idle" \in Labels /\ "idle" # "invalidate"
    BY DEF Labels
  <2> QED
    BY Zenon, <1>1, <1>3, <2>3, <2>4, <2>5, StepEnds, ParameterAssumption
<1>7. ASSUME NEW b \in setBlockIndexCandidates, IsBestCandidate(b), Unusable(b) = {}, b # tip,
             pc' = [pc EXCEPT ![c] = "step"],
             pindexMostWork' = [pindexMostWork EXCEPT ![c] = b], UNCHANGED chain
      PROVE  BestInv'
  <2>1. Clean(b)
    BY Zenon, <1>1, <1>7 DEF Clean, Unusable, failed, chainActive
  <2>2. BestTarget(b)
    BY <1>7, <2>1 DEF BestTarget
  <2>3. (Clean(tip))' /\ (\E u \in linked' : (Base(u))') /\ (BestTarget(b))'
    BY Zenon, <1>1, <1>3, <1>7, <2>2, Untouched
  <2>4. pindexMostWork'[c] = b /\ \A d \in Callers : d # c => pindexMostWork'[d] = NULL
    BY ZenonT(30), <1>1, <1>7 DEF BInv, RInv, SInv, IInv, TypeOK
  <2>5. (BestTarget(pindexMostWork[c]))'
    BY <2>3, <2>4 DEF BestTarget, Clean, IsBestCandidate
  <2>6. "step" \in Labels /\ "step" # "invalidate" /\ "step" \notin {"idle", "link"} /\ "step" # "idle"
    BY DEF Labels
  <2> QED
    BY ZenonT(30), <1>1, <1>3, <1>7, <2>3, <2>4, <2>5, <2>6, StepEnds
<1>8. ASSUME NEW b \in setBlockIndexCandidates, NEW x \in ChainOf[b], IsFirstUnusable(b, x),
             GiveUp(b, x), UNCHANGED <<pc, pindexMostWork>>
      PROVE  BestInv'
  <2>1. x \in failed /\ b \in Blocks /\ x \in Blocks
    BY Zenon, <1>4, <1>8, GivesUpFailed, TreeAssumption DEF BInv, CInv, SInv, IInv, TypeOK
  <2>2. ~Clean(x)
    BY Zenon, <2>1, ChainBasics DEF Clean, failed, BInv, FailedInv
  <2>3. \A y \in PathSet(b, x) : ~Clean(y)
    <3> SUFFICES ASSUME NEW y \in PathSet(b, x) PROVE ~Clean(y)
      OBVIOUS
    <3>1. y \in ChainOf[b] /\ nHeight[x] <= nHeight[y] /\ y \in Blocks
      BY <2>1, TreeAssumption DEF PathSet
    <3>2. ChainOf[x] \subseteq ChainOf[y]
      BY Zenon, <2>1, <3>1, ChainLinear, ChainTransitive
    <3> QED
      BY <2>2, <3>2 DEF Clean
  <2>4. \A y \in setBlockIndexCandidates : y \in setBlockIndexCandidates' \/ ~(Clean(y))'
    BY Zenon, <1>3, <1>8, <2>2, <2>3 DEF GiveUp, Clean
  <2>5. (Clean(t))' /\ (Clean(tip))'
    BY Zenon, <1>1, <1>2, <1>3 DEF Base, Clean
  <2>6. (Base(t))'
    BY Zenon, <1>2, <1>3, <2>4, <2>5, BaseKept
  <2>7. pc' = [pc EXCEPT ![c] = "find"] /\ "find" \in Labels /\ "find" # "invalidate"
        /\ "find" \notin {"idle", "link"} /\ "find" # "idle"
    BY ZenonT(30), SMTT(30), <1>3, <1>8 DEF Labels, BInv, RInv, SInv, IInv, TypeOK
  <2> QED
    BY Zenon, <1>1, <1>3, <1>8, <2>5, <2>6, <2>7, StepEnds, ParameterAssumption
<1> QED
  BY Zenon, <1>5, <1>6, <1>7, <1>8 DEF FindMostWorkChain

\* The block to connect, where the step stands (b and m do not change).
LEMMA Connecting ==
  ASSUME Serial, BInv, NEW c \in Callers, Holds(c, "step"), tip \in ChainOf[pindexMostWork[c]]
  PROVE  \E m \in linked : \E b \in ChainOf[m] :
           /\ m = pindexMostWork[c] /\ b = NextToConnect(c) /\ BestTarget(m)
           /\ b \in linked /\ b \in Blocks /\ b # Genesis
           /\ Prev[b] = tip /\ ChainOf[b] = {b} \cup ChainOf[tip] /\ Clean(b)
<1> DEFINE m == pindexMostWork[c]
           b == NextToConnect(c)
<1>1. m \in Blocks /\ BestTarget(m)
  BY Zenon, AtStep DEF BInv, RInv, SInv, IInv, LockInv
<1>2. /\ b \in NonGenesis /\ Prev[b] = tip /\ ChainOf[b] = {b} \cup ChainOf[tip]
      /\ b \in ChainOf[m]
  BY Zenon, NextToConnectFacts DEF BInv, RInv, SInv
<1>3. NoQueue
  BY Zenon, QueueEmpty DEF BInv, RInv, SInv
<1> HIDE DEF m, b
<1>4. m \in linked /\ ChainOf[m] \subseteq linked
  BY Zenon, <1>1, <1>3, AllLinked DEF BestTarget, BInv, RInv
<1>5. Clean(b)
  BY <1>1, <1>2, ChainTransitive DEF Clean, BestTarget
<1> QED
  BY Zenon, <1>1, <1>2, <1>4, <1>5 DEF m, b, NonGenesis

\* ConnectTip fails: the marked block is not an ancestor of the good candidate.
LEMMA ConnectTipFailsBest ==
  ASSUME Serial, BInv, NEW c \in Callers, ConnectTipFails(c)
  PROVE  BestInv'
<1>1. /\ Clean(tip) /\ (\E t \in linked : Base(t))
      /\ \A d \in Callers : d # c => pindexMostWork[d] = NULL
      /\ chainActive \ {Genesis} \subseteq haveUndo /\ chainActive \cap BadConnect = {}
  BY Zenon, AtStep DEF ConnectTipFails
<1>2. PICK t \in linked : Base(t)
  BY Zenon, <1>1
<1>3. PICK m \in linked : \E b \in ChainOf[m] :
           /\ m = pindexMostWork[c] /\ b = NextToConnect(c) /\ BestTarget(m)
           /\ b \in linked /\ b \in Blocks /\ b # Genesis
           /\ Prev[b] = tip /\ ChainOf[b] = {b} \cup ChainOf[tip] /\ Clean(b)
  BY Zenon, Connecting DEF ConnectTipFails
<1>4. PICK b \in ChainOf[m] : /\ b = NextToConnect(c) /\ b \in Blocks
  BY <1>3
<1>5. CASE aborted'
  BY <1>5 DEF BestInv
<1>6. CASE ~aborted'
  <2>1. /\ UNCHANGED <<tip, linked, nSequenceId, haveUndo>> /\ csMain = c
        /\ pc' = [pc EXCEPT ![c] = "activate"]
        /\ pindexMostWork' = [pindexMostWork EXCEPT ![c] = NULL]
        /\ \/ UNCHANGED <<failedValid, setBlockIndexCandidates>>
           \/ /\ b \in BadConnect /\ failedValid' = failedValid \cup {b}
              /\ setBlockIndexCandidates' = setBlockIndexCandidates \ {b}
    BY Zenon, <1>4, <1>6 DEF ConnectTipFails, AbortNode
  <2>2. (Clean(tip))' /\ (Clean(t))'
    BY Zenon, <1>1, <1>2, <2>1 DEF Clean, Base, chainActive
  <2>3. \A x \in setBlockIndexCandidates : x \in setBlockIndexCandidates' \/ ~(Clean(x))'
    BY Zenon, <1>4, <2>1, ChainBasics DEF Clean
  <2>4. (Base(t))'
    BY Zenon, <1>2, <2>1, <2>2, <2>3, BaseKept
  <2>5. \A d \in Callers : pindexMostWork'[d] = NULL
    BY Zenon, <1>1, <2>1 DEF BInv, RInv, SInv, IInv, TypeOK
  <2>6. chainActive' = chainActive /\ "activate" \in Labels /\ "activate" # "invalidate"
        /\ "activate" \notin {"idle", "link"} /\ "activate" # "idle"
    BY Zenon, <2>1 DEF chainActive, Labels
  <2> QED
    BY Zenon, <1>1, <2>1, <2>2, <2>4, <2>5, <2>6, StepEnds, ParameterAssumption
<1> QED
  BY Zenon, <1>5, <1>6

\* DisconnectTip always has its undo data and never goes as far as the target.
LEMMA DisconnectTipBest ==
  ASSUME Serial, BInv, NEW c \in Callers, DisconnectTip(c)
  PROVE  BestInv'
<1>1. /\ Clean(tip) /\ (\E t \in linked : Base(t))
      /\ \A d \in Callers : d # c => pindexMostWork[d] = NULL
      /\ chainActive \ {Genesis} \subseteq haveUndo /\ chainActive \cap BadConnect = {}
      /\ pindexMostWork[c] \in Blocks => BestTarget(pindexMostWork[c])
  BY Zenon, AtStep DEF DisconnectTip
<1>2. PICK m : m = pindexMostWork[c]
  OBVIOUS
<1>3. m \in Blocks /\ BestTarget(m) /\ tip \in NonGenesis /\ Prev[tip] \in Blocks /\ tip \in Blocks
  <2>1. m \in Blocks /\ tip \in Blocks
    BY Zenon, <1>2 DEF DisconnectTip, BInv, RInv, SInv, IInv, LockInv, TypeOK
  <2>2. tip \notin ChainOf[m]
    BY Zenon, <1>2 DEF DisconnectTip
  <2>3. tip \in NonGenesis /\ Prev[tip] \in Blocks
    BY <2>1, <2>2, ChainBasics, TreeAssumption DEF NonGenesis
  <2> QED
    BY Zenon, <1>1, <1>2, <2>1, <2>3
<1>4. tip \in haveUndo
  BY Zenon, <1>1, <1>3, ChainBasics DEF chainActive, NonGenesis
<1>5. Prev[tip] # m
  <2>1. ~Worse(nSequenceId, m, tip)
    BY <1>3 DEF BestTarget, BInv, CInv, SoundInv
  <2> QED
    BY Zenon, <1>3, <2>1, TreeAssumption DEF Worse
<1>6. CASE aborted'
  BY <1>6 DEF BestInv
<1>7. CASE ~aborted'
  <2>1. /\ UNCHANGED <<linked, nSequenceId, haveUndo, failedValid, setBlockIndexCandidates, pc,
                       pindexMostWork>>
        /\ tip' = Prev[tip] /\ csMain = c /\ pc[c] = "step"
    BY Zenon, <1>2, <1>4, <1>5, <1>7 DEF DisconnectTip, AbortNode
  <2>2. chainActive' \subseteq chainActive
    BY Zenon, <1>3, <2>1, TreeAssumption DEF chainActive
  <2>3. (Clean(tip))' /\ \E t \in linked' : (Base(t))'
    BY Zenon, <1>1, <2>1, <2>2 DEF Clean, Base, chainActive
  <2>4. pindexMostWork'[c] \in Blocks => (BestTarget(pindexMostWork[c]))'
    BY Zenon, <1>2, <1>3, <1>5, <2>1 DEF BestTarget, Clean, IsBestCandidate
  <2>5. pc' = [pc EXCEPT ![c] = "step"] /\ "step" \in Labels /\ "step" # "invalidate"
        /\ "step" \notin {"idle", "link"} /\ "step" # "idle"
    BY Zenon, <2>1 DEF BInv, RInv, SInv, IInv, TypeOK, Labels
  <2>6. chainActive' \ {Genesis} \subseteq haveUndo' /\ chainActive' \cap BadConnect = {}
    BY Zenon, <1>1, <2>1, <2>2
  <2> QED
    BY Zenon, <1>1, <2>1, <2>3, <2>4, <2>5, <2>6, StepEnds
<1> QED
  BY Zenon, <1>6, <1>7

\* ConnectTip: the new tip b replaces a good candidate that is worse than b, and
\* when b is the target, the best candidate, no other one is left.
LEMMA ConnectTipBest ==
  ASSUME Serial, NoPruning, BInv, NEW c \in Callers, ConnectTip(c)
  PROVE  BestInv'
<1>1. /\ Clean(tip) /\ (\E t \in linked : Base(t))
      /\ \A d \in Callers : d # c => pindexMostWork[d] = NULL
      /\ chainActive \ {Genesis} \subseteq haveUndo /\ chainActive \cap BadConnect = {}
  BY Zenon, AtStep DEF ConnectTip
<1>2. PICK t \in linked : Base(t)
  BY Zenon, <1>1
<1>3. PICK m \in linked : \E b \in ChainOf[m] :
           /\ m = pindexMostWork[c] /\ b = NextToConnect(c) /\ BestTarget(m)
           /\ b \in linked /\ b \in Blocks /\ b # Genesis
           /\ Prev[b] = tip /\ ChainOf[b] = {b} \cup ChainOf[tip] /\ Clean(b)
  BY Zenon, Connecting DEF ConnectTip
<1>4. PICK b \in ChainOf[m] :
           /\ m = pindexMostWork[c] /\ b = NextToConnect(c) /\ BestTarget(m)
           /\ b \in linked /\ b \in Blocks /\ b # Genesis
           /\ Prev[b] = tip /\ ChainOf[b] = {b} \cup ChainOf[tip] /\ Clean(b)
  BY Zenon, <1>3
<1>5. /\ UNCHANGED <<linked, nSequenceId, failedValid>> /\ csMain = c /\ tip' = b
      /\ setBlockIndexCandidates' = {x \in setBlockIndexCandidates : ~Worse(nSequenceId, x, b)}
      /\ b \notin BadConnect
      /\ \E P \in PrunableSets(haveData, tip, nLastBlockFile) : PruneFiles(P, haveUndo \cup {b})
  BY Zenon, <1>4 DEF ConnectTip, PruneBlockIndexCandidates, Holds
<1>6. haveUndo' = haveUndo \cup {b}
  BY Zenon, <1>5, NothingPruned DEF PruneFiles, UndoAfterPrune, BInv, RInv, SInv, IInv
<1>7. /\ chainActive' \ {Genesis} \subseteq haveUndo' /\ chainActive' \cap BadConnect = {}
      /\ (Clean(tip))' /\ ChainOf[b] \cap BadConnect = {}
  BY Zenon, <1>1, <1>4, <1>5, <1>6 DEF chainActive, Clean
<1>8. /\ nSequenceId \in [Blocks -> Nat] /\ linked \subseteq Blocks
      /\ setBlockIndexCandidates \subseteq linked
  BY Zenon DEF BInv, RInv, SInv, IInv, TypeOK, CInv, SoundInv
<1>9. \E u \in linked' : (Base(u))'
  <2>1. CASE Worse(nSequenceId, t, b)
    <3>1. ~Worse(nSequenceId, b, t) /\ ~Worse(nSequenceId, b, b)
      BY ONLY Zenon, <1>2, <1>4, <1>8, <2>1, WorseOrder
    <3>2. b \in setBlockIndexCandidates
      BY Zenon, <1>2, <1>4, <3>1 DEF Base
    <3>3. \A x \in linked : ~Worse(nSequenceId, x, b) => ~Worse(nSequenceId, x, t)
      BY ONLY Zenon, <1>2, <1>4, <1>8, <3>1, WorseOrder
    <3>4. (Base(b))'
      BY Zenon, <1>2, <1>4, <1>5, <1>7, <3>1, <3>2, <3>3 DEF Base, Clean
    <3> QED
      BY Zenon, <1>4, <1>5, <3>4
  <2>2. CASE ~Worse(nSequenceId, t, b)
    <3>1. \A x \in linked : ~Worse(nSequenceId, x, t) => ~Worse(nSequenceId, x, b)
      BY ONLY Zenon, <1>2, <1>4, <1>8, <2>2, WorseOrder
    <3>2. (Base(t))'
      BY Zenon, <1>2, <1>5, <2>2, <3>1 DEF Base, Clean
    <3> QED
      BY Zenon, <1>5, <3>2
  <2> QED
    BY Zenon, <2>1, <2>2
<1>10. CASE b = m
  <2>1. /\ pc' = [pc EXCEPT ![c] = "idle"]
        /\ pindexMostWork' = [pindexMostWork EXCEPT ![c] = NULL]
    BY Zenon, <1>4, <1>10 DEF ConnectTip, EndStep, Return, Release
  <2>2. \A d \in Callers : pindexMostWork'[d] = NULL
    BY Zenon, <1>1, <2>1 DEF BInv, RInv, SInv, IInv, TypeOK
  <2>3. ~Worse(nSequenceId, b, b)
    BY ONLY Zenon, <1>4, <1>8, WorseOrder
  <2>4. setBlockIndexCandidates' = {b}
    BY Zenon, <1>4, <1>5, <1>10, <2>3 DEF BestTarget, IsBestCandidate
  <2>5. (Base(tip))'
    BY <1>5, <1>9, <2>4 DEF Base, Clean
  <2>6. "idle" \in Labels /\ "idle" # "invalidate"
    BY DEF Labels
  <2> QED
    BY ZenonT(30), <1>1, <1>5, <1>7, <1>9, <2>1, <2>2, <2>4, <2>5, <2>6, StepEnds, ParameterAssumption
<1>11. CASE b # m
  <2>1. PICK l \in {"step", "activate"} : pc' = [pc EXCEPT ![c] = l]
    <3>1. pc = [pc EXCEPT ![c] = "step"]
      BY Zenon DEF ConnectTip, BInv, RInv, SInv, IInv, TypeOK
    <3> QED
      BY Zenon, <1>4, <1>11, <3>1 DEF ConnectTip, EndStep, Release
  <2>2. pindexMostWork' = pindexMostWork
    BY Zenon, <1>4, <1>11 DEF ConnectTip, EndStep
  <2>3. ~Worse(nSequenceId, m, b)
    <3>1. nChainWork[b] < nChainWork[m] /\ nChainWork[b] \in Nat /\ nChainWork[m] \in Nat
      BY Zenon, <1>4, <1>8, <1>11, ChainWork, TreeAssumption
    <3> QED
      BY <3>1 DEF Worse
  <2>4. (BestTarget(m))'
    BY Zenon, <1>4, <1>5, <1>11, <2>3 DEF BestTarget, Clean, IsBestCandidate
  <2>5. pindexMostWork'[c] \in Blocks => (BestTarget(pindexMostWork[c]))'
    BY <1>4, <2>2, <2>4 DEF BestTarget, Clean, IsBestCandidate
  <2>6. l \in Labels /\ l # "invalidate" /\ l \notin {"idle", "link"} /\ l # "idle"
    BY <2>1 DEF Labels
  <2> QED
    BY ZenonT(30), <1>1, <1>5, <1>7, <1>9, <2>1, <2>2, <2>5, <2>6, StepEnds
<1> QED
  BY Zenon, <1>10, <1>11

\* The operator marks a block: nothing else on the active chain is marked.
LEMMA InvalidateBlockBest ==
  ASSUME Serial, BInv, NEW c \in Callers, NEW b \in Blocks, InvalidateBlock(c, b)
  PROVE  BestInv'
<1>1. /\ Clean(tip) /\ \A d \in Callers : pindexMostWork[d] = NULL
      /\ chainActive \ {Genesis} \subseteq haveUndo /\ chainActive \cap BadConnect = {}
  BY AtStep DEF InvalidateBlock
<1>2. /\ UNCHANGED <<tip, haveUndo, pindexMostWork>> /\ csMain \in {NULL, c}
      /\ failedValid' = failedValid \cup {b} /\ pindexInvalid' = b
      /\ pc' = [pc EXCEPT ![c] = "invalidate"]
  BY Zenon DEF InvalidateBlock, Hold, Free
<1>3. chainActive' = chainActive /\ chainActive' \cap failedValid' \subseteq {pindexInvalid'}
  BY <1>1, <1>2 DEF chainActive, Clean
<1>4. "invalidate" \in Labels /\ "invalidate" \notin {"idle", "link"} /\ "invalidate" # "idle"
  BY Zenon DEF Labels
<1> QED
  BY ZenonT(30), <1>1, <1>2, <1>3, <1>4, StepEnds, ParameterAssumption

\* It disconnects the tip, which has its undo data.
LEMMA InvalidateTipBest ==
  ASSUME Serial, BInv, NEW c \in Callers, InvalidateTip(c)
  PROVE  BestInv'
<1>1. /\ \A d \in Callers : pindexMostWork[d] = NULL
      /\ chainActive \ {Genesis} \subseteq haveUndo /\ chainActive \cap BadConnect = {}
      /\ chainActive \cap failedValid \subseteq {pindexInvalid}
  BY Zenon, AtStep DEF InvalidateTip
<1>2. tip \in NonGenesis
  BY ZenonT(30), TreeAssumption
  DEF InvalidateTip, chainActive, NonGenesis, BInv, RInv, SInv, IInv, LockInv, TypeOK
<1>3. tip \in haveUndo
  BY <1>1, <1>2, ChainBasics DEF chainActive, NonGenesis
<1>4. CASE aborted'
  BY <1>4 DEF BestInv
<1>5. CASE ~aborted'
  <2>1. /\ UNCHANGED <<haveUndo, failedValid, pindexMostWork, pindexInvalid, pc>>
        /\ tip' = Prev[tip] /\ csMain = c /\ pc[c] = "invalidate"
    BY Zenon, <1>3, <1>5 DEF InvalidateTip
  <2>2. chainActive' \subseteq chainActive
    BY <1>2, <2>1, TreeAssumption DEF chainActive
  <2>3. /\ chainActive' \ {Genesis} \subseteq haveUndo' /\ chainActive' \cap BadConnect = {}
        /\ chainActive' \cap failedValid' \subseteq {pindexInvalid'}
    BY Zenon, <1>1, <2>1, <2>2
  <2>4. /\ pc' = [pc EXCEPT ![c] = "invalidate"]
        /\ "invalidate" \in Labels /\ "invalidate" \notin {"idle", "link"} /\ "invalidate" # "idle"
    BY <2>1 DEF BInv, RInv, SInv, IInv, TypeOK, Labels
  <2> QED
    BY Zenon, <1>1, <2>1, <2>3, <2>4, StepEnds, ParameterAssumption
<1> QED
  BY <1>4, <1>5

\* The refill: the new tip is clean, and a good candidate.
LEMMA FinishInvalidateBest ==
  ASSUME Serial, BInv, NEW c \in Callers, FinishInvalidate(c)
  PROVE  BestInv'
<1>1. /\ \A d \in Callers : pindexMostWork[d] = NULL
      /\ chainActive \ {Genesis} \subseteq haveUndo /\ chainActive \cap BadConnect = {}
      /\ chainActive \cap failedValid \subseteq {pindexInvalid}
  BY Zenon, AtStep DEF FinishInvalidate
<1>2. /\ UNCHANGED <<tip, haveUndo, pindexMostWork, failedValid, linked, nSequenceId>> /\ csMain = c
      /\ setBlockIndexCandidates' = setBlockIndexCandidates \cup Refill
      /\ pc' = [pc EXCEPT ![c] = "activate"] /\ pindexInvalid \notin chainActive
  BY Zenon DEF FinishInvalidate, Release, Holds
<1>3. chainActive' = chainActive /\ Clean(tip)
  BY Zenon, <1>1, <1>2 DEF chainActive, Clean
<1>4. /\ tip \in linked /\ linked \subseteq Blocks /\ linked \subseteq hasTx
      /\ nSequenceId \in [Blocks -> Nat] /\ tip \in Blocks
  <2>1. NoQueue
    BY Zenon, QueueEmpty DEF FinishInvalidate, BInv, RInv, SInv
  <2> QED
    BY Zenon, <2>1, AllLinked DEF BInv, RInv, SInv, IInv, TypeOK
<1>5. \A x \in linked : Clean(x) => IsValid(x, VALID_TRANSACTIONS)
  BY Zenon, <1>4, ChainBasics DEF IsValid, failed, Clean, BInv, FailedInv, RInv, SInv, IndexInv
<1>6. ~Worse(nSequenceId, tip, tip)
  BY <1>4, WorseOrder
<1>7. tip \in Refill /\ \A x \in linked : Clean(x) /\ ~Worse(nSequenceId, x, tip) => x \in Refill
  BY Zenon, <1>3, <1>4, <1>5, <1>6 DEF Refill
<1>8. Base(tip)' /\ Clean(tip)'
  BY Zenon, <1>1, <1>2, <1>3, <1>7 DEF Base, Clean, chainActive
<1>9. \E t \in linked' : (Base(t))'
  <2>1. PICK t \in linked' : t = tip
    BY <1>2, <1>4
  <2> QED
    BY <1>2, <1>8, <2>1 DEF Base, Clean
<1>10. "activate" \in Labels /\ "activate" # "invalidate"
       /\ "activate" \notin {"idle", "link"} /\ "activate" # "idle"
  BY DEF Labels
<1> QED
  BY Zenon, <1>1, <1>2, <1>3, <1>8, <1>9, <1>10, StepEnds, ParameterAssumption

LEMMA NextBInv ==
  ASSUME NoPruning, Serial PROVE BInv /\ [NextWithInvalidate]_vars => BInv'
<1> SUFFICES ASSUME BInv, [NextWithInvalidate]_vars PROVE BestInv'
  BY Zenon, NextRInv, NextFInv, NextCInv DEF BInv, NextWithOperator, FInv, RInv, SInv
<1>1. CASE UNCHANGED vars
  <2>1. UNCHANGED <<tip, haveUndo, pindexMostWork, failedValid, linked, nSequenceId, pc, aborted,
                    setBlockIndexCandidates, pindexInvalid>>
    BY <1>1
  <2> QED
    BY Zenon, <2>1
    DEF BInv, BestInv, Base, BestTarget, Clean, chainActive, Invalidating, Activating, Working,
        IsBestCandidate
<1>2. ASSUME NEW c \in Callers, Arrival(c) PROVE BestInv'
  BY Zenon, <1>2, HeaderBest, RejectBlockBest DEF Arrival
<1>3. ASSUME NEW c \in Callers, Continue(c) PROVE BestInv'
  BY Zenon, <1>3, LinkBlockBest, FinishAcceptBest, BeginStepBest, FindMostWorkChainBest,
     DisconnectTipBest, ConnectTipFailsBest, ConnectTipBest, InvalidateTipBest,
     FinishInvalidateBest
  DEF Continue
<1> QED
  BY Zenon, <1>1, <1>2, <1>3, InvalidateBlockBest DEF NextWithInvalidate, Next

\* When nothing runs, the tip is the good candidate and the only one.
LEMMA SettledBest ==
  ASSUME BInv, Settled
  PROVE  /\ Base(tip) /\ setBlockIndexCandidates = {tip} /\ tip \in Blocks
         /\ linked \subseteq Blocks
BY DEF BInv, BestInv, Settled, Quiet, Working, Activating, RInv, SInv, IInv, TypeOK

\* Where nothing is pruned and calls do not overlap: between two calls
\* setBlockIndexCandidates holds every block that could be the tip, through the
\* deletions of ConnectTip and InvalidateBlock, the refill and the blocks linked late.
THEOREM CandidatesAlwaysComplete ==
  ASSUME NoPruning, Serial PROVE SpecWithInvalidate => []CandidatesComplete
<1>1. BInv => CandidatesComplete
  BY Zenon, SettledBest DEF CandidatesComplete, Base, Clean
<1>2. Init => BInv
  BY InitBInv
<1>3. BInv /\ [NextWithInvalidate]_vars => BInv'
  BY Zenon, NextBInv
<1> QED
  BY <1>1, <1>2, <1>3, PTL DEF SpecWithInvalidate

\* Of the usable blocks the tip is the first in the order of the comparator.
LEMMA TipFirst ==
  ASSUME BInv, Settled, NEW b \in linked, Unusable(b) = {}
  PROVE  b \in Blocks /\ tip \in Blocks /\ (b = tip \/ Worse(nSequenceId, b, tip))
<1>1. Base(tip) /\ setBlockIndexCandidates = {tip} /\ tip \in Blocks /\ b \in Blocks
  BY Zenon, SettledBest
<1>2. Clean(b)
  BY ZenonT(30), <1>1 DEF Base, Clean, Unusable, failed, chainActive
<1> QED
  BY Zenon, <1>1, <1>2 DEF Base

\* Where nothing is pruned and calls do not overlap: when ActivateBestChain has
\* returned, every other usable block has less work than the tip, or as much and
\* was linked later.  Between chains with the same work it is the first one that
\* counts, in whatever order blocks arrive, fail and are invalidated, and after
\* reorganisations that were given up half way.
THEOREM FirstSeenAlwaysActive ==
  ASSUME NoPruning, Serial PROVE SpecWithInvalidate => []FirstSeenActivated
<1>1. BInv => FirstSeenActivated
  BY Zenon, TipFirst DEF FirstSeenActivated
<1>2. Init => BInv
  BY InitBInv
<1>3. BInv /\ [NextWithInvalidate]_vars => BInv'
  BY Zenon, NextBInv
<1> QED
  BY <1>1, <1>2, <1>3, PTL DEF SpecWithInvalidate

\* Where nothing is pruned and calls do not overlap: when ActivateBestChain has
\* returned, no linked block whose chain is stored and passes its checks has more
\* work than the tip, whatever was received, refused or invalidated before.
THEOREM BestChainAlwaysActive ==
  ASSUME NoPruning, Serial PROVE SpecWithInvalidate => []BestChainActivated
<1>1. BInv => BestChainActivated
  <2> SUFFICES ASSUME BInv, Settled, NEW b \in linked, Unusable(b) = {}
               PROVE  nChainWork[b] <= nChainWork[tip]
    BY DEF BestChainActivated
  <2>1. b = tip \/ Worse(nSequenceId, b, tip)
    BY Zenon, TipFirst
  <2>2. nChainWork[b] \in Nat /\ nChainWork[tip] \in Nat
    BY TipFirst, TreeAssumption
  <2> QED
    BY <2>1, <2>2 DEF Worse
<1>2. Init => BInv
  BY InitBInv
<1>3. BInv /\ [NextWithInvalidate]_vars => BInv'
  BY NextBInv
<1> QED
  BY <1>1, <1>2, <1>3, PTL DEF SpecWithInvalidate

=============================================================================
