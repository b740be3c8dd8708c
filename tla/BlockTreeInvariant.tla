------------------------ MODULE BlockTreeInvariant --------------------------
(***************************************************************************)
(* The inductive invariants behind the theorems about BlockTree and the    *)
(* facts about trees of blocks they use: IInv, for the types, the lock,    *)
(* the received blocks and the targets, and SInv, which adds the index     *)
(* entries, the stored blocks and the sequence ids.  Both are preserved    *)
(* while blocks arrive, chains are activated and the operator invalidates  *)
(* and reconsiders blocks, for every tree and number of threads.           *)
(***************************************************************************)
EXTENDS BlockTree, TLAPS

-----------------------------------------------------------------------------
(* The inductive invariant, in named parts *)

\* Who is inside a critical section holds cs_main, and an activation step
\* has a target that is not reached yet.
LockInv ==
  /\ \A c \in Callers : pc[c] \in {"link", "find", "step", "invalidate"} => csMain = c
  /\ \A c \in Callers : pc[c] = "step" =>
       pindexMostWork[c] \in Blocks /\ tip # pindexMostWork[c]
  /\ \A c \in Callers : pc[c] = "invalidate" => pindexInvalid \in failedValid \ {Genesis}

\* The queue of ReceivedBlockTransactions is used by the lock holder only.
QueueInv ==
  \A b \in Blocks : queue[b] > 0 =>
    /\ b # Genesis
    /\ csMain \in Callers /\ pc[csMain] = "link"

InQueue(b) == queue[b] > 0

\* What was received: linked blocks reach down to Genesis through linked
\* blocks and the block about to be linked.
ReceivedInv ==
  /\ Genesis \in linked /\ linked \subseteq hasTx
  /\ \A b \in Blocks : InQueue(b) => b \in hasTx /\ Prev[b] \in linked
  /\ \A b \in Blocks : mapBlocksUnlinked[b] > 0 => b \in hasTx /\ b # Genesis
  /\ \A b \in linked \ {Genesis} : Prev[b] \in linked \/ InQueue(Prev[b])

\* Candidates, targets and the active chain consist of received blocks.
TargetInv ==
  /\ \A b \in setBlockIndexCandidates : ChainOf[b] \subseteq hasTx
  /\ \A c \in Callers : pindexMostWork[c] \in Blocks =>
       ChainOf[pindexMostWork[c]] \subseteq hasTx
  /\ ChainOf[tip] \subseteq hasTx

\* Every block marked as the child of a failed one has a failed ancestor.
FailedInv == \A b \in failedChild : ChainOf[b] \cap failedValid # {}

\* Without the operator's calls only the verdicts of the checks mark blocks,
\* blocks refused by ContextualCheckBlock are not stored, and the active
\* chain has passed ConnectBlock.
VerdictInv ==
  /\ \A c \in Callers : pc[c] # "invalidate"
  /\ failedValid \subseteq BadConnect \cup BadContext
  /\ hasTx \cap BadContext = {}
  /\ ChainOf[tip] \cap BadConnect = {}
  /\ \A b \in ChainOf[tip] \ {Genesis} : validity[b] = VALID_SCRIPTS
  /\ \A b \in NonGenesis : validity[b] = VALID_SCRIPTS =>
       Prev[b] = Genesis \/ validity[Prev[b]] = VALID_SCRIPTS

IInv == TypeOK /\ LockInv /\ QueueInv /\ ReceivedInv /\ TargetInv
FInv == IInv /\ FailedInv
AInv == FInv /\ VerdictInv

-----------------------------------------------------------------------------
(* Facts about the tree of blocks *)

\* What holds for Genesis and is inherited by every child holds everywhere;
\* here: a block is its own ancestor and every ancestor is a block.
LEMMA ChainBasics ==
  \A b \in Blocks : b \in ChainOf[b] /\ Genesis \in ChainOf[b]
                    /\ ChainOf[b] \subseteq Blocks
<1> DEFINE S == {b \in Blocks : b \in ChainOf[b] /\ Genesis \in ChainOf[b]}
<1>1. Genesis \in S
  BY TreeAssumption
<1>2. \A b \in NonGenesis : Prev[b] \in S => b \in S
  BY TreeAssumption DEF NonGenesis
<1>3. S = Blocks
  <2> HIDE DEF S
  <2>1. S \in SUBSET Blocks
    BY DEF S
  <2> QED
    BY <1>1, <1>2, <2>1, TreeInduction
<1> QED
  BY <1>3, TreeAssumption

\* The ancestors of an ancestor are ancestors.
LEMMA ChainTransitive ==
  \A b \in Blocks : \A x \in ChainOf[b] : ChainOf[x] \subseteq ChainOf[b]
<1> DEFINE S == {b \in Blocks : \A x \in ChainOf[b] : ChainOf[x] \subseteq ChainOf[b]}
<1>1. Genesis \in S
  BY TreeAssumption
<1>2. \A b \in NonGenesis : Prev[b] \in S => b \in S
  BY TreeAssumption DEF NonGenesis
<1>3. S = Blocks
  <2> HIDE DEF S
  <2>1. S \in SUBSET Blocks
    BY DEF S
  <2> QED
    BY <1>1, <1>2, <2>1, TreeInduction
<1> QED
  BY <1>3

\* A set of blocks that contains the parent of each of its members contains
\* all their ancestors.
LEMMA ChainClosed ==
  ASSUME NEW T \in SUBSET Blocks, \A x \in T \ {Genesis} : Prev[x] \in T
  PROVE  \A b \in T : ChainOf[b] \subseteq T
<1> DEFINE S == {b \in Blocks : b \in T => ChainOf[b] \subseteq T}
<1>1. Genesis \in S
  BY TreeAssumption
<1>2. \A b \in NonGenesis : Prev[b] \in S => b \in S
  BY TreeAssumption DEF NonGenesis
<1>3. S = Blocks
  <2> HIDE DEF S
  <2>1. S \in SUBSET Blocks
    BY DEF S
  <2> QED
    BY <1>1, <1>2, <2>1, TreeInduction
<1> QED
  BY <1>3

\* An ancestor is lower, unless it is the block itself.
LEMMA ChainHeight ==
  \A b \in Blocks : \A x \in ChainOf[b] : x = b \/ nHeight[x] < nHeight[b]
<1> DEFINE S == {b \in Blocks : \A x \in ChainOf[b] : x = b \/ nHeight[x] < nHeight[b]}
<1>1. Genesis \in S
  BY TreeAssumption
<1>2. \A b \in NonGenesis : Prev[b] \in S => b \in S
  <2> SUFFICES ASSUME NEW b \in NonGenesis, Prev[b] \in S,
                      NEW x \in ChainOf[b], x # b
               PROVE  nHeight[x] < nHeight[b]
    BY DEF NonGenesis
  <2>1. x \in ChainOf[Prev[b]]
    BY TreeAssumption
  <2>2. x = Prev[b] \/ nHeight[x] < nHeight[Prev[b]]
    BY <2>1
  <2>3. x \in Blocks /\ Prev[b] \in Blocks /\ b \in Blocks
    BY TreeAssumption DEF NonGenesis
  <2>4. nHeight[b] = nHeight[Prev[b]] + 1 /\ nHeight[x] \in Nat /\ nHeight[Prev[b]] \in Nat
    BY TreeAssumption
  <2> QED
    BY <2>2, <2>4
<1>3. S = Blocks
  <2> HIDE DEF S
  <2>1. S \in SUBSET Blocks
    BY DEF S
  <2> QED
    BY <1>1, <1>2, <2>1, TreeInduction
<1> QED
  BY <1>3

\* Of two ancestors of a block, the lower one is an ancestor of the other.
LEMMA ChainLinear ==
  \A b \in Blocks : \A x, y \in ChainOf[b] :
    nHeight[x] <= nHeight[y] => x \in ChainOf[y]
<1> DEFINE S == {b \in Blocks : \A x, y \in ChainOf[b] :
                    nHeight[x] <= nHeight[y] => x \in ChainOf[y]}
<1>1. Genesis \in S
  BY TreeAssumption
<1>2. \A b \in NonGenesis : Prev[b] \in S => b \in S
  <2> SUFFICES ASSUME NEW b \in NonGenesis, Prev[b] \in S,
                      NEW x \in ChainOf[b], NEW y \in ChainOf[b],
                      nHeight[x] <= nHeight[y]
               PROVE  x \in ChainOf[y]
    BY DEF NonGenesis
  <2>1. b \in Blocks /\ x \in Blocks /\ y \in Blocks
    BY TreeAssumption DEF NonGenesis
  <2>2. CASE y = b
    BY <2>2
  <2>3. CASE y # b /\ x = b
    <3>1. nHeight[y] < nHeight[b]
      BY <2>1, <2>3, ChainHeight
    <3> QED
      BY <3>1, TreeAssumption
  <2>4. CASE y # b /\ x # b
    BY <2>4, TreeAssumption
  <2> QED
    BY <2>3, <2>4
<1>3. S = Blocks
  <2> HIDE DEF S
  <2>1. S \in SUBSET Blocks
    BY DEF S
  <2> QED
    BY <1>1, <1>2, <2>1, TreeInduction
<1> QED
  BY <1>3

\* Between a block and a proper ancestor there is a block one higher than
\* the ancestor, and the ancestor is its parent.
LEMMA NextOnChain ==
  ASSUME NEW m \in Blocks, NEW t \in ChainOf[m], t # m
  PROVE  /\ \E y \in ChainOf[m] : nHeight[y] = nHeight[t] + 1
         /\ \A y \in ChainOf[m] : nHeight[y] = nHeight[t] + 1 =>
              y \in NonGenesis /\ Prev[y] = t
<1> DEFINE S == {b \in Blocks : \A x \in ChainOf[b] \ {b} :
                    \E y \in ChainOf[b] : nHeight[y] = nHeight[x] + 1}
<1>1. Genesis \in S
  BY TreeAssumption
<1>2. \A b \in NonGenesis : Prev[b] \in S => b \in S
  <2> SUFFICES ASSUME NEW b \in NonGenesis, Prev[b] \in S,
                      NEW x \in ChainOf[b] \ {b}
               PROVE  \E y \in ChainOf[b] : nHeight[y] = nHeight[x] + 1
    BY DEF NonGenesis
  <2>1. x \in ChainOf[Prev[b]] /\ ChainOf[Prev[b]] \subseteq ChainOf[b]
    BY TreeAssumption
  <2>2. CASE x = Prev[b]
    BY TreeAssumption
  <2>3. CASE x # Prev[b]
    BY <2>1, <2>3
  <2> QED
    BY <2>2, <2>3
<1>3. S = Blocks
  <2> HIDE DEF S
  <2>1. S \in SUBSET Blocks
    BY DEF S
  <2> QED
    BY <1>1, <1>2, <2>1, TreeInduction
<1>4. \E y \in ChainOf[m] : nHeight[y] = nHeight[t] + 1
  BY <1>3
<1>5. ASSUME NEW y \in ChainOf[m], nHeight[y] = nHeight[t] + 1
      PROVE  y \in NonGenesis /\ Prev[y] = t
  <2>1. t \in Blocks /\ y \in Blocks /\ nHeight[t] \in Nat /\ nHeight[y] \in Nat
    BY TreeAssumption
  <2>2. y # Genesis /\ y # t
    BY <1>5, TreeAssumption
  <2>3. t \in ChainOf[y]
    BY <2>1, <1>5, ChainLinear
  <2>4. y \in NonGenesis /\ t \in ChainOf[Prev[y]]
    BY <2>2, <2>3, TreeAssumption DEF NonGenesis
  <2>5. Prev[y] \in Blocks /\ nHeight[Prev[y]] = nHeight[t]
    BY <2>4, <1>5, TreeAssumption
  <2> QED
    BY <2>1, <2>4, <2>5, ChainHeight
<1> QED
  BY <1>4, <1>5

-----------------------------------------------------------------------------
(* The type invariant, the locks and what was received *)

USE DEF Release, Hold, Free, Holds, index, files, chain, threads, scope, vars,
        VALID_UNKNOWN, VALID_TREE, VALID_TRANSACTIONS, VALID_SCRIPTS

\* While no block is being linked, the ancestors of linked blocks are linked.
LEMMA LinkedClosed ==
  ASSUME IInv, \A x \in Blocks : queue[x] = 0
  PROVE  /\ \A x \in linked \ {Genesis} : Prev[x] \in linked
         /\ \A x \in linked : ChainOf[x] \subseteq linked /\ ChainOf[x] \subseteq hasTx
<1>1. ASSUME NEW x \in linked \ {Genesis} PROVE Prev[x] \in linked
  <2>1. Prev[x] \in Blocks
    BY TreeAssumption DEF IInv, TypeOK, NonGenesis
  <2> QED
    BY <2>1 DEF IInv, ReceivedInv, InQueue
<1>2. \A x \in linked : ChainOf[x] \subseteq linked
  BY <1>1, ChainClosed DEF IInv, TypeOK
<1> QED
  BY <1>1, <1>2 DEF IInv, ReceivedInv

\* When cs_main is free for a thread, no other one is in a critical section.
LEMMA OthersOutside ==
  ASSUME IInv, NEW c \in Callers, csMain \in {NULL, c}
  PROVE  \A d \in Callers : d # c => pc[d] \notin {"link", "find", "step", "invalidate"}
BY ParameterAssumption DEF LockInv, IInv

LEMMA FirstFile == 0 \in Files
BY ParameterAssumption DEF Files

\* The types of what PruneOneBlockFile changes.
LEMMA PruneTypes ==
  ASSUME TypeOK, NEW P, NEW undo \in SUBSET Blocks, PruneFiles(P, undo)
  PROVE  /\ haveData' \subseteq Blocks /\ haveUndo' \subseteq Blocks
         /\ nFile' \in [Blocks -> Files] /\ nLastBlockFile' \in Files
         /\ nHeightLast' \in [Files -> Nat] /\ fHavePruned' \in BOOLEAN
         /\ mapBlocksUnlinked' \in [Blocks -> Nat]
<1>1. /\ haveData \subseteq Blocks /\ nFile \in [Blocks -> Files] /\ nLastBlockFile \in Files
      /\ nHeightLast \in [Files -> Nat] /\ fHavePruned \in BOOLEAN
      /\ mapBlocksUnlinked \in [Blocks -> Nat]
  BY Zenon DEF TypeOK
<1>2. /\ haveData' = haveData \ P /\ haveUndo' = undo \ P
      /\ nFile' = [b \in Blocks |-> IF b \in P THEN 0 ELSE nFile[b]]
      /\ nLastBlockFile' = nLastBlockFile /\ fHavePruned' \in BOOLEAN
  BY <1>1 DEF PruneFiles, UndoAfterPrune
<1>3. mapBlocksUnlinked' \in [Blocks -> Nat]
  BY <1>1 DEF PruneFiles, UnlinkedAfterPrune
<1>4. nHeightLast' \in [Files -> Nat]
  BY <1>1 DEF PruneFiles
<1> QED
  BY ONLY <1>1, <1>2, <1>3, <1>4, FirstFile

LEMMA InitIInv == Init => IInv
<1> SUFFICES ASSUME Init PROVE IInv
  OBVIOUS
<1>1. TypeOK
  <2>1. /\ nFile \in [Blocks -> Files] /\ nLastBlockFile \in Files
        /\ nHeightLast \in [Files -> Nat] /\ fHavePruned \in BOOLEAN
    BY Zenon, FirstFile DEF Init
  <2> QED
    BY Zenon, <2>1, TreeAssumption DEF Init, TypeOK, None, Labels
<1>2. LockInv /\ QueueInv /\ ReceivedInv /\ TargetInv
  BY TreeAssumption, ParameterAssumption
  DEF Init, LockInv, QueueInv, ReceivedInv, TargetInv, InQueue, None
<1> QED
  BY <1>1, <1>2 DEF IInv

LEMMA AcceptBlockHeaderIInv ==
  ASSUME IInv, NEW b \in NonGenesis, AcceptBlockHeader(b)
  PROVE  IInv'
<1>1. TypeOK'
  BY Zenon DEF TypeOK, RaiseValidity, NonGenesis, IInv, AcceptBlockHeader, AddToBlockIndex
<1>2. LockInv' /\ QueueInv' /\ ReceivedInv' /\ TargetInv'
  BY DEF LockInv, QueueInv, ReceivedInv, TargetInv, InQueue, IInv, AcceptBlockHeader
<1> QED
  BY <1>1, <1>2 DEF IInv

LEMMA IgnoreBlockIInv ==
  ASSUME IInv, NEW c \in Callers, NEW b \in NonGenesis, NEW fRequested \in BOOLEAN,
         IgnoreBlock(c, b, fRequested)
  PROVE  IInv'
<1>1. TypeOK'
  BY DEF TypeOK, RaiseValidity, NonGenesis, None, Labels, IInv, IgnoreBlock,
      AddToBlockIndex
<1>2. LockInv'
  <2>1. pc \in [Callers -> Labels] /\ csMain \in {NULL, c}
    BY DEF TypeOK, IInv, IgnoreBlock
  <2>2. \A d \in Callers : pc'[d] = IF d = c THEN "activate" ELSE pc[d]
    BY <2>1 DEF IgnoreBlock
  <2> QED
    BY <2>1, <2>2, OthersOutside DEF LockInv
<1>3. QueueInv' 
  BY DEF QueueInv, None, IgnoreBlock
<1>4. ReceivedInv'
  BY ParameterAssumption
  DEF QueueInv, ReceivedInv, TypeOK, None, InQueue, IInv, IgnoreBlock
<1>5. TargetInv'
  BY DEF TargetInv, IInv, IgnoreBlock
<1> QED
  BY <1>1, <1>2, <1>3, <1>4, <1>5 DEF IInv

LEMMA RejectBlockIInv ==
  ASSUME IInv, NEW c \in Callers, NEW b \in NonGenesis, NEW fRequested \in BOOLEAN,
         RejectBlock(c, b, fRequested)
  PROVE  IInv'
<1>1. TypeOK'
  BY Zenon DEF TypeOK, RaiseValidity, NonGenesis, IInv, RejectBlock, AddToBlockIndex
<1>2. LockInv' 
  BY DEF LockInv, IInv, RejectBlock
<1>3. QueueInv' 
  BY DEF QueueInv, IInv, RejectBlock
<1>4. ReceivedInv'
  BY DEF ReceivedInv, InQueue, IInv, RejectBlock
<1>5. TargetInv'
  BY DEF TargetInv, IInv, RejectBlock
<1> QED
  BY <1>1, <1>2, <1>3, <1>4, <1>5 DEF IInv

LEMMA ReceiveBlockIInv ==
  ASSUME IInv, NEW c \in Callers, NEW b \in NonGenesis, NEW fRequested \in BOOLEAN,
         ReceiveBlock(c, b, fRequested)
  PROVE  IInv'
<1>0. \A x \in Blocks : queue[x] = 0
  BY ParameterAssumption DEF QueueInv, TypeOK, IInv, ReceiveBlock
<1>1. TypeOK'
  <2>1. /\ haveData' \subseteq Blocks /\ haveUndo' \subseteq Blocks
        /\ nFile' \in [Blocks -> Files] /\ nLastBlockFile' \in Files
        /\ nHeightLast' \in [Files -> Nat] /\ fHavePruned' \in BOOLEAN
    <3>1. PICK f \in Files : /\ nFile' = [nFile EXCEPT ![b] = f] /\ nLastBlockFile' = f
                             /\ nHeightLast' = AddBlock(f, b)
      BY Zenon DEF ReceiveBlock
    <3>2. /\ nFile \in [Blocks -> Files] /\ nHeightLast \in [Files -> Nat] /\ b \in Blocks
          /\ haveData \subseteq Blocks /\ haveUndo \subseteq Blocks /\ fHavePruned \in BOOLEAN
      BY Zenon DEF IInv, TypeOK, NonGenesis
    <3>3. haveData' = haveData \cup {b} /\ UNCHANGED <<haveUndo, fHavePruned>>
      BY Zenon DEF ReceiveBlock
    <3>4. nHeight[b] \in Nat
      BY <3>2, TreeAssumption
    <3> QED
      BY ONLY <3>1, <3>2, <3>3, <3>4 DEF AddBlock
  <2>2. /\ mapBlockIndex' \subseteq Blocks /\ hasTx' \subseteq Blocks /\ linked' \subseteq Blocks
        /\ validity' \in [Blocks -> {0, 2, 3, 5}] /\ queue' \in [Blocks -> Nat]
        /\ mapBlocksUnlinked' \in [Blocks -> Nat]
    BY SMT, SMTT(30) DEF TypeOK, RaiseValidity, NonGenesis, None, IInv, ReceiveBlock
  <2>3. csMain' \in Callers /\ pc' \in [Callers -> Labels]
        /\ pblock' \in [Callers -> Blocks \cup {NULL}]
    BY DEF TypeOK, NonGenesis, Labels, IInv, ReceiveBlock
  <2> QED
    BY Zenon, <2>1, <2>2, <2>3 DEF TypeOK, IInv, ReceiveBlock
<1>2. LockInv'
  <2>1. pc \in [Callers -> Labels] /\ csMain \in {NULL, c} /\ csMain' = c
    BY DEF TypeOK, IInv, ReceiveBlock
  <2>2. \A d \in Callers : pc'[d] = IF d = c THEN "link" ELSE pc[d]
    BY <2>1 DEF ReceiveBlock
  <2> QED
    BY Zenon, <2>1, <2>2, OthersOutside DEF LockInv
<1>3. QueueInv'
  BY DEF QueueInv, TypeOK, None, NonGenesis, IInv, ReceiveBlock
<1>4. ReceivedInv'
  <2>0. /\ linked' = linked \ {b} /\ hasTx' = hasTx \cup {b}
        /\ queue' = IF Prev[b] \in linked THEN [None EXCEPT ![b] = 1] ELSE None
        /\ mapBlocksUnlinked' =
             IF Prev[b] \notin linked /\ IsValid(Prev[b], VALID_TREE)
             THEN [mapBlocksUnlinked EXCEPT ![b] = @ + 1] ELSE mapBlocksUnlinked
    BY Zenon DEF ReceiveBlock
  <2>1. Prev[b] \in Blocks /\ Prev[b] # b /\ b # Genesis /\ b \in Blocks
    BY TreeAssumption DEF NonGenesis
  <2>2. \A x \in Blocks : (queue[x])' > 0 <=> x = b /\ Prev[b] \in linked
    BY SMT, SMTT(30), <2>0, <2>1 DEF None
  <2>3. \A x \in linked \ {Genesis} : Prev[x] \in linked
    BY <1>0, LinkedClosed
  <2>4. \A x \in linked' \ {Genesis} : Prev[x] \in linked' \/ (queue[Prev[x]])' > 0
    BY <2>0, <2>1, <2>2, <2>3, TreeAssumption DEF IInv, TypeOK, NonGenesis
  <2>5. \A x \in Blocks : (mapBlocksUnlinked[x])' > 0 => x = b \/ mapBlocksUnlinked[x] > 0
    BY Zenon, <2>0 DEF IInv, TypeOK
  <2> QED
    BY <2>0, <2>1, <2>2, <2>4, <2>5 DEF ReceivedInv, InQueue, IInv
<1>5. TargetInv'
  BY DEF TargetInv, IInv, ReceiveBlock
<1> QED
  BY <1>1, <1>2, <1>3, <1>4, <1>5 DEF IInv

LEMMA LinkBlockIInv ==
  ASSUME IInv, NEW c \in Callers, NEW b \in NonGenesis, LinkBlock(c, b)
  PROVE  IInv'
<1>0. b \in Blocks /\ b # Genesis
  BY DEF NonGenesis
<1>1. TypeOK'
  BY <1>0 DEF TypeOK, PopAndPush, EraseChildren, IInv, LinkBlock
<1>2. LockInv'
  BY Zenon DEF LockInv, IInv, LinkBlock
<1>3. QueueInv'
  BY Zenon DEF QueueInv, PopAndPush, Children, NonGenesis, IInv, LinkBlock
<1>4. ReceivedInv'
  <2>1. \A x \in Blocks : (queue[x])' > 0 =>
          queue[x] > 0 \/ (x \in Children(b) /\ mapBlocksUnlinked[x] > 0)
    BY DEF PopAndPush, TypeOK, IInv, LinkBlock
  <2>2. \A x \in Blocks \ {b} : queue[x] > 0 => (queue[x])' > 0
    BY DEF PopAndPush, TypeOK, IInv, LinkBlock
  <2>3. \A x \in Blocks : (mapBlocksUnlinked[x])' > 0 => mapBlocksUnlinked[x] > 0
    BY DEF EraseChildren, LinkBlock
  <2>4. \A x \in Blocks : (queue[x])' > 0 => x \in hasTx /\ Prev[x] \in linked'
    BY <2>1 DEF ReceivedInv, InQueue, Children, IInv, LinkBlock
  <2>5. \A x \in linked' \ {Genesis} : Prev[x] \in linked' \/ (queue[Prev[x]])' > 0
    BY ZenonT(30), <2>2, TreeAssumption
    DEF ReceivedInv, InQueue, TypeOK, NonGenesis, IInv, LinkBlock
  <2> QED
    BY Zenon, <1>0, <2>3, <2>4, <2>5 DEF ReceivedInv, InQueue, IInv, LinkBlock
<1>5. TargetInv'
  <2> DEFINE T == linked \cup {x \in Blocks : queue[x] > 0}
  <2>1. T \in SUBSET Blocks /\ T \subseteq hasTx /\ b \in T
    BY <1>0 DEF TypeOK, ReceivedInv, InQueue, IInv, LinkBlock
  <2>2. \A x \in T \ {Genesis} : Prev[x] \in T
    BY ZenonT(30), SMTT(30), TreeAssumption DEF ReceivedInv, InQueue, TypeOK, NonGenesis, IInv
  <2>3. ChainOf[b] \subseteq T
    <3> HIDE DEF T
    <3> QED
      BY <2>1, <2>2, ChainClosed
  <2>4. ChainOf[b] \subseteq hasTx
    BY <2>1, <2>3
  <2> QED
    BY Zenon, <2>4 DEF TargetInv, IInv, LinkBlock
<1> QED
  BY <1>1, <1>2, <1>3, <1>4, <1>5 DEF IInv

LEMMA FinishAcceptIInv ==
  ASSUME IInv, NEW c \in Callers, FinishAccept(c)
  PROVE  IInv'
<1>0. PICK P : PruneFiles(P, haveUndo)
  BY DEF FinishAccept
<1>1. TypeOK'
  <2>1. /\ haveData' \subseteq Blocks /\ haveUndo' \subseteq Blocks
        /\ nFile' \in [Blocks -> Files] /\ nLastBlockFile' \in Files
        /\ nHeightLast' \in [Files -> Nat] /\ fHavePruned' \in BOOLEAN
        /\ mapBlocksUnlinked' \in [Blocks -> Nat]
    BY Zenon, <1>0, PruneTypes DEF IInv, TypeOK
  <2> QED
    BY <2>1 DEF TypeOK, Labels, IInv, FinishAccept
<1>2. LockInv'
  BY DEF LockInv, TypeOK, IInv, FinishAccept
<1>3. QueueInv'
  BY DEF QueueInv, None, FinishAccept
<1>4. ReceivedInv'
  BY SMT, SMTT(30) DEF ReceivedInv, InQueue, IInv, FinishAccept, PruneFiles, UnlinkedAfterPrune
<1>5. TargetInv'
  BY DEF TargetInv, IInv, FinishAccept
<1> QED
  BY <1>1, <1>2, <1>3, <1>4, <1>5 DEF IInv

-----------------------------------------------------------------------------
(* Activating the best chain *)

\* The effect that every step of ActivateBestChain short of a successful
\* ConnectTip has on the state: thread c goes on at label l with target m, no
\* block is received or linked, candidates are only dropped, and the tip stays
\* on a chain of received blocks.
ActivationEffect(c, l, m) ==
  /\ csMain' \in {NULL, c}
  /\ l \in {"find", "step"} => csMain' = c
  /\ pc' = [pc EXCEPT ![c] = l]
  /\ queue' \in {queue, None}
  /\ pindexOldTip' \in Blocks \cup {NULL} /\ pindexInvalid' \in Blocks \cup {NULL}
  /\ pindexMostWork' = [pindexMostWork EXCEPT ![c] = m]
  /\ m \in Blocks => ChainOf[m] \subseteq hasTx
  /\ l = "step" => m \in Blocks /\ tip' # m
  /\ pblock' \in {pblock, [pblock EXCEPT ![c] = NULL]}
  /\ aborted' \in BOOLEAN
  /\ UNCHANGED <<mapBlockIndex, validity, hasTx, linked, nSequenceId, nBlockSequenceId, files>>
  /\ failedValid' \subseteq Blocks /\ failedChild' \subseteq Blocks
  /\ setBlockIndexCandidates' \subseteq setBlockIndexCandidates
  /\ mapBlocksUnlinked' \in [Blocks -> Nat]
  /\ \A x \in Blocks : (mapBlocksUnlinked[x])' > 0 => x \in hasTx /\ x # Genesis
  /\ tip' \in Blocks /\ ChainOf[tip'] \subseteq hasTx

LEMMA ActivationIInv ==
  ASSUME IInv, NEW c \in Callers, csMain \in {NULL, c}, pc[c] # "link",
         NEW l \in {"idle", "activate", "find", "step"}, NEW m \in Blocks \cup {NULL},
         ActivationEffect(c, l, m)
  PROVE  IInv'
<1>1. /\ \A d \in Callers : d # c => pc[d] \notin {"link", "find", "step", "invalidate"}
      /\ pc \in [Callers -> Labels] /\ pc' = [pc EXCEPT ![c] = l]
      /\ pindexMostWork \in [Callers -> Blocks \cup {NULL}]
      /\ pindexMostWork' = [pindexMostWork EXCEPT ![c] = m]
      /\ queue \in [Blocks -> Nat] /\ queue' \in {queue, None}
  BY Zenon, OthersOutside DEF ActivationEffect, IInv, TypeOK
<1>2. \A x \in Blocks : queue[x] = 0 /\ queue'[x] = 0
  <2>1. \A x \in Blocks : ~(queue[x] > 0)
    BY Zenon, ParameterAssumption DEF IInv, QueueInv
  <2> QED
    BY ONLY <1>1, <2>1 DEF None
<1>3. TypeOK'
  <2>1. pc' \in [Callers -> Labels]
    BY ONLY <1>1 DEF Labels
  <2>2. pindexMostWork' \in [Callers -> Blocks \cup {NULL}]
    BY ONLY <1>1
  <2>3. pblock' \in [Callers -> Blocks \cup {NULL}]
    <3>1. /\ pblock' \in {pblock, [pblock EXCEPT ![c] = NULL]}
          /\ pblock \in [Callers -> Blocks \cup {NULL}]
      BY Zenon DEF ActivationEffect, IInv, TypeOK
    <3> QED
      BY ONLY <3>1
  <2>4. queue' \in [Blocks -> Nat]
    BY ONLY <1>1 DEF None
  <2>5. csMain' \in Callers \cup {NULL} /\ setBlockIndexCandidates' \subseteq Blocks
    BY Zenon DEF ActivationEffect, IInv, TypeOK
  <2> QED
    BY ZenonT(30), <2>1, <2>2, <2>3, <2>4, <2>5 DEF ActivationEffect, IInv, TypeOK
<1>4. LockInv'
  <2>1. /\ \A d \in Callers : d # c => pc'[d] \notin {"link", "find", "step", "invalidate"}
        /\ pc'[c] = l /\ pindexMostWork'[c] = m
    BY ONLY <1>1
  <2> QED
    BY Zenon, <2>1 DEF LockInv, ActivationEffect
<1>5. QueueInv'
  BY ONLY <1>2 DEF QueueInv
<1>6. ReceivedInv'
  <2>1. \A x \in linked \ {Genesis} : Prev[x] \in linked
    BY Zenon, <1>2, LinkedClosed
  <2>2. \A x \in Blocks : ~(InQueue(x))'
    BY ONLY <1>2 DEF InQueue
  <2> QED
    BY Zenon, <2>1, <2>2 DEF ReceivedInv, ActivationEffect, IInv
<1>7. TargetInv'
  <2>1. \A d \in Callers : pindexMostWork'[d] \in Blocks =>
           ChainOf[pindexMostWork'[d]] \subseteq hasTx
    <3>1. pindexMostWork'[c] = m /\ \A d \in Callers \ {c} : pindexMostWork'[d] = pindexMostWork[d]
      BY ONLY <1>1
    <3> QED
      BY Zenon, <3>1 DEF ActivationEffect, IInv, TargetInv
  <2> QED
    BY Zenon, <2>1 DEF ActivationEffect, IInv, TargetInv
<1> QED
  BY Zenon, <1>3, <1>4, <1>5, <1>6, <1>7 DEF IInv

\* What the steps leave alone keeps its type and what is known of it.
LEMMA ActivationKept ==
  ASSUME IInv
  PROVE  /\ failedValid \subseteq Blocks /\ failedChild \subseteq Blocks
         /\ mapBlocksUnlinked \in [Blocks -> Nat]
         /\ \A x \in Blocks : mapBlocksUnlinked[x] > 0 => x \in hasTx /\ x # Genesis
         /\ tip \in Blocks /\ ChainOf[tip] \subseteq hasTx /\ aborted \in BOOLEAN
         /\ pindexOldTip \in Blocks \cup {NULL} /\ pindexInvalid \in Blocks \cup {NULL}
         /\ \A c \in Callers : /\ pindexMostWork[c] \in Blocks \cup {NULL}
                               /\ pindexMostWork[c] \in Blocks =>
                                    ChainOf[pindexMostWork[c]] \subseteq hasTx
         /\ \A c \in Callers : /\ pc = [pc EXCEPT ![c] = pc[c]]
                               /\ pindexMostWork = [pindexMostWork EXCEPT ![c] = pindexMostWork[c]]
<1>1. /\ pc \in [Callers -> Labels]
      /\ pindexMostWork \in [Callers -> Blocks \cup {NULL}]
  BY Zenon DEF IInv, TypeOK
<1>2. \A c \in Callers : /\ pc = [pc EXCEPT ![c] = pc[c]]
                         /\ pindexMostWork = [pindexMostWork EXCEPT ![c] = pindexMostWork[c]]
                         /\ pindexMostWork[c] \in Blocks \cup {NULL}
  BY ONLY <1>1
<1> QED
  BY Zenon, <1>2 DEF IInv, TypeOK, ReceivedInv, TargetInv

LEMMA BeginStepIInv ==
  ASSUME IInv, NEW c \in Callers, BeginStep(c)
  PROVE  IInv'
<1>0. csMain \in {NULL, c} /\ pc[c] # "link" /\ pindexMostWork[c] \in Blocks \cup {NULL}
  BY Zenon, ActivationKept DEF BeginStep
<1>m. PICK m \in Blocks \cup {NULL} : m = pindexMostWork[c]
  BY Zenon, <1>0
<1>1. \/ ActivationEffect(c, "find", m)
      \/ ActivationEffect(c, "step", m)
      \/ ActivationEffect(c, "idle", NULL)
  BY ZenonT(30), <1>m, ActivationKept, ParameterAssumption DEF BeginStep, Return, ActivationEffect
<1> QED
  BY Zenon, <1>0, <1>1, ActivationIInv

LEMMA FindMostWorkChainIInv ==
  ASSUME IInv, NEW c \in Callers, FindMostWorkChain(c)
  PROVE  IInv'
<1>0. csMain \in {NULL, c} /\ pc[c] = "find" /\ pindexMostWork[c] \in Blocks \cup {NULL}
  BY Zenon, ActivationKept DEF FindMostWorkChain
<1>m. PICK m \in Blocks \cup {NULL} : m = pindexMostWork[c]
  BY Zenon, <1>0
<1>1. UNCHANGED <<mapBlockIndex, validity, failedValid, hasTx, linked,
                  nSequenceId, nBlockSequenceId, files, aborted>>
  BY Zenon DEF FindMostWorkChain
<1>2. ASSUME Return(c), UNCHANGED <<failedChild, chain>>
      PROVE  IInv'
  <2>1. ActivationEffect(c, "idle", NULL)
    BY ZenonT(30), <1>1, <1>2, ActivationKept, ParameterAssumption DEF Return, ActivationEffect
  <2> QED
    BY Zenon, <2>1, <1>0, ActivationIInv
<1>3. ASSUME NEW b \in setBlockIndexCandidates, b # tip, Hold(c, "step"),
             pindexMostWork' = [pindexMostWork EXCEPT ![c] = b], pindexOldTip' = tip,
             UNCHANGED <<pblock, queue, pindexInvalid>>, UNCHANGED <<failedChild, chain>>
      PROVE  IInv'
  <2>1. b \in Blocks /\ ChainOf[b] \subseteq hasTx
    BY Zenon DEF IInv, TypeOK, TargetInv
  <2>2. ActivationEffect(c, "step", b)
    BY ZenonT(30), <2>1, <1>1, <1>3, ActivationKept DEF ActivationEffect
  <2> QED
    BY Zenon, <2>1, <2>2, <1>0, ActivationIInv
<1>4. ASSUME NEW b \in setBlockIndexCandidates, NEW x \in ChainOf[b], GiveUp(b, x),
             UNCHANGED <<tip, csMain, pc, pblock, pindexMostWork, scope>>
      PROVE  IInv'
  <2>1. b \in Blocks /\ x \in Blocks /\ ChainOf[b] \subseteq Blocks /\ ChainOf[b] \subseteq hasTx
    BY Zenon, ChainBasics DEF IInv, TypeOK, TargetInv
  <2>2. PathSet(b, x) \subseteq Blocks /\ \A y \in PathSet(b, x) : y \in hasTx /\ y # Genesis
    BY ONLY <2>1, TreeAssumption DEF PathSet
  <2>3. failedChild' \subseteq Blocks /\ setBlockIndexCandidates' \subseteq setBlockIndexCandidates
    BY Zenon, <1>4, <2>2, ActivationKept DEF GiveUp
  <2>4. /\ mapBlocksUnlinked' \in [Blocks -> Nat]
        /\ \A y \in Blocks : (mapBlocksUnlinked[y])' > 0 => y \in hasTx /\ y # Genesis
    <3>1. /\ mapBlocksUnlinked \in [Blocks -> Nat]
          /\ \A y \in Blocks : mapBlocksUnlinked[y] > 0 => y \in hasTx /\ y # Genesis
      BY Zenon, ActivationKept
    <3>2. \/ mapBlocksUnlinked' = mapBlocksUnlinked
          \/ mapBlocksUnlinked' = [y \in Blocks |-> IF y \in PathSet(b, x) THEN mapBlocksUnlinked[y] + 1
                                                    ELSE mapBlocksUnlinked[y]]
      BY Zenon, <1>4 DEF GiveUp
    <3> QED
      BY ONLY <2>2, <3>1, <3>2
  <2>5. ActivationEffect(c, "find", m)
    BY ZenonT(30), <1>m, <1>0, <1>1, <1>4, <2>3, <2>4, ActivationKept DEF ActivationEffect, FindMostWorkChain
  <2> QED
    BY Zenon, <2>5, <1>0, ActivationIInv
<1> QED
  BY Zenon, <1>2, <1>3, <1>4 DEF FindMostWorkChain

LEMMA DisconnectTipIInv ==
  ASSUME IInv, NEW c \in Callers, DisconnectTip(c)
  PROVE  IInv'
<1>0. /\ csMain \in {NULL, c} /\ csMain = c /\ pc[c] = "step"
      /\ pindexMostWork[c] \in Blocks /\ NULL \notin Blocks
  BY Zenon, ParameterAssumption DEF DisconnectTip, IInv, LockInv
<1>m. PICK m \in Blocks \cup {NULL} : m = pindexMostWork[c]
  BY Zenon, <1>0
<1>1. Prev[tip] \in Blocks /\ ChainOf[Prev[tip]] \subseteq hasTx
  <2>1. tip \notin ChainOf[pindexMostWork[c]] /\ tip \in Blocks /\ ChainOf[tip] \subseteq hasTx
    BY Zenon, ActivationKept DEF DisconnectTip
  <2> QED
    BY ONLY <1>0, <2>1, ChainBasics, TreeAssumption DEF NonGenesis
<1>2. CASE AbortNode(c)
  <2>1. ActivationEffect(c, "idle", m)
    BY ZenonT(30), <1>m, <1>0, <1>2, ActivationKept DEF AbortNode, ActivationEffect
  <2> QED
    BY Zenon, <2>1, <1>0, ActivationIInv
<1>3. CASE Return(c) /\ UNCHANGED <<index, files, chain, aborted>>
  <2>1. ActivationEffect(c, "idle", NULL)
    BY ZenonT(30), <1>0, <1>3, ActivationKept DEF Return, ActivationEffect
  <2> QED
    BY Zenon, <2>1, <1>0, ActivationIInv
<1>4. ASSUME tip' = Prev[tip],
             IF tip' = pindexMostWork[c] THEN EndStep(c, tip')
             ELSE UNCHANGED <<csMain, pc, pblock, pindexMostWork, scope>>,
             UNCHANGED <<index, files, setBlockIndexCandidates, mapBlocksUnlinked, aborted>>
      PROVE  IInv'
  <2>1. CASE tip' = pindexMostWork[c]
    <3>1. Return(c)
      BY Zenon, <1>4, <2>1 DEF EndStep
    <3>2. ActivationEffect(c, "idle", NULL)
      BY ZenonT(30), <1>0, <1>1, <1>4, <3>1, ActivationKept DEF Return, ActivationEffect
    <3> QED
      BY Zenon, <3>2, <1>0, ActivationIInv
  <2>2. CASE tip' # pindexMostWork[c]
    <3>1. ActivationEffect(c, "step", m)
      BY ZenonT(30), <1>m, <1>0, <1>1, <1>4, <2>2, ActivationKept DEF ActivationEffect
    <3> QED
      BY Zenon, <3>1, <1>0, ActivationIInv
  <2> QED
    BY Zenon, <2>1, <2>2
<1> QED
  BY Zenon, <1>2, <1>3, <1>4 DEF DisconnectTip

LEMMA ConnectTipFailsIInv ==
  ASSUME IInv, NEW c \in Callers, ConnectTipFails(c)
  PROVE  IInv'
<1>0. /\ csMain \in {NULL, c} /\ pc[c] = "step" /\ pindexMostWork[c] \in Blocks
      /\ tip # pindexMostWork[c] /\ tip \in ChainOf[pindexMostWork[c]]
  BY Zenon DEF ConnectTipFails, IInv, LockInv
<1>m. PICK m \in Blocks \cup {NULL} : m = pindexMostWork[c]
  BY Zenon, <1>0
<1>1. NextToConnect(c) \in Blocks
  BY SMT, ZenonT(30), <1>0, NextOnChain DEF NextToConnect, NonGenesis
<1>2. CASE AbortNode(c)
  <2>1. ActivationEffect(c, "idle", m)
    BY ZenonT(30), <1>m, <1>0, <1>2, ActivationKept DEF AbortNode, ActivationEffect
  <2> QED
    BY Zenon, <2>1, <1>0, ActivationIInv
<1>3. CASE ~AbortNode(c)
  <2>1. /\ failedValid' \subseteq Blocks /\ setBlockIndexCandidates' \subseteq setBlockIndexCandidates
        /\ Release(c, "activate") /\ pindexMostWork' = [pindexMostWork EXCEPT ![c] = NULL]
        /\ UNCHANGED pblock
        /\ UNCHANGED <<mapBlockIndex, validity, failedChild, hasTx, linked,
                       nSequenceId, nBlockSequenceId, files, mapBlocksUnlinked, tip, aborted>>
    BY ZenonT(30), <1>1, <1>3, ActivationKept DEF ConnectTipFails
  <2>2. ActivationEffect(c, "activate", NULL)
    BY ZenonT(30), <1>0, <2>1, ActivationKept, ParameterAssumption DEF ActivationEffect
  <2> QED
    BY Zenon, <2>2, <1>0, ActivationIInv
<1> QED
  BY Zenon, <1>2, <1>3

\* The block that ConnectTip connects is the child of the tip on the way to
\* the target.
LEMMA NextToConnectFacts ==
  ASSUME IInv, NEW c \in Callers, Holds(c, "step"), tip \in ChainOf[pindexMostWork[c]]
  PROVE  /\ NextToConnect(c) \in NonGenesis
         /\ Prev[NextToConnect(c)] = tip
         /\ ChainOf[NextToConnect(c)] = {NextToConnect(c)} \cup ChainOf[tip]
         /\ NextToConnect(c) \in ChainOf[pindexMostWork[c]]
         /\ ChainOf[NextToConnect(c)] \subseteq hasTx
<1>1. /\ pindexMostWork[c] \in Blocks /\ tip # pindexMostWork[c]
      /\ ChainOf[pindexMostWork[c]] \subseteq hasTx
  BY DEF IInv, LockInv, TargetInv
<1>2. /\ NextToConnect(c) \in ChainOf[pindexMostWork[c]]
      /\ NextToConnect(c) \in NonGenesis /\ Prev[NextToConnect(c)] = tip
  BY <1>1, NextOnChain DEF NextToConnect
<1>3. ChainOf[NextToConnect(c)] \subseteq ChainOf[pindexMostWork[c]]
  BY Zenon, <1>1, <1>2, ChainTransitive
<1> QED
  BY <1>1, <1>2, <1>3, TreeAssumption

LEMMA ConnectTipIInv ==
  ASSUME IInv, NEW c \in Callers, ConnectTip(c)
  PROVE  IInv'
<1> DEFINE b == NextToConnect(c)
<1>0. /\ b \in Blocks /\ b # tip /\ ChainOf[b] \subseteq hasTx
  <2>1. b \in NonGenesis /\ Prev[b] = tip /\ ChainOf[b] \subseteq hasTx
    BY Zenon, NextToConnectFacts DEF ConnectTip
  <2> QED
    BY ONLY <2>1, TreeAssumption DEF NonGenesis
<1>01. PICK P : PruneFiles(P, haveUndo \cup {b})
  BY Zenon DEF ConnectTip
<1>02. setBlockIndexCandidates' \subseteq setBlockIndexCandidates
  BY Zenon DEF PruneBlockIndexCandidates, ConnectTip
<1>03. pindexMostWork[c] \in Blocks
  BY Zenon DEF LockInv, IInv, ConnectTip
<1> HIDE DEF b
<1>1. TypeOK'
  <2>1. /\ csMain' \in Callers \cup {NULL} /\ pc' \in [Callers -> Labels]
        /\ pblock' \in [Callers -> Blocks \cup {NULL}]
        /\ pindexMostWork' \in [Callers -> Blocks \cup {NULL}]
    <3>1. \/ UNCHANGED <<csMain, pc, pblock, pindexMostWork>>
          \/ /\ csMain' \in {c, NULL} /\ pc' = [pc EXCEPT ![c] = "activate"]
             /\ UNCHANGED <<pblock, pindexMostWork>>
          \/ /\ csMain' \in {c, NULL} /\ pc' = [pc EXCEPT ![c] = "idle"]
             /\ pblock' = [pblock EXCEPT ![c] = NULL]
             /\ pindexMostWork' = [pindexMostWork EXCEPT ![c] = NULL]
      BY Zenon DEF ConnectTip, EndStep, Return
    <3>2. /\ csMain \in Callers \cup {NULL} /\ pc \in [Callers -> Labels]
          /\ pblock \in [Callers -> Blocks \cup {NULL}]
          /\ pindexMostWork \in [Callers -> Blocks \cup {NULL}]
      BY Zenon DEF IInv, TypeOK
    <3> QED
      BY ONLY <3>1, <3>2 DEF Labels
  <2>2. /\ pindexOldTip' \in Blocks \cup {NULL} /\ queue' \in [Blocks -> Nat]
        /\ pindexInvalid' \in Blocks \cup {NULL}
    <3>1. \/ UNCHANGED <<pindexOldTip, queue, pindexInvalid>>
          \/ pindexOldTip' = NULL /\ queue' = None /\ pindexInvalid' = NULL
      BY Zenon DEF ConnectTip, EndStep, Return
    <3>2. /\ pindexOldTip \in Blocks \cup {NULL} /\ queue \in [Blocks -> Nat]
          /\ pindexInvalid \in Blocks \cup {NULL}
      BY Zenon DEF IInv, TypeOK
    <3> QED
      BY ONLY <3>1, <3>2 DEF None
  <2>3. tip' \in Blocks /\ validity' \in [Blocks -> {0, 2, 3, 5}]
    BY Zenon, <1>0 DEF TypeOK, RaiseValidity, b, IInv, ConnectTip
  <2>4. UNCHANGED <<mapBlockIndex, failedValid, failedChild, hasTx, linked,
                    nSequenceId, nBlockSequenceId, aborted>>
    BY Zenon DEF ConnectTip
  <2>5. /\ haveData' \subseteq Blocks /\ haveUndo' \subseteq Blocks
        /\ nFile' \in [Blocks -> Files] /\ nLastBlockFile' \in Files
        /\ nHeightLast' \in [Files -> Nat] /\ fHavePruned' \in BOOLEAN
        /\ mapBlocksUnlinked' \in [Blocks -> Nat]
    <3>1. haveUndo \cup {b} \in SUBSET Blocks /\ TypeOK
      BY <1>0 DEF IInv, TypeOK
    <3> QED
      BY Zenon, <1>01, <3>1, PruneTypes
  <2> QED
    BY Zenon, <2>1, <2>2, <2>3, <2>5, <1>02 DEF TypeOK, IInv, ConnectTip
<1>2. LockInv'
  BY SMT, SMTT(30), <1>0, <1>03, TreeAssumption, ParameterAssumption
  DEF LockInv, TypeOK, b, IInv, ConnectTip, EndStep, Return
<1>3. QueueInv'
  BY DEF QueueInv, None, IInv, ConnectTip, EndStep, Return
<1>4. ReceivedInv'
  <2>1. \A x \in Blocks : (mapBlocksUnlinked[x])' > 0 => mapBlocksUnlinked[x] > 0
    BY ONLY SMT, SMTT(30), <1>01 DEF PruneFiles, UnlinkedAfterPrune
  <2>2. queue' = queue \/ queue' = None
    BY Zenon DEF ConnectTip, EndStep, Return
  <2>3. \A x \in Blocks : queue[x] = 0
    <3>1. csMain = c /\ pc[c] = "step" /\ QueueInv /\ queue \in [Blocks -> Nat]
      BY Zenon DEF ConnectTip, IInv, TypeOK
    <3> QED
      BY ONLY <3>1 DEF QueueInv
  <2>4. \A x \in Blocks : (queue[x])' = 0
    BY Zenon, <2>3 DEF None, ConnectTip, EndStep, Return
  <2> QED
    BY ZenonT(30), <2>1, <2>3, <2>4, LinkedClosed DEF ReceivedInv, InQueue, IInv, ConnectTip
<1>5. TargetInv'
  <2>1. /\ pindexMostWork' = pindexMostWork
           \/ pindexMostWork' = [pindexMostWork EXCEPT ![c] = NULL]
        /\ pindexMostWork \in [Callers -> Blocks \cup {NULL}]
        /\ tip' = b /\ hasTx' = hasTx /\ TargetInv
    BY Zenon DEF b, ConnectTip, EndStep, Return, IInv, TypeOK
  <2>2. \A d \in Callers : pindexMostWork'[d] \in {pindexMostWork[d], NULL}
    BY ONLY <2>1
  <2> QED
    BY ONLY <1>0, <1>02, <2>1, <2>2, ParameterAssumption DEF TargetInv
<1> QED
  BY Zenon, <1>1, <1>2, <1>3, <1>4, <1>5 DEF IInv

LEMMA InvalidateBlockIInv ==
  ASSUME IInv, NEW c \in Callers, NEW b \in Blocks, InvalidateBlock(c, b)
  PROVE  IInv'
<1>1. TypeOK'
  BY Zenon DEF TypeOK, Labels, IInv, InvalidateBlock
<1>2. LockInv'
  <2>1. pc \in [Callers -> Labels] /\ csMain \in {NULL, c} /\ csMain' = c
    BY DEF TypeOK, IInv, InvalidateBlock
  <2>2. /\ \A d \in Callers : pc'[d] = IF d = c THEN "invalidate" ELSE pc[d]
        /\ pindexInvalid' = b /\ b \in failedValid' \ {Genesis}
        /\ UNCHANGED <<pindexMostWork, tip>>
    BY <2>1 DEF InvalidateBlock
  <2> QED
    BY Zenon, <2>1, <2>2, OthersOutside DEF LockInv
<1>3. QueueInv'
  BY ParameterAssumption DEF QueueInv, IInv, InvalidateBlock
<1>4. ReceivedInv'
  BY DEF ReceivedInv, InQueue, IInv, InvalidateBlock
<1>5. TargetInv'
  BY Zenon DEF TargetInv, IInv, InvalidateBlock
<1> QED
  BY <1>1, <1>2, <1>3, <1>4, <1>5 DEF IInv

LEMMA InvalidateTipIInv ==
  ASSUME IInv, NEW c \in Callers, InvalidateTip(c)
  PROVE  IInv'
<1>0. /\ tip \in NonGenesis
      /\ Prev[tip] \in Blocks /\ ChainOf[Prev[tip]] \subseteq ChainOf[tip]
  BY TreeAssumption DEF LockInv, TypeOK, NonGenesis, IInv, InvalidateTip, chainActive
<1>1. TypeOK'
  <2>1. /\ csMain' \in Callers \cup {NULL} /\ pc' \in [Callers -> Labels]
    BY Zenon DEF TypeOK, Labels, IInv, InvalidateTip
  <2>2. /\ pindexOldTip' \in Blocks \cup {NULL} /\ queue' \in [Blocks -> Nat]
        /\ pindexInvalid' \in Blocks \cup {NULL}
    BY DEF TypeOK, None, IInv, InvalidateTip
  <2>3. aborted' \in BOOLEAN
    BY Zenon DEF TypeOK, IInv, InvalidateTip
  <2>4. /\ tip' \in Blocks /\ failedChild' \subseteq Blocks
        /\ setBlockIndexCandidates' \subseteq Blocks
    BY Zenon, <1>0 DEF TypeOK, IInv, InvalidateTip
  <2> QED
    BY Zenon, <2>1, <2>2, <2>4 DEF TypeOK, IInv, InvalidateTip
<1>2. LockInv'
  <2>1. /\ \/ UNCHANGED <<csMain, pc, pindexInvalid>>
           \/ pc' = [pc EXCEPT ![c] = "idle"] \/ pc' = [pc EXCEPT ![c] = "activate"]
        /\ pc[c] = "invalidate" /\ pc \in [Callers -> Labels] /\ failedValid' = failedValid
    BY Zenon DEF InvalidateTip, IInv, TypeOK
  <2>2. \A d \in Callers : d # c => pc[d] \notin {"link", "find", "step", "invalidate"}
    BY Zenon, OthersOutside DEF InvalidateTip
  <2>3. CASE UNCHANGED <<csMain, pc, pindexInvalid>>
    <3>1. \A d \in Callers : pc'[d] # "step"
      BY ONLY <2>1, <2>2, <2>3
    <3> QED
      BY Zenon, <2>1, <2>3, <3>1 DEF LockInv, IInv
  <2>4. CASE pc' = [pc EXCEPT ![c] = "idle"] \/ pc' = [pc EXCEPT ![c] = "activate"]
    <3>1. \A d \in Callers : pc'[d] \notin {"link", "find", "step", "invalidate"}
      BY ONLY <2>1, <2>2, <2>4
    <3> QED
      BY Zenon, <3>1 DEF LockInv
  <2> QED
    BY Zenon, <2>1, <2>3, <2>4
<1>3. QueueInv'
  BY DEF QueueInv, None, IInv, InvalidateTip
<1>4. ReceivedInv'
  <2>1. UNCHANGED <<linked, hasTx, mapBlocksUnlinked>>
    BY Zenon DEF InvalidateTip
  <2>2. \A x \in Blocks : (queue[x])' = 0 \/ (queue[x])' = queue[x]
    BY Zenon DEF InvalidateTip, None
  <2>3. \A x \in Blocks : queue[x] = 0
    BY DEF IInv, QueueInv, TypeOK, InvalidateTip
  <2>4. \A x \in linked \ {Genesis} : Prev[x] \in linked
    BY <2>3, LinkedClosed
  <2> QED
    BY <2>1, <2>2, <2>3, <2>4 DEF ReceivedInv, InQueue, IInv
<1>5. TargetInv'
  BY Zenon, <1>0 DEF TargetInv, IInv, InvalidateTip
<1> QED
  BY <1>1, <1>2, <1>3, <1>4, <1>5 DEF IInv

LEMMA FinishInvalidateIInv ==
  ASSUME IInv, NEW c \in Callers, FinishInvalidate(c)
  PROVE  IInv'
<1>0. \A b \in Refill : b \in Blocks /\ ChainOf[b] \subseteq hasTx
  <2>1. \A x \in Blocks : queue[x] = 0
    BY DEF QueueInv, TypeOK, IInv, FinishInvalidate
  <2> QED
    BY <2>1, LinkedClosed DEF Refill, TypeOK, IInv
<1>1. TypeOK'
  BY <1>0 DEF TypeOK, None, Labels, IInv, FinishInvalidate
<1>2. LockInv'
  BY DEF LockInv, TypeOK, IInv, FinishInvalidate
<1>3. QueueInv'
  BY SMT, SMTT(30) DEF QueueInv, None, FinishInvalidate
<1>4. ReceivedInv'
  BY SMT, SMTT(30) DEF ReceivedInv, QueueInv, TypeOK, None, InQueue, IInv, FinishInvalidate
<1>5. TargetInv'
  BY <1>0 DEF TargetInv, IInv, FinishInvalidate
<1> QED
  BY Zenon, <1>1, <1>2, <1>3, <1>4, <1>5 DEF IInv

LEMMA ReconsiderBlockIInv ==
  ASSUME IInv, NEW c \in Callers, NEW b \in Blocks, ReconsiderBlock(c, b)
  PROVE  IInv'
<1>0. \A x \in linked : ChainOf[x] \subseteq hasTx
  <2>1. \A x \in Blocks : queue[x] = 0
    BY SMT, SMTT(30), ParameterAssumption DEF QueueInv, TypeOK, IInv, ReconsiderBlock
  <2> QED
    BY Zenon, <2>1, LinkedClosed
<1>01. \A x \in setBlockIndexCandidates' : x \in setBlockIndexCandidates \/ x \in linked
  BY Zenon DEF ReconsiderBlock
<1>1. TypeOK'
  BY Zenon DEF TypeOK, None, Labels, IInv, ReconsiderBlock
<1>2. LockInv'
  BY SMT, SMTT(30), ParameterAssumption DEF LockInv, IInv, ReconsiderBlock
<1>3. QueueInv'
  <2>1. queue' = None
    BY Zenon DEF ReconsiderBlock
  <2> QED
    BY ONLY <2>1 DEF QueueInv, None
<1>4. ReceivedInv'
  BY SMT, SMTT(30), ParameterAssumption
  DEF ReceivedInv, QueueInv, TypeOK, None, InQueue, IInv, ReconsiderBlock
<1>5. TargetInv'
  BY <1>0 DEF TargetInv, IInv, ReconsiderBlock
<1> QED
  BY <1>1, <1>2, <1>3, <1>4, <1>5 DEF IInv

LEMMA NextIInv == IInv /\ [NextWithOperator]_vars => IInv'
<1> SUFFICES ASSUME IInv, [NextWithOperator]_vars PROVE IInv'
  BY Zenon
<1>1. CASE UNCHANGED vars
  BY Zenon, <1>1 DEF IInv, TypeOK, LockInv, QueueInv, ReceivedInv, TargetInv, InQueue
<1>2. ASSUME NEW c \in Callers, Arrival(c) PROVE IInv'
  BY <1>2, AcceptBlockHeaderIInv, IgnoreBlockIInv, RejectBlockIInv, ReceiveBlockIInv
  DEF Arrival
<1>3. ASSUME NEW c \in Callers, Continue(c) PROVE IInv'
  BY <1>3, LinkBlockIInv, FinishAcceptIInv, BeginStepIInv, FindMostWorkChainIInv,
      DisconnectTipIInv, ConnectTipFailsIInv, ConnectTipIInv, InvalidateTipIInv,
      FinishInvalidateIInv
  DEF Continue
<1> QED
  BY <1>1, <1>2, <1>3, InvalidateBlockIInv, ReconsiderBlockIInv, ParameterAssumption
  DEF NextWithOperator, NextWithInvalidate, Next

\* Whatever blocks arrive and whatever the operator does, the block index
\* stays well typed (src/main.cpp, src/chain.h).
THEOREM TypeCorrect == SpecWithOperator => []TypeOK
<1>1. IInv => TypeOK
  BY DEF IInv
<1> QED
  BY <1>1, InitIInv, NextIInv, PTL DEF SpecWithOperator

-----------------------------------------------------------------------------
(* The index entries, the stored blocks and the sequence ids *)

\* An entry has a parent with an entry, and the level of its validity tells
\* whether it was received.
IndexInv ==
  /\ Genesis \in mapBlockIndex
  /\ \A b \in mapBlockIndex \ {Genesis} : Prev[b] \in mapBlockIndex
  /\ failed \subseteq mapBlockIndex /\ hasTx \subseteq mapBlockIndex
  /\ \A b \in mapBlockIndex : validity[b] >= VALID_TREE
  /\ \A b \in Blocks : validity[b] >= VALID_TRANSACTIONS <=> b \in hasTx

\* Only pruning takes data away, and waiting blocks have theirs.
StoreInv ==
  /\ haveData \subseteq hasTx
  /\ ~fHavePruned => hasTx \subseteq haveData
  /\ \A b \in Blocks : Unlinked(b) => b \in haveData

LinkedSoon(b) == b \in linked \/ InQueue(b)

\* What has no link has no sequence id, and candidates, targets and the tip are
\* linked, or are being linked again.
LinkInv ==
  /\ \A b \in Blocks : ~LinkedSoon(b) => nSequenceId[b] = 0
  /\ \A b \in setBlockIndexCandidates : LinkedSoon(b)
  /\ \A c \in Callers : pindexMostWork[c] \in Blocks => LinkedSoon(pindexMostWork[c])
  /\ LinkedSoon(tip)

SInv == IInv /\ IndexInv /\ StoreInv /\ LinkInv

\* Nobody links blocks: the queue of ReceivedBlockTransactions is empty.
NoQueue == \A x \in Blocks : queue[x] = 0

LEMMA QueueEmpty ==
  ASSUME IInv, csMain = NULL \/ (csMain \in Callers /\ pc[csMain] # "link")
  PROVE  NoQueue
BY ParameterAssumption DEF IInv, QueueInv, TypeOK, NoQueue

LEMMA NothingQueued ==
  /\ NoQueue => \A b \in Blocks : ~InQueue(b)
  /\ NoQueue' => \A b \in Blocks : ~(InQueue(b))'
BY DEF NoQueue, InQueue

\* Steps that neither receive nor link a block.
LEMMA StatusKept ==
  ASSUME SInv, NoQueue, NoQueue', UNCHANGED <<mapBlockIndex, hasTx, linked, nSequenceId>>,
         \A x \in Blocks : /\ validity[x] >= VALID_TREE => validity'[x] >= VALID_TREE
                           /\ validity'[x] >= VALID_TRANSACTIONS <=> validity[x] >= VALID_TRANSACTIONS,
         failed' \subseteq mapBlockIndex,
         haveData' \subseteq haveData,
         ~fHavePruned' => ~fHavePruned /\ haveData' = haveData,
         \A x \in Blocks : (Unlinked(x))' => x \in haveData',
         setBlockIndexCandidates' \subseteq setBlockIndexCandidates \cup linked,
         \A d \in Callers : pindexMostWork'[d] \in Blocks =>
            pindexMostWork'[d] \in setBlockIndexCandidates \/ pindexMostWork'[d] = pindexMostWork[d],
         tip' \in linked
  PROVE  IndexInv' /\ StoreInv' /\ LinkInv'
<1>1. IndexInv'
  <2>1. mapBlockIndex \subseteq Blocks
    BY ZenonT(30) DEF SInv, IInv, TypeOK
  <2> QED
    BY Zenon, <2>1 DEF SInv, IndexInv
<1>2. StoreInv'
  BY DEF SInv, StoreInv
<1>3. \A b \in Blocks : ~InQueue(b) /\ ~(InQueue(b))'
  BY ZenonT(30), NothingQueued
<1>4. LinkInv'
  BY <1>3 DEF SInv, LinkInv, LinkedSoon, IInv, TypeOK
<1> QED
  BY Zenon, <1>1, <1>2, <1>4

LEMMA InitSInv == Init => SInv
<1> SUFFICES ASSUME Init PROVE SInv
  OBVIOUS
<1>1. IInv
  BY InitIInv
<1>2. IndexInv /\ StoreInv /\ LinkInv
  <2>1. /\ mapBlockIndex = {Genesis} /\ failed = {} /\ hasTx = {Genesis} /\ haveData = {Genesis}
        /\ linked = {Genesis} /\ setBlockIndexCandidates = {Genesis} /\ tip = Genesis
        /\ validity = [b \in Blocks |-> IF b = Genesis THEN VALID_TRANSACTIONS ELSE VALID_UNKNOWN]
        /\ nSequenceId = [b \in Blocks |-> IF b = Genesis THEN 1 ELSE 0]
        /\ mapBlocksUnlinked = None /\ pindexMostWork = [d \in Callers |-> NULL]
    BY Zenon DEF Init, failed
  <2>2. IndexInv
    BY ONLY <2>1, TreeAssumption DEF IndexInv
  <2>3. StoreInv
    BY ONLY <2>1 DEF StoreInv, Unlinked, None
  <2>4. LinkInv
    BY ONLY <2>1, ParameterAssumption DEF LinkInv, LinkedSoon
  <2> QED
    BY Zenon, <2>2, <2>3, <2>4
<1> QED
  BY <1>1, <1>2 DEF SInv

\* A header is entered below an entry, and raised to TREE.
LEMMA AddToBlockIndexInv ==
  ASSUME SInv, NEW b \in NonGenesis, HeaderAccepted(b), AddToBlockIndex(b),
         UNCHANGED <<hasTx, failedChild>>, failedValid' \subseteq failedValid \cup {b}
  PROVE  IndexInv'
<1>1. b \in Blocks /\ b # Genesis /\ b \notin failed
  BY Zenon DEF NonGenesis, HeaderAccepted, SInv, IndexInv
<1>2. Prev[b] \in mapBlockIndex
  BY <1>1 DEF HeaderAccepted, SInv, IndexInv
<1>3. /\ \A x \in Blocks \ {b} : validity'[x] = validity[x]
      /\ validity'[b] = IF validity[b] >= 2 THEN validity[b] ELSE 2
      /\ validity[b] \in {0, 2, 3, 5}
  BY <1>1 DEF AddToBlockIndex, RaiseValidity, SInv, IInv, TypeOK
<1>4. mapBlockIndex' = mapBlockIndex \cup {b} /\ mapBlockIndex \subseteq Blocks
  BY Zenon DEF AddToBlockIndex, SInv, IInv, TypeOK
<1>5. failed' \subseteq mapBlockIndex' /\ hasTx' \subseteq mapBlockIndex'
  BY Zenon, <1>4 DEF failed, SInv, IndexInv
<1>6. \A x \in mapBlockIndex' : validity'[x] >= VALID_TREE
  <2>1. \A x \in mapBlockIndex : validity[x] >= VALID_TREE
    BY ZenonT(30) DEF SInv, IndexInv
  <2> QED
    <3>1. \A x \in mapBlockIndex \ {b} : validity'[x] >= VALID_TREE
      BY Zenon, <1>3, <1>4, <2>1
    <3>2. validity'[b] >= VALID_TREE
      BY ONLY <1>3
    <3> QED
      BY Zenon, <1>4, <3>1, <3>2
<1>7. \A x \in Blocks : validity'[x] >= VALID_TRANSACTIONS <=> x \in hasTx'
  BY SMT, SMTT(30), <1>3 DEF SInv, IndexInv
<1> QED
  BY Zenon, <1>2, <1>4, <1>5, <1>6, <1>7 DEF SInv, IndexInv

\* The same for the steps that a header or an unwanted block takes.
LEMMA ArrivalSInv ==
  ASSUME SInv, NEW c \in Callers, NEW b \in NonGenesis, NEW fRequested \in BOOLEAN,
         AcceptBlockHeader(b) \/ IgnoreBlock(c, b, fRequested) \/ RejectBlock(c, b, fRequested)
  PROVE  SInv'
<1>1. IndexInv'
  BY Zenon, AddToBlockIndexInv DEF AcceptBlockHeader, IgnoreBlock, RejectBlock
<1>2. UNCHANGED <<hasTx, linked, nSequenceId, pindexMostWork, files, chain>>
  BY Zenon DEF AcceptBlockHeader, IgnoreBlock, RejectBlock
<1>3. StoreInv'
  BY Zenon, <1>2 DEF SInv, StoreInv, Unlinked
<1>4. queue' = queue \/ (queue' = None /\ csMain \in {NULL, c} /\ pc[c] = "idle")
  BY Zenon DEF AcceptBlockHeader, IgnoreBlock, RejectBlock
<1>5. \A x \in Blocks : LinkedSoon(x) => (LinkedSoon(x))'
  <2>1. CASE queue' = queue
    BY <1>2, <2>1 DEF LinkedSoon, InQueue
  <2>2. CASE csMain \in {NULL, c} /\ pc[c] = "idle"
    <3>1. NoQueue
      BY Zenon, <2>2, QueueEmpty DEF SInv
    <3> QED
      BY <1>2, <3>1 DEF LinkedSoon, InQueue, NoQueue
  <2> QED
    BY <1>4, <2>1, <2>2
<1>6. LinkInv'
  BY <1>2, <1>5 DEF SInv, LinkInv, IInv, TypeOK
<1>7. IInv'
  BY AcceptBlockHeaderIInv, IgnoreBlockIInv, RejectBlockIInv DEF SInv
<1> QED
  BY <1>1, <1>3, <1>6, <1>7 DEF SInv

LEMMA ReceiveBlockSInv ==
  ASSUME SInv, NEW c \in Callers, NEW b \in NonGenesis, NEW fRequested \in BOOLEAN,
         ReceiveBlock(c, b, fRequested)
  PROVE  SInv'
<1>1. /\ b \in Blocks /\ b # Genesis /\ Prev[b] \in Blocks /\ b \notin failed
      /\ Prev[b] \in mapBlockIndex
  BY Zenon, TreeAssumption DEF NonGenesis, ReceiveBlock, HeaderAccepted, SInv, IndexInv
<1>2. /\ mapBlockIndex' = mapBlockIndex \cup {b} /\ hasTx' = hasTx \cup {b}
      /\ linked' = linked \ {b} /\ haveData' = haveData \cup {b}
      /\ validity' = RaiseValidity(b, VALID_TRANSACTIONS)
      /\ queue' = (IF Prev[b] \in linked THEN [None EXCEPT ![b] = 1] ELSE None)
      /\ \A x \in Blocks \ {b} : mapBlocksUnlinked'[x] = mapBlocksUnlinked[x]
      /\ UNCHANGED <<failedValid, failedChild, nSequenceId, fHavePruned,
                     setBlockIndexCandidates, tip, pindexMostWork>>
  BY Zenon DEF ReceiveBlock, SInv, IInv, TypeOK
<1>3. NoQueue
  BY Zenon, QueueEmpty DEF ReceiveBlock, SInv
<1>4. IndexInv'
  <2>1. /\ \A x \in Blocks \ {b} : validity'[x] = validity[x]
        /\ validity'[b] >= VALID_TRANSACTIONS /\ validity'[b] >= VALID_TREE
    <3>1. validity \in [Blocks -> {0, 2, 3, 5}]
      BY Zenon DEF SInv, IInv, TypeOK
    <3> QED
      BY ONLY SMT, SMTT(30), <1>1, <1>2, <3>1 DEF RaiseValidity
  <2>2. mapBlockIndex \subseteq Blocks /\ failed' = failed
    BY Zenon, <1>2 DEF failed, SInv, IInv, TypeOK
  <2> QED
    BY ZenonT(30), <1>1, <1>2, <2>1, <2>2 DEF SInv, IndexInv
<1>5. StoreInv'
  BY ZenonT(30), <1>2 DEF SInv, StoreInv, Unlinked
<1>6. \A x \in Blocks : (InQueue(x))' <=> x = b /\ Prev[b] \in linked
  BY <1>1, <1>2 DEF InQueue, None
<1>7. b \in linked => Prev[b] \in linked
  BY Zenon, <1>1, <1>3, LinkedClosed DEF SInv, NoQueue
<1>8. \A x \in Blocks : LinkedSoon(x) => (LinkedSoon(x))'
  <2>1. \A x \in Blocks : ~InQueue(x)
    BY ONLY <1>3 DEF InQueue, NoQueue
  <2> QED
    BY Zenon, <1>2, <1>6, <1>7, <2>1 DEF LinkedSoon
<1>9. LinkInv'
  BY Zenon, <1>2, <1>8 DEF SInv, LinkInv, IInv, TypeOK
<1> QED
  BY Zenon, <1>4, <1>5, <1>9, ReceiveBlockIInv DEF SInv

LEMMA LinkBlockSInv ==
  ASSUME SInv, NEW c \in Callers, NEW b \in NonGenesis, LinkBlock(c, b)
  PROVE  SInv'
<1>1. /\ b \in Blocks /\ linked' = linked \cup {b} /\ queue' = PopAndPush(b)
      /\ \A x \in Blocks \ {b} : nSequenceId'[x] = nSequenceId[x]
      /\ setBlockIndexCandidates' \subseteq setBlockIndexCandidates \cup {b}
      /\ \A x \in Blocks : mapBlocksUnlinked'[x] > 0 => mapBlocksUnlinked[x] > 0
      /\ UNCHANGED <<mapBlockIndex, validity, failedValid, failedChild, hasTx, files, tip,
                     pindexMostWork>>
  <2>1. /\ nSequenceId \in [Blocks -> Nat] /\ mapBlocksUnlinked' = EraseChildren(b)
        /\ nSequenceId' = [nSequenceId EXCEPT ![b] = nBlockSequenceId]
    BY Zenon DEF LinkBlock, SInv, IInv, TypeOK
  <2>2. \A x \in Blocks \ {b} : nSequenceId'[x] = nSequenceId[x]
    BY ONLY <2>1
  <2>3. \A x \in Blocks : mapBlocksUnlinked'[x] > 0 => mapBlocksUnlinked[x] > 0
    BY ONLY <2>1 DEF EraseChildren
  <2> QED
    BY Zenon, <2>2, <2>3 DEF LinkBlock, NonGenesis
<1>2. IndexInv'
  BY Zenon, <1>1 DEF SInv, IndexInv, failed
<1>3. StoreInv'
  BY Zenon, <1>1 DEF SInv, StoreInv, Unlinked
<1>4. \A x \in Blocks \ {b} : queue[x] > 0 => queue'[x] > 0
  <2>1. queue \in [Blocks -> Nat] /\ mapBlocksUnlinked \in [Blocks -> Nat]
    BY Zenon DEF SInv, IInv, TypeOK
  <2> QED
    BY ONLY <1>1, <2>1 DEF PopAndPush
<1>5. \A x \in Blocks : (LinkedSoon(x) \/ x = b) => (LinkedSoon(x))'
  BY Zenon, <1>1, <1>4 DEF LinkedSoon, InQueue
<1>6. LinkInv'
  BY Zenon, <1>1, <1>5 DEF SInv, LinkInv, IInv, TypeOK
<1> QED
  BY Zenon, <1>2, <1>3, <1>6, LinkBlockIInv DEF SInv

\* While no block is being linked, candidates, targets and the tip are linked.
LEMMA AllLinked ==
  ASSUME SInv, NoQueue
  PROVE  /\ tip \in linked /\ setBlockIndexCandidates \subseteq linked
         /\ \A d \in Callers : pindexMostWork[d] \in Blocks => pindexMostWork[d] \in linked
         /\ \A x \in linked : ChainOf[x] \subseteq linked
         /\ \A x \in linked \ {Genesis} : Prev[x] \in linked
         /\ linked \subseteq hasTx /\ hasTx \subseteq mapBlockIndex
<1>1. \A x \in linked : ChainOf[x] \subseteq linked
  BY Zenon, LinkedClosed DEF SInv, NoQueue
<1>2. \A x \in linked \ {Genesis} : Prev[x] \in linked
  BY LinkedClosed DEF SInv, NoQueue
<1> QED
  <2>1. \A x \in Blocks : ~InQueue(x)
    BY ONLY NoQueue DEF InQueue, NoQueue
  <2> QED
    BY Zenon, <1>1, <1>2, <2>1
    DEF SInv, LinkInv, LinkedSoon, IInv, TypeOK, ReceivedInv, IndexInv

\* What PruneOneBlockFile keeps.
LEMMA PruneStore ==
  ASSUME SInv, NEW P, NEW undo, PruneFiles(P, undo)
  PROVE  /\ haveData' \subseteq haveData
         /\ ~fHavePruned' => ~fHavePruned /\ haveData' = haveData
         /\ \A x \in Blocks : (Unlinked(x))' => x \in haveData'
<1>1. haveData' = haveData \ P /\ fHavePruned' = (fHavePruned \/ P # {})
  BY DEF PruneFiles
<1>2. \A x \in Blocks : (Unlinked(x))' => x \in haveData'
  BY <1>1 DEF PruneFiles, UnlinkedAfterPrune, Unlinked, SInv, StoreInv
<1> QED
  BY Zenon, <1>1, <1>2

LEMMA FinishAcceptSInv ==
  ASSUME SInv, NEW c \in Callers, FinishAccept(c)
  PROVE  SInv'
<1>1. NoQueue /\ NoQueue'
  BY DEF FinishAccept, NoQueue, None
<1>2. /\ UNCHANGED <<index, setBlockIndexCandidates, tip, pindexMostWork>>
      /\ failed' = failed
  BY Zenon DEF FinishAccept, failed
<1>3. PICK P : PruneFiles(P, haveUndo)
  BY DEF FinishAccept
<1>4. IndexInv' /\ StoreInv' /\ LinkInv'
  <2>1. /\ haveData' \subseteq haveData
        /\ ~fHavePruned' => ~fHavePruned /\ haveData' = haveData
        /\ \A x \in Blocks : (Unlinked(x))' => x \in haveData'
    BY Zenon, <1>3, PruneStore
  <2>2. tip' \in linked /\ failed' \subseteq mapBlockIndex
    BY Zenon, <1>1, <1>2, AllLinked DEF SInv, IndexInv
  <2> QED
    BY <1>1, <1>2, <2>1, <2>2, StatusKept
<1> QED
  BY <1>4, FinishAcceptIInv DEF SInv

LEMMA BeginStepSInv ==
  ASSUME SInv, NEW c \in Callers, BeginStep(c)
  PROVE  SInv'
<1>1. NoQueue
  BY Zenon, QueueEmpty DEF BeginStep, SInv
<1>2. NoQueue'
  BY Zenon, <1>1 DEF BeginStep, Return, NoQueue, None
<1>3. /\ UNCHANGED <<index, files, chain>>
      /\ failed' = failed /\ \A x \in Blocks : (Unlinked(x))' = Unlinked(x)
  BY Zenon DEF BeginStep, failed, Unlinked
<1>4. \A d \in Callers : pindexMostWork'[d] \in Blocks => pindexMostWork'[d] = pindexMostWork[d]
  <2>1. /\ pindexMostWork \in [Callers -> Blocks \cup {NULL}]
        /\ \/ pindexMostWork' = pindexMostWork
           \/ pindexMostWork' = [pindexMostWork EXCEPT ![c] = NULL]
    BY Zenon DEF BeginStep, Return, SInv, IInv, TypeOK
  <2> QED
    BY ONLY <2>1, ParameterAssumption
<1>5. IndexInv' /\ StoreInv' /\ LinkInv'
  <2>1. tip' \in linked /\ failed' \subseteq mapBlockIndex
    BY <1>1, <1>3, AllLinked DEF SInv, IndexInv
  <2>2. \A x \in Blocks : (Unlinked(x))' => x \in haveData'
    BY Zenon, <1>3 DEF SInv, StoreInv
  <2> QED
    BY ZenonT(30), <1>1, <1>2, <1>3, <1>4, <2>1, <2>2, StatusKept
<1> QED
  BY <1>5, BeginStepIInv DEF SInv

LEMMA FindMostWorkChainSInv ==
  ASSUME SInv, NEW c \in Callers, FindMostWorkChain(c)
  PROVE  SInv'
<1>1. NoQueue
  BY Zenon, QueueEmpty DEF FindMostWorkChain, SInv
<1>2. NoQueue'
  BY Zenon, <1>1 DEF FindMostWorkChain, Return, NoQueue, None
<1>3. UNCHANGED <<mapBlockIndex, validity, failedValid, hasTx, linked, nSequenceId, files, tip>>
  BY Zenon DEF FindMostWorkChain
<1>4. \A d \in Callers : pindexMostWork'[d] \in Blocks =>
         pindexMostWork'[d] \in setBlockIndexCandidates \/ pindexMostWork'[d] = pindexMostWork[d]
  <2>1. /\ pindexMostWork \in [Callers -> Blocks \cup {NULL}]
        /\ \/ pindexMostWork' = pindexMostWork
           \/ \E b \in setBlockIndexCandidates \cup {NULL} :
                pindexMostWork' = [pindexMostWork EXCEPT ![c] = b]
    BY Zenon DEF FindMostWorkChain, Return, SInv, IInv, TypeOK
  <2> QED
    BY ONLY <2>1, ParameterAssumption
<1>5. /\ failed' \subseteq mapBlockIndex
      /\ setBlockIndexCandidates' \subseteq setBlockIndexCandidates
      /\ \A x \in Blocks : (Unlinked(x))' => x \in haveData'
  <2>1. CASE UNCHANGED <<failedChild, chain>>
    BY Zenon, <1>3, <2>1 DEF failed, SInv, IndexInv, StoreInv, Unlinked
  <2>2. ASSUME NEW b \in setBlockIndexCandidates, NEW x \in ChainOf[b], GiveUp(b, x),
               IsFirstUnusable(b, x)
        PROVE  <1>5
    <3>1. /\ b \in linked /\ ChainOf[b] \subseteq linked /\ linked \subseteq hasTx
          /\ hasTx \subseteq mapBlockIndex /\ PathSet(b, x) \subseteq ChainOf[b]
      BY Zenon, <1>1, AllLinked DEF PathSet
    <3>2. failed' \subseteq mapBlockIndex
      BY Zenon, <1>3, <2>2, <3>1 DEF failed, GiveUp, SInv, IndexInv
    <3>3. ASSUME NEW y \in PathSet(b, x) PROVE y \in haveData
      <4>1. y \in ChainOf[b] /\ y \in Blocks /\ b \in Blocks /\ x \in Blocks
            /\ nHeight[y] > nHeight[x]
        BY Zenon, <3>1, TreeAssumption DEF PathSet, SInv, IInv, TypeOK
      <4>2. y \notin Unusable(b)
        <5>1. nHeight[y] \in Nat /\ nHeight[x] \in Nat
          BY Zenon, <4>1, TreeAssumption
        <5> QED
          BY ONLY <2>2, <4>1, <5>1 DEF IsFirstUnusable
      <4>3. y \notin chainActive
        <5>1. x \in ChainOf[y]
          BY <4>1, ChainLinear, TreeAssumption
        <5>2. x \notin chainActive
          BY Zenon, <2>2 DEF IsFirstUnusable, Unusable
        <5> QED
          BY Zenon, <5>1, <5>2, ChainTransitive DEF chainActive, SInv, IInv, TypeOK
      <4> QED
        BY Zenon, <4>1, <4>2, <4>3 DEF Unusable
    <3>4. \A y \in Blocks : (Unlinked(y))' => y \in haveData'
      BY Zenon, <1>3, <2>2, <3>3 DEF GiveUp, Unlinked, SInv, StoreInv
    <3> QED
      BY Zenon, <2>2, <3>2, <3>4 DEF GiveUp
  <2> QED
    BY Zenon, <2>1, <2>2 DEF FindMostWorkChain
<1>6. tip' \in linked
  BY Zenon, <1>1, <1>3, AllLinked
<1>7. IndexInv' /\ StoreInv' /\ LinkInv'
  BY Zenon, <1>1, <1>2, <1>3, <1>4, <1>5, <1>6, StatusKept
<1> QED
  BY <1>7, FindMostWorkChainIInv DEF SInv

LEMMA DisconnectTipSInv ==
  ASSUME SInv, NEW c \in Callers, DisconnectTip(c)
  PROVE  SInv'
<1>1. NoQueue
  BY Zenon, QueueEmpty DEF DisconnectTip, SInv
<1>2. NoQueue'
  BY <1>1 DEF DisconnectTip, AbortNode, EndStep, Return, NoQueue, None
<1>3. /\ UNCHANGED <<index, files, setBlockIndexCandidates, mapBlocksUnlinked>>
      /\ tip' \in {tip, Prev[tip]}
  BY Zenon DEF DisconnectTip, AbortNode
<1>4. \A d \in Callers : pindexMostWork'[d] \in Blocks => pindexMostWork'[d] = pindexMostWork[d]
  BY ZenonT(30), ParameterAssumption DEF DisconnectTip, AbortNode, EndStep, Return, SInv, IInv, TypeOK
<1>5. tip # Genesis
  BY Zenon, ChainBasics DEF DisconnectTip, SInv, IInv, LockInv
<1>6. /\ tip' \in linked /\ failed' \subseteq mapBlockIndex
      /\ \A x \in Blocks : (Unlinked(x))' => x \in haveData'
  BY Zenon, <1>1, <1>3, <1>5, AllLinked DEF SInv, IndexInv, StoreInv, Unlinked, failed
<1>7. IndexInv' /\ StoreInv' /\ LinkInv'
  BY Zenon, <1>1, <1>2, <1>3, <1>4, <1>6, StatusKept
<1> QED
  BY <1>7, DisconnectTipIInv DEF SInv

LEMMA ConnectTipFailsSInv ==
  ASSUME SInv, NEW c \in Callers, ConnectTipFails(c)
  PROVE  SInv'
<1>1. NoQueue
  BY Zenon, QueueEmpty DEF ConnectTipFails, SInv
<1>2. NoQueue'
  BY Zenon DEF ConnectTipFails, AbortNode, NoQueue, None
<1>3. /\ UNCHANGED <<mapBlockIndex, validity, failedChild, hasTx, linked, nSequenceId, files,
                     mapBlocksUnlinked, tip>>
      /\ failedValid' \subseteq failedValid \cup {NextToConnect(c)}
      /\ setBlockIndexCandidates' \subseteq setBlockIndexCandidates
  BY Zenon DEF ConnectTipFails, AbortNode
<1>4. \A d \in Callers : pindexMostWork'[d] \in Blocks => pindexMostWork'[d] = pindexMostWork[d]
  BY ZenonT(30), SMTT(30), ParameterAssumption DEF ConnectTipFails, AbortNode, SInv, IInv, TypeOK
<1>5. NextToConnect(c) \in hasTx
  BY Zenon, NextToConnectFacts DEF ConnectTipFails, SInv, IInv, TargetInv, LockInv
<1>6. /\ tip' \in linked /\ failed' \subseteq mapBlockIndex
      /\ \A x \in Blocks : (Unlinked(x))' => x \in haveData'
  BY Zenon, <1>1, <1>3, <1>5, AllLinked DEF SInv, IndexInv, StoreInv, Unlinked, failed
<1>7. IndexInv' /\ StoreInv' /\ LinkInv'
  BY Zenon, <1>1, <1>2, <1>3, <1>4, <1>6, StatusKept
<1> QED
  BY <1>7, ConnectTipFailsIInv DEF SInv

LEMMA ConnectTipSInv ==
  ASSUME SInv, NEW c \in Callers, ConnectTip(c)
  PROVE  SInv'
<1> DEFINE b == NextToConnect(c)
<1>1. NoQueue
  BY Zenon, QueueEmpty DEF ConnectTip, SInv
<1>2. NoQueue'
  BY <1>1 DEF ConnectTip, EndStep, Return, NoQueue, None
<1>3. /\ UNCHANGED <<mapBlockIndex, failedValid, failedChild, hasTx, linked, nSequenceId>>
      /\ failed' = failed /\ tip' = b /\ validity' = RaiseValidity(b, VALID_SCRIPTS)
      /\ setBlockIndexCandidates' \subseteq setBlockIndexCandidates
  BY Zenon DEF ConnectTip, PruneBlockIndexCandidates, failed
<1>4. \A d \in Callers : pindexMostWork'[d] \in Blocks => pindexMostWork'[d] = pindexMostWork[d]
  BY ZenonT(30), SMTT(30), ParameterAssumption DEF ConnectTip, EndStep, Return, SInv, IInv, TypeOK
<1>5. PICK P : PruneFiles(P, haveUndo \cup {b})
  BY Zenon DEF ConnectTip
<1>6. /\ haveData' \subseteq haveData
      /\ ~fHavePruned' => ~fHavePruned /\ haveData' = haveData
      /\ \A x \in Blocks : (Unlinked(x))' => x \in haveData'
  BY Zenon, <1>5, PruneStore
<1>7. b \in ChainOf[pindexMostWork[c]] /\ pindexMostWork[c] \in Blocks
  BY Zenon, NextToConnectFacts DEF ConnectTip, SInv, IInv, LockInv
<1>8. b \in linked /\ b \in hasTx /\ failed' \subseteq mapBlockIndex
  BY Zenon, <1>1, <1>3, <1>7, AllLinked DEF SInv, IndexInv
<1> HIDE DEF b
<1>9. validity[b] >= VALID_TRANSACTIONS /\ b \in Blocks
  BY Zenon, <1>8 DEF SInv, IndexInv, IInv, TypeOK
<1>10. \A x \in Blocks : /\ validity[x] >= VALID_TREE => validity'[x] >= VALID_TREE
                         /\ validity'[x] >= VALID_TRANSACTIONS <=> validity[x] >= VALID_TRANSACTIONS
  <2>1. validity \in [Blocks -> {0, 2, 3, 5}]
    BY Zenon DEF SInv, IInv, TypeOK
  <2> QED
    BY ONLY <1>3, <1>9, <2>1 DEF RaiseValidity
<1>11. IndexInv' /\ StoreInv' /\ LinkInv'
  BY Zenon, <1>1, <1>2, <1>3, <1>4, <1>6, <1>8, <1>10, StatusKept
<1> QED
  BY <1>11, ConnectTipIInv DEF SInv

\* invalidateblock and reconsiderblock.
LEMMA OperatorSInv ==
  ASSUME SInv, NEW c \in Callers, NEW b \in Blocks,
         InvalidateBlock(c, b) \/ InvalidateTip(c) \/ FinishInvalidate(c) \/ ReconsiderBlock(c, b)
  PROVE  SInv'
<1>1. NoQueue
  BY Zenon, QueueEmpty DEF InvalidateBlock, InvalidateTip, FinishInvalidate, ReconsiderBlock, SInv
<1>2. NoQueue'
  BY Zenon, <1>1 DEF InvalidateBlock, InvalidateTip, FinishInvalidate, ReconsiderBlock, NoQueue, None
<1>3. /\ UNCHANGED <<mapBlockIndex, validity, hasTx, linked, nSequenceId, files,
                     mapBlocksUnlinked, pindexMostWork>>
      /\ setBlockIndexCandidates' \subseteq setBlockIndexCandidates \cup linked
  BY Zenon DEF InvalidateBlock, InvalidateTip, FinishInvalidate, ReconsiderBlock, Refill
<1>4. tip' = tip \/ (tip' = Prev[tip] /\ tip # Genesis)
  <2>1. InvalidateTip(c) => tip # Genesis
    BY Zenon, TreeAssumption DEF InvalidateTip, SInv, IInv, LockInv, chainActive
  <2> QED
    BY Zenon, <2>1 DEF InvalidateBlock, InvalidateTip, FinishInvalidate, ReconsiderBlock
<1>5. tip' \in linked
  BY Zenon, <1>1, <1>4, AllLinked
<1>6. failed' \subseteq mapBlockIndex
  <2>1. failed' \subseteq failed \cup (mapBlockIndex \cap {b}) \cup {tip}
    BY Zenon DEF InvalidateBlock, InvalidateTip, FinishInvalidate, ReconsiderBlock, failed
  <2> QED
    BY Zenon, <1>1, <2>1, AllLinked DEF SInv, IndexInv
<1>7. \A x \in Blocks : (Unlinked(x))' => x \in haveData'
  BY Zenon, <1>3 DEF Unlinked, SInv, StoreInv
<1>8. IndexInv' /\ StoreInv' /\ LinkInv'
  BY Zenon, <1>1, <1>2, <1>3, <1>5, <1>6, <1>7, StatusKept
<1> QED
  BY Zenon, <1>8, InvalidateBlockIInv, InvalidateTipIInv, FinishInvalidateIInv, ReconsiderBlockIInv
  DEF SInv

LEMMA NextSInv == SInv /\ [NextWithOperator]_vars => SInv'
<1> SUFFICES ASSUME SInv, [NextWithOperator]_vars PROVE SInv'
  OBVIOUS
<1>1. CASE UNCHANGED vars
  <2>1. IInv'
    BY Zenon, <1>1, NextIInv DEF SInv
  <2>2. IndexInv' /\ StoreInv'
    BY Zenon, <1>1 DEF SInv, IndexInv, StoreInv, Unlinked, failed
  <2>3. LinkInv'
    BY Zenon, <1>1 DEF SInv, LinkInv, LinkedSoon, InQueue
  <2> QED
    BY Zenon, <2>1, <2>2, <2>3 DEF SInv
<1>2. ASSUME NEW c \in Callers, Arrival(c) PROVE SInv'
  BY Zenon, <1>2, ArrivalSInv, ReceiveBlockSInv DEF Arrival
<1>3. ASSUME NEW c \in Callers, Continue(c) PROVE SInv'
  BY <1>3, LinkBlockSInv, FinishAcceptSInv, BeginStepSInv, FindMostWorkChainSInv,
      DisconnectTipSInv, ConnectTipFailsSInv, ConnectTipSInv, OperatorSInv, TreeAssumption
  DEF Continue
<1> QED
  BY <1>1, <1>2, <1>3, OperatorSInv, ParameterAssumption
  DEF NextWithOperator, NextWithInvalidate, Next

=============================================================================
