---------------------------- MODULE BlockDownload ----------------------------
(***************************************************************************)
(* How blocks are asked of peers and arrive: announcements (inv, headers,  *)
(* unsolicited thin blocks), the requests of SendMessages, full blocks,    *)
(* thin blocks and their re-requests, the two timeouts, and the end of a   *)
(* connection.                                                             *)
(*                                                                         *)
(* A handler holds cs_main throughout and is one action.  Two loops are    *)
(* run one pass per step, with `loop` standing for the lock that is still  *)
(* held: the erasures of MarkBlockAsReceived and those of stopAllWork.     *)
(*                                                                         *)
(* Time appears as what it decides: that a deadline has passed, that the   *)
(* tip is recent (almost), that the initial download is over.  Transaction *)
(* contents appear as the outcome of rebuilding a thin block.  Every block *)
(* of the tree is valid; a peer can send a copy that fails CheckBlock.     *)
(***************************************************************************)
EXTENDS InFlight

CONSTANTS
  Genesis, Prev, nHeight, nChainWork, ChainOf, \* the tree of all blocks
  XThinPeers,      \* peers whose version message offers xthin blocks
  Preferred,       \* outbound or whitelisted peers
  Timely,          \* peers that answer before the deadlines, with good data
  Target,          \* the best block of the timely peers
  MAX_BLOCKS_IN_TRANSIT_PER_PEER, BLOCK_DOWNLOAD_WINDOW, MIN_BLOCKS_TO_KEEP, WALK_LIMIT,
  ThinBlocksMaxParallel, AvoidFullBlocks,
  AnnounceAhead,   \* how far above the tip an unsolicited thin block is taken
  MaxUnasked       \* bound on the messages that are unasked for or faulty

ASSUME TreeAssumption ==
  /\ Genesis \in Blocks
  /\ Prev \in [Blocks \ {Genesis} -> Blocks]
  /\ nHeight \in [Blocks -> Nat] /\ nChainWork \in [Blocks -> Nat]
  /\ ChainOf \in [Blocks -> SUBSET Blocks] /\ ChainOf[Genesis] = {Genesis}
  /\ \A b \in Blocks :
       /\ Genesis \in ChainOf[b] /\ b \in ChainOf[b]
       /\ \A x \in ChainOf[b] : ChainOf[x] \subseteq ChainOf[b] /\ nHeight[x] <= nHeight[b]
       /\ \A h \in 0..nHeight[b] : \E x \in ChainOf[b] : nHeight[x] = h

ASSUME BoundsAssumption ==
  /\ MAX_BLOCKS_IN_TRANSIT_PER_PEER \in Nat /\ BLOCK_DOWNLOAD_WINDOW \in Nat
  /\ MIN_BLOCKS_TO_KEEP \in Nat

VARIABLES
  net,                      \* each connection: new, connected, up, closing, gone
  mapNodeState, node,       \* the peers that have a CNodeState, and its fields
  inFlight,                 \* blocksInFlight, grouped by peer
  builders,                 \* ThinBlockManager::builders
  nQueuedValidatedHeaders, nPreferredDownload, nSyncStarted,
  mapBlockIndex, haveData, tip,
  fInitialDownload,
  loop,                     \* the loop a handler is in, or NULL
  unasked,
  aborted                   \* an assert has failed

tables == <<mapNodeState, node, inFlight, builders, nQueuedValidatedHeaders,
            nPreferredDownload, nSyncStarted, mapBlockIndex, haveData, tip, aborted>>
vars == <<net, tables, fInitialDownload, loop, unasked>>

S == [mapNodeState |-> mapNodeState, node |-> node, inFlight |-> inFlight,
      builders |-> builders, nQueuedValidatedHeaders |-> nQueuedValidatedHeaders,
      nPreferredDownload |-> nPreferredDownload, nSyncStarted |-> nSyncStarted,
      mapBlockIndex |-> mapBlockIndex, haveData |-> haveData, tip |-> tip,
      aborted |-> aborted]

Becomes(s) ==
  /\ mapNodeState' = s.mapNodeState /\ node' = s.node /\ inFlight' = s.inFlight
  /\ builders' = s.builders
  /\ nQueuedValidatedHeaders' = s.nQueuedValidatedHeaders
  /\ nPreferredDownload' = s.nPreferredDownload /\ nSyncStarted' = s.nSyncStarted
  /\ mapBlockIndex' = s.mapBlockIndex /\ haveData' = s.haveData /\ tip' = s.tip
  /\ aborted' = s.aborted

\* The constructor of CNodeState.
NewNodeState ==
  [vBlocksInFlight |-> <<>>, nBlocksInFlight |-> 0, nBlocksInFlightValidHeaders |-> 0,
   nStallingSince |-> FALSE, pindexBestKnownBlock |-> NULL, hashLastUnknownBlock |-> NULL,
   pindexLastCommonBlock |-> NULL, unconnectingHeaders |-> FALSE, fSyncStarted |-> FALSE,
   fPreferredDownload |-> FALSE, thinblock |-> [dummy |-> TRUE, blocks |-> {}]]

Init ==
  /\ net = [p \in Peers |-> "new"]
  /\ mapNodeState = {} /\ node = [p \in Peers |-> NewNodeState]
  /\ inFlight = [p \in Peers |-> <<>>] /\ builders = [b \in Blocks |-> NULL]
  /\ nQueuedValidatedHeaders = 0 /\ nPreferredDownload = 0 /\ nSyncStarted = 0
  /\ mapBlockIndex = {Genesis} /\ haveData = {Genesis} /\ tip = Genesis
  /\ fInitialDownload = TRUE /\ loop = NULL /\ unasked = 0 /\ aborted = FALSE

\* A message of peer p can be handled: no handler is running.
Handling(p) == loop = NULL /\ net[p] = "up"

\* A message that was not asked for, or one that makes the node drop a request.
\* Timely peers send none, but for the headers of their best block.
Unasked(p) == p \notin Timely /\ unasked < MaxUnasked /\ unasked' = unasked + 1

\* b has been asked of p, as a full block or a thin one.
Asked(p, b) == Positions(node[p].vBlocksInFlight, b) # {} \/ isWorkingOn(S, p, b)

-----------------------------------------------------------------------------
(* What a peer has *)

UpdateBestFromLast(n, chainIndex) ==
  LET last == n.hashLastUnknownBlock
      best == n.pindexBestKnownBlock
  IN IF last = NULL \/ last \notin chainIndex THEN n
     ELSE [n EXCEPT !.hashLastUnknownBlock = NULL,
                    !.pindexBestKnownBlock =
                       IF best = NULL \/ nChainWork[best] <= nChainWork[last] THEN last
                       ELSE best]

\* The state n of a peer that has announced block b.
Announced(n, chainIndex, b) ==
  UpdateBestFromLast(
    [UpdateBestFromLast(n, chainIndex) EXCEPT !.hashLastUnknownBlock = b], chainIndex)

UpdateBlockAvailability(s, p, b) ==
  [s EXCEPT !.node[p] = Announced(@, s.mapBlockIndex, b)]

headerConnects(s, b) == Prev[b] \in s.mapBlockIndex

\* The state n of a peer whose headers did not connect.
Unconnecting(n, bump) == [n EXCEPT !.unconnectingHeaders = @ \/ bump]

\* requestConnectHeaders for a header that does not connect.
CannotConnect(s, p, b, bumpUnconnecting) ==
  [s EXCEPT !.node[p] = Unconnecting(Announced(@, s.mapBlockIndex, b), bumpUnconnecting)]

\* DefaultHeaderProcessor up to the direct fetch: the headers of the branch from
\* `first` to b.
AcceptHeaders(s, p, first, b) ==
  LET known == s.mapBlockIndex \cup (ChainOf[b] \ ChainOf[Prev[first]]) IN
  [s EXCEPT !.mapBlockIndex = known,
            !.node[p] = [Announced(@, known, b) EXCEPT !.unconnectingHeaders = FALSE]]

-----------------------------------------------------------------------------
(* Requests *)

\* fetchAsThin and ThinBlocksActive: a peer that offers thin blocks has a worker.
fetchAsThin(s, p) == ~ fInitialDownload /\ ~ s.node[p].thinblock.dummy

\* pickDownloadStrategy answers DOWNL_THIN_NOW or DOWNL_FULL_NOW for block b.
WantsNow(s, p, b, almost) ==
  /\ almost
  /\ b \notin s.haveData
  /\ ~ s.node[p].unconnectingHeaders
  /\ s.node[p].nBlocksInFlight < MAX_BLOCKS_IN_TRANSIT_PER_PEER
  /\ IF fetchAsThin(s, p) THEN numWorkers(s, b) < ThinBlocksMaxParallel
     ELSE ~ isInFlight(s, b) /\ ~ AvoidFullBlocks

\* Block b is asked of p: requestBlock and addWork for a thin block, then
\* MarkBlockAsInFlight.
RequestBlock(s, p, b, validated) ==
  MarkBlockAsInFlight(IF fetchAsThin(s, p) THEN addWork(s, p, b) ELSE s, p, b, validated)

ActiveChain(s) == ChainOf[s.tip]

Missing(s, bs) == {x \in bs : x \notin s.haveData /\ ~ isInFlight(s, x)}

\* That the newest blocks are trimmed off shows in RequestNext, which asks for
\* the oldest ones first and for no more than a peer may have in transit.
findMissingBlocks(s, b) ==
  LET walked == ChainOf[b] \ ActiveChain(s) IN
  IF Cardinality(walked) + 1 > WALK_LIMIT THEN {} ELSE Missing(s, walked)

Lowest(bs) == {x \in bs : \A y \in bs : nHeight[x] <= nHeight[y]}

\* The block of x's branch at height h, or x.
GetAncestor(x, h) ==
  IF h >= nHeight[x] THEN x ELSE CHOOSE y \in ChainOf[x] : nHeight[y] = h

LastCommonAncestor(x, y) ==
  CHOOSE z \in ChainOf[x] \cap ChainOf[y] :
    \A w \in ChainOf[x] \cap ChainOf[y] : nHeight[w] <= nHeight[z]

\* Where the walk of FindNextBlocksToDownload begins.
WalkStart(s, p) ==
  LET n == s.node[p] IN
  LastCommonAncestor(
    IF n.pindexLastCommonBlock # NULL THEN n.pindexLastCommonBlock
    ELSE GetAncestor(s.tip, nHeight[n.pindexBestKnownBlock]),
    n.pindexBestKnownBlock)

HasNews(s, p) ==
  LET best == s.node[p].pindexBestKnownBlock IN
  best # NULL /\ nChainWork[best] >= nChainWork[s.tip]

\* The blocks walked over that lie at most `ahead` above the start.
Walked(s, p, ahead) ==
  {x \in ChainOf[s.node[p].pindexBestKnownBlock] :
     nHeight[x] - nHeight[WalkStart(s, p)] \in 1..ahead}

Linked(s, x) == ChainOf[x] \subseteq s.haveData

\* Mutant: it moves over the blocks that are downloaded.
MovedOverData(s, p) ==
  IF ~ HasNews(s, p) THEN s
  ELSE LET had == {WalkStart(s, p)} \cup
                  (Walked(s, p, BLOCK_DOWNLOAD_WINDOW + 1) \cap s.haveData)
       IN [s EXCEPT !.node[p].pindexLastCommonBlock =
             CHOOSE x \in had : \A y \in had : nHeight[y] <= nHeight[x]]

\* pindexLastCommonBlock moves over the blocks that are linked.
MovedLastCommon(s, p) ==
  IF ~ HasNews(s, p) THEN s
  ELSE LET linked == {WalkStart(s, p)} \cup
                     {x \in Walked(s, p, BLOCK_DOWNLOAD_WINDOW + 1) : Linked(s, x)}
       IN [s EXCEPT !.node[p].pindexLastCommonBlock =
             CHOOSE x \in linked : \A y \in linked : nHeight[y] <= nHeight[x]]

\* Mutant: what any peer works on is left to it.
FetchableByNobody(s, p, bs) == {x \in Missing(s, bs) : numWorkers(s, x) = 0}

\* Neither downloaded, nor in flight, nor announced to us by p as a thin block.
Fetchable(s, p, bs) == {x \in Missing(s, bs) : ~ isWorkingOn(s, p, x)}

\* vBlocks of FindNextBlocksToDownload, without its limit (see RequestNext).
ToDownload(s, p) ==
  IF HasNews(s, p) THEN Fetchable(s, p, Walked(s, p, BLOCK_DOWNLOAD_WINDOW)) ELSE {}

\* nodeStaller: the peers that keep the window from moving, when p could be
\* asked for a block if the window were one larger.
Stallers(s, p) ==
  LET awaited == {x \in Walked(s, p, BLOCK_DOWNLOAD_WINDOW) : isInFlight(s, x)}
      waitingfor == UNION {nodesWithQueued(s, x) : x \in Lowest(awaited \ s.haveData)}
  IN IF /\ HasNews(s, p)
        /\ ToDownload(s, p) = {}
        /\ Fetchable(s, p, Walked(s, p, BLOCK_DOWNLOAD_WINDOW + 1)) # {}
        /\ p \notin waitingfor
     THEN waitingfor ELSE {}

-----------------------------------------------------------------------------
(* Arrivals *)

\* ActivateBestChain: the tips it can end at.  Of two branches with the same
\* work the one that was there first stays.
BestTips(s) ==
  LET linked == {x \in s.haveData : Linked(s, x)}
      best == {x \in linked : \A y \in linked : nChainWork[y] <= nChainWork[x]}
  IN IF s.tip \in best THEN {s.tip} ELSE best

\* AcceptBlock for a good copy of b; nothing is pruned.
AcceptBlock(s, b, fRequested) ==
  LET taken == fRequested \/ /\ nChainWork[b] > nChainWork[s.tip]
                             /\ nHeight[b] <= nHeight[s.tip] + MIN_BLOCKS_TO_KEEP
  IN [s EXCEPT !.mapBlockIndex = @ \cup {b},
               !.haveData = IF taken THEN @ \cup {b} ELSE @]

\* ProcessNewBlock once no entry of b is in flight; a block that was rebuilt from
\* a thin one ends with the removeIfExists of finishBlock.
Processed(s, b, wasInFlight, force, checked, thin) ==
  LET received == IF wasInFlight THEN removeIfExists(s, b) ELSE s
      accepted == IF checked THEN AcceptBlock(received, b, wasInFlight \/ force) ELSE received
  IN IF thin THEN removeIfExists(accepted, b) ELSE accepted

ProcessNewBlock(s, b, force, checked, thin) ==
  IF isInFlight(s, b)
  THEN /\ Becomes(s)
       /\ loop' = [op |-> "received", hash |-> b, force |-> force, checked |-> checked,
                   thin |-> thin]
  ELSE LET done == Processed(s, b, FALSE, force, checked, thin) IN
       /\ \E t \in BestTips(done) : Becomes([done EXCEPT !.tip = t])
       /\ loop' = NULL

\* Process blocks of whitelisted peers unless we are still syncing.
ForceProcessing == IF fInitialDownload THEN {FALSE} ELSE BOOLEAN

-----------------------------------------------------------------------------
(* Connections *)

InitializeNode(p) ==
  /\ net[p] = "new" /\ net' = [net EXCEPT ![p] = "connected"]
  /\ Becomes([S EXCEPT !.mapNodeState = @ \cup {p}, !.node[p] = NewNodeState])
  /\ UNCHANGED <<fInitialDownload, loop, unasked>>

UpdatePreferredDownload(s, p) ==
  [s EXCEPT !.nPreferredDownload = @ - One(s.node[p].fPreferredDownload) + One(p \in Preferred),
            !.node[p].fPreferredDownload = p \in Preferred]

\* The version and verack messages.  An outgoing peer we do not keep is left
\* before it is counted as a preferred one.
Version(p) ==
  LET s == [S EXCEPT !.node[p].thinblock.dummy = p \notin XThinPeers] IN
  /\ net[p] = "connected" /\ loop = NULL
  /\ \/ net' = [net EXCEPT ![p] = "up"] /\ Becomes(UpdatePreferredDownload(s, p))
     \/ p \notin Timely /\ net' = [net EXCEPT ![p] = "closing"] /\ Becomes(s)
  /\ UNCHANGED <<fInitialDownload, loop, unasked>>

\* The socket fails, the peer leaves or is banned.
Disconnect(p) ==
  /\ net[p] \in {"connected", "up"} /\ p \notin Timely
  /\ net' = [net EXCEPT ![p] = "closing"]
  /\ UNCHANGED <<tables, fInitialDownload, loop, unasked>>

\* Every entry of the queue takes the first entry for its block out of the
\* index; what is left are the later ones, in their order.
ErasedQueue(index, queue) ==
  LET Earlier(i) == {j \in Positions(index, index[i].hash) : j <= i}
      left == {i \in DOMAIN index :
                 Cardinality(Earlier(i)) > Cardinality(Positions(queue, index[i].hash))}
  IN [k \in 1..Cardinality(left) |->
        index[CHOOSE i \in left : Cardinality({j \in left : j <= i}) = k]]

\* A worker's blocks are still to be given up, by stopAllWork.
StopAllWork(s, p) == IF s.node[p].thinblock.blocks = {} THEN NULL
                     ELSE [op |-> "stop", node |-> p]

\* Mutant: the index keeps the requests of p.
FinalizedKeepsIndex(s, p) ==
  LET n == s.node[p] IN
  [s EXCEPT !.nSyncStarted = @ - One(n.fSyncStarted),
            !.nPreferredDownload = @ - One(n.fPreferredDownload),
            !.node[p] = [NewNodeState EXCEPT !.thinblock = n.thinblock],
            !.mapNodeState = @ \ {p}]

\* What FinalizeNode does before the worker of p is destructed.
Finalized(s, p) ==
  LET n == s.node[p] IN
  [s EXCEPT !.nSyncStarted = @ - One(n.fSyncStarted),
            !.nPreferredDownload = @ - One(n.fPreferredDownload),
            !.inFlight[p] = ErasedQueue(@, n.vBlocksInFlight),
            !.node[p] = [NewNodeState EXCEPT !.thinblock = n.thinblock],
            !.mapNodeState = @ \ {p}]

FinalizeNode(p) ==
  /\ loop = NULL
  /\ net[p] = "closing" /\ net' = [net EXCEPT ![p] = "gone"]
  /\ Becomes(Finalized(S, p)) /\ loop' = StopAllWork(S, p)
  /\ UNCHANGED <<fInitialDownload, unasked>>

-----------------------------------------------------------------------------
(* Messages *)

\* sendcmpct: a CompactWorker takes the place of the worker of p.
SendCmpct(p) ==
  /\ Handling(p) /\ Unasked(p)
  /\ Becomes([S EXCEPT !.node[p].thinblock.dummy = FALSE])
  /\ loop' = StopAllWork(S, p)
  /\ UNCHANGED <<net, fInitialDownload>>

\* unexpectedThinError: a thin block message could not be read.
UnexpectedThinError(p) ==
  /\ Handling(p) /\ Unasked(p)
  /\ UNCHANGED tables /\ loop' = StopAllWork(S, p)
  /\ UNCHANGED <<net, fInitialDownload>>

\* inv: onBlockAnnounced, then MarkBlockAsInFlight for a block it has requested.
Inv(p, b, almost) ==
  LET s == UpdateBlockAvailability(S, p, b) IN
  /\ Handling(p)
  /\ Becomes(IF WantsNow(s, p, b, almost) THEN RequestBlock(s, p, b, FALSE) ELSE s)
  /\ Unasked(p)
  /\ UNCHANGED <<net, fInitialDownload, loop>>

\* headers: those of the branch from `first` to b.
Headers(p, first, b, almost) ==
  LET s == AcceptHeaders(S, p, first, b)
      todo == findMissingBlocks(s, b)
  IN /\ Handling(p)
     /\ \/ /\ ~ headerConnects(S, first)
           /\ Becomes(CannotConnect(S, p, first, TRUE)) /\ UNCHANGED loop
        \/ /\ headerConnects(S, first)
           /\ Becomes(s)
           /\ loop' = IF /\ nChainWork[s.tip] <= nChainWork[b]
                         /\ \E x \in Lowest(todo) : WantsNow(s, p, x, almost)
                      THEN [op |-> "request", node |-> p, todo |-> todo, direct |-> TRUE]
                      ELSE NULL
     /\ IF p \in Timely /\ b = Target THEN UNCHANGED unasked ELSE Unasked(p)
     /\ UNCHANGED <<net, fInitialDownload>>

\* block: a full block; ok says whether it passes CheckBlock.
Block(p, b, ok, force) ==
  LET s == CannotConnect(S, p, b, TRUE) IN
  /\ Handling(p)
  /\ IF ok /\ Asked(p, b) THEN UNCHANGED unasked ELSE Unasked(p)
  /\ \/ /\ ~ headerConnects(S, b)
        /\ Becomes(InFlightEraser(stopWork(s, p, b), {p}, b)) /\ UNCHANGED loop
     \/ headerConnects(S, b) /\ ProcessNewBlock(S, b, force, ok, FALSE)
  /\ UNCHANGED <<net, fInitialDownload>>

\* What becomes of a thin block once all it lacks has been looked up: some
\* transactions are missing, it is rebuilt, or it has to be given up.
Outcomes == {"missing", "complete", "broken"}

\* setToWork, after the header of b is processed: a block we work on, or an
\* announcement that is not too far ahead.
setToWork(s, p, b) ==
  IF isWorkingOn(s, p, b) \/ nHeight[b] > nHeight[s.tip] + AnnounceAhead THEN s
  ELSE addWork(s, p, b)

\* A thin block that does not validate is rejected; one that connects is given to
\* the builder.
ThinBlock(p, b, outcome, force, bumpUnconnecting) ==
  LET known == AcceptHeaders(S, p, b, b)
      s == setToWork(known, p, b)
      stub == [s EXCEPT !.builders[b].stub = TRUE]
  IN /\ Handling(p)
     /\ IF outcome # "broken" /\ Asked(p, b) THEN UNCHANGED unasked ELSE Unasked(p)
     /\ \/ /\ outcome = "broken"
           /\ Becomes(stopWork(S, p, b)) /\ UNCHANGED loop
        \/ /\ ~ headerConnects(S, b)
           /\ Becomes(stopWork(CannotConnect(S, p, b, bumpUnconnecting), p, b))
           /\ UNCHANGED loop
        \/ /\ headerConnects(S, b) /\ b \in haveData
           /\ Becomes(stopWork(S, p, b)) /\ UNCHANGED loop
        \/ /\ headerConnects(S, b) /\ b \notin haveData
           /\ IF ~ isWorkingOn(s, p, b) THEN Becomes(s) /\ UNCHANGED loop
              ELSE IF s.builders[b] = NULL
                   THEN Becomes([s EXCEPT !.aborted = TRUE]) /\ UNCHANGED loop
              ELSE CASE outcome = "missing" -> Becomes(stub) /\ UNCHANGED loop
                     [] outcome = "broken" -> /\ \/ Becomes(removeIfExists(s, b))
                                                 \/ Becomes(stopWork(s, p, b))
                                              /\ UNCHANGED loop
                     [] outcome = "complete" -> ProcessNewBlock(stub, b, force, TRUE, TRUE)
     /\ UNCHANGED <<net, fInitialDownload>>

\* xthinblock, cmpctblock: only the first counts headers that do not connect.
XThinBlock(p, b, outcome, force) == ThinBlock(p, b, outcome, force, TRUE)
CmpctBlock(p, b, outcome, force) == ThinBlock(p, b, outcome, force, FALSE)

\* xblocktx, blocktxn: the transactions that were missing.  The last worker that
\* does not get them falls back on the full block.
ReRequestResponse(p, b, outcome, force) ==
  LET failed == stopWork(S, p, b)
      stubBuilt == isStubBuilt(S, b)
  IN /\ Handling(p) /\ isWorkingOn(S, p, b)
     /\ IF outcome = "complete" /\ stubBuilt THEN UNCHANGED unasked ELSE Unasked(p)
     /\ \/ /\ outcome = "complete" /\ stubBuilt
           /\ ProcessNewBlock(S, b, force, TRUE, TRUE)
        \/ /\ outcome = "broken" /\ stubBuilt
           /\ Becomes(removeIfExists(S, b)) /\ UNCHANGED loop
        \/ /\ outcome = "missing" \/ ~ stubBuilt
           /\ Becomes(IF numWorkers(S, b) <= 1 THEN MarkBlockAsInFlight(failed, p, b, FALSE)
                      ELSE failed)
           /\ UNCHANGED loop
     /\ UNCHANGED <<net, fInitialDownload>>

-----------------------------------------------------------------------------
(* SendMessages *)

fFetch(p) == node[p].fPreferredDownload \/ nPreferredDownload = 0

\* The state n of a peer once headers may have been asked of it.
StartedSync(n, start) == [n EXCEPT !.fSyncStarted = @ \/ start]

\* SendMessages up to the timeouts: headers are asked of p if it is the only
\* peer they are asked of or if our best header is recent.
SyncStarted(p, recent) ==
  LET start == ~ node[p].fSyncStarted /\ ((nSyncStarted = 0 /\ fFetch(p)) \/ recent)
  IN [S EXCEPT !.nSyncStarted = @ + One(start),
               !.node[p] = StartedSync(UpdateBestFromLast(@, mapBlockIndex), start)]

\* p has kept the window from moving for BLOCK_STALLING_TIMEOUT.
StallTimeout(p, recent) ==
  /\ Handling(p) /\ p \notin Timely
  /\ node[p].nStallingSince
  /\ net' = [net EXCEPT ![p] = "closing"] /\ Becomes(SyncStarted(p, recent))
  /\ UNCHANGED <<fInitialDownload, loop, unasked>>

\* The oldest request of p, for block b, is older than GetBlockTimeout allows.
Late(p, b) ==
  /\ Handling(p) /\ p \notin Timely
  /\ node[p].vBlocksInFlight # <<>> /\ Head(node[p].vBlocksInFlight).hash = b

BlockTimeout(p, b, recent) ==
  /\ Late(p, b)
  /\ net' = [net EXCEPT ![p] = "closing"] /\ Becomes(SyncStarted(p, recent))
  /\ UNCHANGED <<fInitialDownload, loop, unasked>>

WillDownloadFromNode(s, p) ==
  fInitialDownload \/ ~ AvoidFullBlocks \/ ~ s.node[p].thinblock.dummy

\* Blocks can be asked of p now.
MayFetch(s, p) ==
  /\ WillDownloadFromNode(s, p)
  /\ fFetch(p) \/ ~ fInitialDownload
  /\ s.node[p].nBlocksInFlight < MAX_BLOCKS_IN_TRANSIT_PER_PEER

\* The tables once FindNextBlocksToDownload has run and those that stall are noted.
Sent(p, recent) ==
  LET s == SyncStarted(p, recent)
      stallers == IF s.node[p].nBlocksInFlight = 0 THEN Stallers(s, p) ELSE {}
  IN IF ~ MayFetch(s, p) THEN s
     ELSE [MovedLastCommon(s, p) EXCEPT
             !.node = [q \in Peers |->
                         IF q \in stallers THEN [@[q] EXCEPT !.nStallingSince = TRUE]
                         ELSE @[q]]]

\* The loop that requests what FindNextBlocksToDownload has found.
Requesting(p, recent) ==
  LET s == SyncStarted(p, recent) IN
  IF MayFetch(s, p) /\ ToDownload(s, p) # {}
  THEN [op |-> "request", node |-> p, todo |-> ToDownload(s, p), direct |-> FALSE]
  ELSE NULL

\* No deadline has passed.
SendMessages(p, recent) ==
  /\ Handling(p)
  /\ Becomes(Sent(p, recent)) /\ loop' = Requesting(p, recent)
  /\ UNCHANGED <<net, fInitialDownload, unasked>>

-----------------------------------------------------------------------------
(* One pass of the loop that a handler is in *)

\* suggestDownload and SendMessages: the lowest block left is requested, unless p
\* has as many as it may have in transit.  suggestDownload asks the announcement's
\* conditions again for each block; the headers of the others are validated.
RequestNext ==
  /\ loop # NULL /\ loop.op = "request"
  /\ \E b \in Lowest(loop.todo) :
       LET p == loop.node
           wanted == IF loop.direct THEN WantsNow(S, p, b, TRUE)
                     ELSE node[p].nBlocksInFlight < MAX_BLOCKS_IN_TRANSIT_PER_PEER
           left == loop.todo \ {b}
       IN /\ Becomes(IF wanted THEN RequestBlock(S, p, b, ~ loop.direct) ELSE S)
          /\ loop' = IF wanted /\ left # {} THEN [loop EXCEPT !.todo = left] ELSE NULL
  /\ UNCHANGED <<net, fInitialDownload, unasked>>

\* MarkBlockAsReceived erases every entry of the block; the rest of ProcessNewBlock
\* follows.
ReceivedNext ==
  /\ loop # NULL /\ loop.op = "received"
  /\ LET b == loop.hash IN
     \/ \E p \in nodesWithQueued(S, b) : Becomes(InFlightEraser(S, {p}, b)) /\ UNCHANGED loop
     \/ LET done == Processed(S, b, TRUE, loop.force, loop.checked, loop.thin) IN
        /\ ~ isInFlight(S, b)
        /\ \E t \in BestTips(done) : Becomes([done EXCEPT !.tip = t])
        /\ loop' = NULL
  /\ UNCHANGED <<net, fInitialDownload, unasked>>

\* stopAllWork: the worker of a peer stops, block by block.
StopNext ==
  /\ loop # NULL /\ loop.op = "stop"
  /\ \E b \in node[loop.node].thinblock.blocks :
       LET s == stopWork(S, loop.node, b) IN
       Becomes(s) /\ loop' = StopAllWork(s, loop.node)
  /\ UNCHANGED <<net, fInitialDownload, unasked>>

\* IsInitialBlockDownload becomes false, for good.
LeaveInitialDownload ==
  /\ fInitialDownload /\ fInitialDownload' = FALSE /\ loop = NULL
  /\ UNCHANGED <<net, tables, loop, unasked>>

-----------------------------------------------------------------------------

Next ==
  \/ RequestNext \/ ReceivedNext \/ StopNext \/ LeaveInitialDownload
  \/ \E p \in Peers :
       \/ InitializeNode(p) \/ Version(p) \/ Disconnect(p) \/ FinalizeNode(p)
       \/ SendCmpct(p) \/ UnexpectedThinError(p)
       \/ \E recent \in BOOLEAN :
            \/ SendMessages(p, recent) \/ StallTimeout(p, recent)
            \/ \E b \in Blocks : BlockTimeout(p, b, recent)
       \/ \E b \in Blocks \ {Genesis} :
            \/ \E almost \in BOOLEAN :
                 Inv(p, b, almost) \/ \E first \in ChainOf[b] \ {Genesis} : Headers(p, first, b, almost)
            \/ \E force \in ForceProcessing :
                 \/ \E ok \in BOOLEAN : Block(p, b, ok, force)
                 \/ \E outcome \in Outcomes :
                      \/ XThinBlock(p, b, outcome, force)
                      \/ CmpctBlock(p, b, outcome, force)
                      \/ ReRequestResponse(p, b, outcome, force)

\* The states in which there is something to do for SendMessages, for the headers
\* that lead to the best block of a timely peer, and for its answers to requests
\* and re-requests.
CanSend(p) ==
  Handling(p) /\ (Sent(p, FALSE) # S \/ Requesting(p, FALSE) # NULL)
CanAnnounce(p) ==
  Handling(p) /\ \E first \in ChainOf[Target] \ {Genesis} :
                   headerConnects(S, first) /\ AcceptHeaders(S, p, first, Target) # S
CanAnswer(p) ==
  Handling(p) /\ \E b \in Blocks \ {Genesis} :
                   \/ Positions(node[p].vBlocksInFlight, b) # {}
                   \/ isWorkingOn(S, p, b) /\ isStubBuilt(S, b)

\* Weak fairness of these actions, of the loops, of FinalizeNode and of the start
\* of a connection with a timely peer: none of them has something to do for ever.
\* (A few steps of any of them leave nothing to do, so this is what WF_vars says of
\* them; TLC is far slower with ENABLED.)  The thread that handles messages serves
\* every peer in turn, deadlines pass, the socket thread deletes the peers that are
\* to be disconnected, and a timely peer does send what it is asked for: it answers
\* a re-request with the transactions that were missing.
Fairness ==
  /\ []<>(loop = NULL)
  /\ \A p \in Peers \ Timely :
       /\ []<>(net[p] # "closing")
       /\ \A b \in Blocks \ {Genesis} : []<>~Late(p, b)
  /\ \A p \in Timely :
       []<>(net[p] = "up") /\ []<>~CanSend(p) /\ []<>~CanAnnounce(p) /\ []<>~CanAnswer(p)

Spec == Init /\ [][Next]_vars /\ Fairness

-----------------------------------------------------------------------------

TypeOK ==
  /\ net \in [Peers -> {"new", "connected", "up", "closing", "gone"}]
  /\ mapNodeState = {p \in Peers : net[p] \in {"connected", "up", "closing"}}
  /\ \A p \in Peers :
       /\ node[p].vBlocksInFlight \in Seq(QueuedBlock)
       /\ inFlight[p] \in Seq(QueuedBlock)
       /\ node[p].thinblock.blocks \subseteq Blocks
  /\ \A b \in Blocks : builders[b] = NULL \/ builders[b].workers \subseteq Peers
  /\ mapBlockIndex \subseteq Blocks /\ haveData \subseteq Blocks /\ tip \in Blocks

\* The in-flight index holds exactly the entries of the queues, so that it keeps
\* no pointer into the state of a peer that is gone, and the counters of a peer
\* agree with its queue; MarkBlockAsReceived, InFlightEraserImpl and FinalizeNode
\* update the three separately.
IndexMatchesQueues ==
  \A p \in Peers :
    LET n == node[p]
        queue == n.vBlocksInFlight
    IN /\ inFlight[p] = IF p \in mapNodeState THEN queue ELSE <<>>
       /\ n.nBlocksInFlight = Len(queue)
       /\ n.nBlocksInFlightValidHeaders =
            Cardinality({i \in DOMAIN queue : queue[i].fValidatedHeaders})

\* The totals over all peers.  nQueuedValidatedHeaders counts the validated blocks
\* in flight; FinalizeNode does not take off those of the peer it deletes, so that
\* it can only be too large, and only once a peer is gone.
TotalsAgree ==
  LET validated == Cardinality(UNION {{p} \X {i \in DOMAIN inFlight[p] :
                                              inFlight[p][i].fValidatedHeaders} : p \in Peers})
  IN
  /\ nQueuedValidatedHeaders >= validated
  /\ (\A p \in Peers : net[p] # "gone") => nQueuedValidatedHeaders = validated
  /\ nPreferredDownload = Cardinality({p \in mapNodeState : node[p].fPreferredDownload})
  /\ nSyncStarted = Cardinality({p \in mapNodeState : node[p].fSyncStarted})

\* The workers that the thin block manager knows of for a block are those of the
\* peers that work on it, none of them destructed, and no assert of delWorker or
\* buildStub has failed; the two sides are updated by addWork, stopWork, the
\* destruction of a worker and removeIfExists.
WorkersAgree ==
  /\ ~ aborted
  /\ \A b \in Blocks :
       LET working == {p \in Peers : isWorkingOn(S, p, b)} IN
       IF working = {} THEN builders[b] = NULL
       ELSE builders[b] # NULL /\ builders[b].workers = working

\* FindNextBlocksToDownload never walks past a block that is missing: every
\* ancestor of pindexLastCommonBlock has been received.
LastCommonIsHad ==
  \A p \in Peers : node[p].pindexLastCommonBlock # NULL =>
                     ChainOf[node[p].pindexLastCommonBlock] \subseteq haveData

\* A block does not stay in flight from a peer: it arrives, or the peer times out
\* and is deleted with its queue.
RequestsEnd ==
  \A p \in Peers, b \in Blocks \ {Genesis} :
    Positions(inFlight[p], b) # {} ~> Positions(inFlight[p], b) = {}

\* With one peer that answers in time, the best block of that peer is reached
\* whatever the others do: what they hold in flight is given up and asked again.
DownloadCompletes == <>[](nChainWork[tip] >= nChainWork[Target])

=============================================================================
