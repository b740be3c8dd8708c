------------------------------ MODULE InFlight ------------------------------
(***************************************************************************)
(* The tables that say which peer is to send which block: the queues of    *)
(* the peers (CNodeState), the InFlightIndex over them, and the workers    *)
(* and builders of thin blocks.  cs_main protects them.  Operators take    *)
(* the tables as a record s and return the tables that the code leaves.    *)
(*                                                                         *)
(* InFlightIndex is a vector of pointers into the queues.  Every one of    *)
(* its functions looks for a peer, a block or both, so it is modelled by   *)
(* the entries it points to, grouped by peer.                              *)
(***************************************************************************)
EXTENDS Integers, Sequences, FiniteSets

CONSTANTS Peers, Blocks, NULL

ASSUME PeersAssumption == IsFiniteSet(Peers)

\* NULL is no block and no builder of a thin block.
ASSUME NullAssumption == NULL \notin Blocks /\ NULL \notin [workers : SUBSET Peers, stub : BOOLEAN]

\* QueuedBlock; its times are left out.
QueuedBlock == [hash : Blocks, fValidatedHeaders : BOOLEAN]

One(v) == IF v THEN 1 ELSE 0

Positions(q, b) == {i \in DOMAIN q : q[i].hash = b}

\* queuedItem: the position of the first entry for b.
queuedItem(q, b) ==
  CHOOSE i \in Positions(q, b) : \A j \in Positions(q, b) : i <= j

EraseAt(q, i) == SubSeq(q, 1, i - 1) \o SubSeq(q, i + 1, Len(q))

EraseFirst(q, b) == IF Positions(q, b) = {} THEN q ELSE EraseAt(q, queuedItem(q, b))

FirstValidated(q, b) ==
  IF Positions(q, b) = {} THEN 0 ELSE One(q[queuedItem(q, b)].fValidatedHeaders)

isInFlight(s, b) == \E p \in Peers : Positions(s.inFlight[p], b) # {}

nodesWithQueued(s, b) == {p \in Peers : Positions(s.inFlight[p], b) # {}}

-----------------------------------------------------------------------------
(* Requests *)

\* The state n of a peer with one more entry in its queue.
Enqueued(n, entry) ==
  [n EXCEPT !.vBlocksInFlight = Append(@, entry),
            !.nBlocksInFlight = @ + 1,
            !.nBlocksInFlightValidHeaders = @ + One(entry.fValidatedHeaders)]

MarkBlockAsInFlight(s, p, b, validated) ==
  LET entry == [hash |-> b, fValidatedHeaders |-> validated] IN
  [s EXCEPT !.nQueuedValidatedHeaders = @ + One(validated),
            !.node[p] = Enqueued(@, entry),
            !.inFlight[p] = Append(@, entry)]

\* Mutant: the count of validated headers is left as it is.
ErasedUncounted(n, q, b) ==
  IF Positions(q, b) = {} THEN n
  ELSE [n EXCEPT !.vBlocksInFlight = EraseFirst(@, b),
                 !.nBlocksInFlight = @ - 1,
                 !.nStallingSince = FALSE]

\* The state n of a peer after the entry for b that q, its part of the index,
\* has found is erased from its queue.
ErasedFrom(n, q, b) ==
  IF Positions(q, b) = {} THEN n
  ELSE [n EXCEPT !.vBlocksInFlight = EraseFirst(@, b),
                 !.nBlocksInFlight = @ - 1,
                 !.nBlocksInFlightValidHeaders = @ - FirstValidated(q, b),
                 !.nStallingSince = FALSE]

\* Mutant: the total is lowered for every entry.
InFlightEraserOfAny(s, P, b) ==
  [s EXCEPT !.nQueuedValidatedHeaders =
              @ - Cardinality({p \in P : Positions(s.inFlight[p], b) # {}}),
            !.node = [p \in Peers |-> IF p \in P \cap s.mapNodeState
                                      THEN ErasedFrom(@[p], s.inFlight[p], b) ELSE @[p]],
            !.inFlight = [p \in Peers |-> IF p \in P THEN EraseFirst(@[p], b) ELSE @[p]]]

\* InFlightEraserImpl for the peers of P; one without state is being destructed.
InFlightEraser(s, P, b) ==
  [s EXCEPT !.nQueuedValidatedHeaders =
              @ - Cardinality({p \in P : FirstValidated(s.inFlight[p], b) = 1}),
            !.node = [p \in Peers |-> IF p \in P \cap s.mapNodeState
                                      THEN ErasedFrom(@[p], s.inFlight[p], b) ELSE @[p]],
            !.inFlight = [p \in Peers |-> IF p \in P THEN EraseFirst(@[p], b) ELSE @[p]]]

-----------------------------------------------------------------------------
(* ThinBlockWorker and ThinBlockManager *)

isWorkingOn(s, p, b) == b \in s.node[p].thinblock.blocks

numWorkers(s, b) ==
  IF s.builders[b] = NULL THEN 0 ELSE Cardinality(s.builders[b].workers)

isStubBuilt(s, b) == s.builders[b] # NULL /\ s.builders[b].stub

\* The state n of a peer whose worker is to build the blocks bs.
Working(n, bs) == [n EXCEPT !.thinblock.blocks = bs]

\* The builder of a block once p works for it, and once it does not.
addWorker(builder, p) ==
  IF builder = NULL THEN [workers |-> {p}, stub |-> FALSE]
  ELSE [builder EXCEPT !.workers = @ \cup {p}]

WithoutWorker(builder, p) ==
  IF builder.workers = {p} THEN NULL ELSE [builder EXCEPT !.workers = @ \ {p}]

\* addWork of a ThinBlockWorker; that of DummyThinWorker does nothing.
addWork(s, p, b) ==
  IF s.node[p].thinblock.dummy \/ isWorkingOn(s, p, b) THEN s
  ELSE [s EXCEPT !.node[p] = Working(@, @.thinblock.blocks \cup {b}),
                 !.builders[b] = addWorker(@, p)]

\* The asserts of delWorker: the block has a builder, and p works for it.
WorkerKnown(s, p, b) == s.builders[b] # NULL /\ p \in s.builders[b].workers

delWorker(s, p, b) ==
  IF ~ WorkerKnown(s, p, b) THEN [s EXCEPT !.aborted = TRUE]
  ELSE InFlightEraser([s EXCEPT !.builders[b] = WithoutWorker(@, p)], {p}, b)

stopWork(s, p, b) ==
  IF ~ isWorkingOn(s, p, b) THEN s
  ELSE [delWorker(s, p, b) EXCEPT !.node[p] = Working(@, @.thinblock.blocks \ {b})]

\* Mutant: the workers are not told.
removeBuilder(s, b) == [s EXCEPT !.builders[b] = NULL]

\* Every worker on b stops; the last one takes the builder with it.
removeIfExists(s, b) ==
  IF s.builders[b] = NULL THEN s
  ELSE LET W == s.builders[b].workers
           e == InFlightEraser(s, W, b)
       IN [e EXCEPT !.node = [p \in Peers |->
                                IF p \in W THEN Working(@[p], @[p].thinblock.blocks \ {b})
                                ELSE @[p]],
                    !.builders[b] = NULL]

=============================================================================
