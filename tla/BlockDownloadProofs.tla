------------------------- MODULE BlockDownloadProofs -------------------------
(***************************************************************************)
(* Theorems about BlockDownload: that its tables agree with each other and *)
(* that no missing block is walked past, for every set of peers, every     *)
(* tree of blocks and all limits.                                          *)
(***************************************************************************)
EXTENDS BlockDownload, InFlightProofs

-----------------------------------------------------------------------------
(* The tree of blocks *)

\* A branch, or a part of one, has a highest block.
LEMMA HighestExists ==
  ASSUME NEW b \in Blocks, NEW T \in SUBSET ChainOf[b], T # {}
  PROVE  \E x \in T : \A y \in T : nHeight[y] <= nHeight[x]
<1>1. /\ \A x \in T : x \in Blocks /\ nHeight[x] \in Nat /\ nHeight[x] <= nHeight[b]
      /\ nHeight[b] \in Nat
  BY TreeAssumption
<1> DEFINE depths == {nHeight[b] - nHeight[x] : x \in T}
<1>2. depths \subseteq Nat /\ depths # {}
  BY <1>1
<1>3. PICK d \in depths : \A e \in depths : ~ (<<e, d>> \in OpToRel(<, Nat))
  <2>1. IsWellFoundedOn(OpToRel(<, Nat), Nat)
    BY NatLessThanWellFounded, Zenon
  <2> QED
    BY <2>1, <1>2, WFMin, Zenon
<1>4. PICK x \in T : d = nHeight[b] - nHeight[x]
  OBVIOUS
<1>5. ASSUME NEW y \in T PROVE nHeight[y] <= nHeight[x]
  <2> SUFFICES ASSUME nHeight[x] < nHeight[y] PROVE FALSE
    BY <1>1
  <2> DEFINE e == nHeight[b] - nHeight[y]
  <2>1. e \in depths /\ e < d
    BY <1>1, <1>4
  <2>2. <<e, d>> \in Nat \X Nat
    BY <2>1, <1>2
  <2>3. <<e, d>> \in OpToRel(<, Nat)
    BY <2>1, <2>2 DEF OpToRel
  <2> QED
    BY <2>1, <2>3, <1>3, Zenon
<1> QED
  BY <1>5

\* GetAncestor gives a block of the branch.
LEMMA AncestorOnBranch ==
  ASSUME NEW x \in Blocks, NEW h \in Nat
  PROVE  GetAncestor(x, h) \in ChainOf[x]
<1>1. CASE h >= nHeight[x]
  BY <1>1, TreeAssumption DEF GetAncestor
<1>2. CASE ~ (h >= nHeight[x])
  <2>1. nHeight[x] \in Nat /\ h \in 0..nHeight[x]
    BY <1>2, TreeAssumption
  <2>2. \E y \in ChainOf[x] : nHeight[y] = h
    BY <2>1, TreeAssumption
  <2> QED
    BY <2>2, <1>2 DEF GetAncestor
<1> QED
  BY <1>1, <1>2

\* LastCommonAncestor gives a block of both branches.
LEMMA CommonAncestor ==
  ASSUME NEW x \in Blocks, NEW y \in Blocks
  PROVE  LastCommonAncestor(x, y) \in ChainOf[x] \cap ChainOf[y]
<1> DEFINE T == ChainOf[x] \cap ChainOf[y]
<1>1. T \in SUBSET ChainOf[x] /\ Genesis \in T
  BY TreeAssumption
<1>2. \E z \in T : \A w \in T : nHeight[w] <= nHeight[z]
  BY <1>1, HighestExists, Zenon
<1> QED
  BY <1>2 DEF LastCommonAncestor

-----------------------------------------------------------------------------
(* Changes that neither the queues nor the workers take part in *)

\* Every block up to the tip, and up to the last one in common with a peer, is had.
ChainsHad(s) ==
  /\ ChainOf[s.tip] \subseteq s.haveData
  /\ \A p \in Peers : s.node[p].pindexLastCommonBlock # NULL =>
                        ChainOf[s.node[p].pindexLastCommonBlock] \subseteq s.haveData

Good(s) == Sound(s) /\ ChainsHad(s)

\* What is sound and leaves everything else alone keeps the chains.
LEMMA ElsewhereGood ==
  ASSUME NEW s, NEW t, Good(s), Sound(t), SameElsewhere(s, t)
  PROVE  Good(t) /\ SameNodes(s, t)
  BY DEF Good, ChainsHad, SameElsewhere, SameNodes

\* ProcessBlockAvailability is quiet.
LEMMA UpdatedBest ==
  ASSUME NEW n \in NodeState, NEW chainIndex
  PROVE  Quiet(n, UpdateBestFromLast(n, chainIndex))
<1>1. n.hashLastUnknownBlock \in Blocks \cup {NULL} /\ n.pindexBestKnownBlock \in Blocks \cup {NULL}
  BY DEF NodeState
<1> QED
  BY <1>1, QuietFields, Zenon DEF UpdateBestFromLast

\* So is UpdateBlockAvailability.
LEMMA AnnouncedQuiet ==
  ASSUME NEW n \in NodeState, NEW chainIndex, NEW b \in Blocks
  PROVE  Quiet(n, Announced(n, chainIndex, b))
<1> DEFINE m == UpdateBestFromLast(n, chainIndex)
           k == [m EXCEPT !.hashLastUnknownBlock = b]
<1>1. Quiet(n, m)
  BY UpdatedBest
<1>2. m \in NodeState
  BY <1>1 DEF Quiet, Nearly
<1> HIDE DEF m
<1>3. Quiet(m, k)
  BY <1>2, QuietFields, Zenon
<1>4. k \in NodeState
  BY <1>3 DEF Quiet, Nearly
<1> HIDE DEF k
<1>5. Quiet(k, UpdateBestFromLast(k, chainIndex))
  BY <1>4, UpdatedBest
<1>6. Quiet(n, UpdateBestFromLast(k, chainIndex))
  BY <1>1, <1>3, <1>5, QuietTransitive
<1> QED
  BY <1>6 DEF Announced, k, m

\* Such changes keep the tables good if the peers are counted again.
LEMMA NearlyGood ==
  ASSUME NEW s, Good(s), NEW p \in Peers, NEW m, Nearly(s.node[p], m),
         NEW k \in SUBSET Blocks, NEW c \in Int, NEW d \in Int,
         NEW t, t = WithQuiet(s, [s.node EXCEPT ![p] = m], k, c, d), Tallied(s) => Tallied(t)
  PROVE  Good(t) /\ SameNodes(s, t) /\ t.node = [s.node EXCEPT ![p] = m]
<1> DEFINE f == [s.node EXCEPT ![p] = m]
<1>1. s \in Tables /\ Sound(s)
  BY DEF Good, Sound
<1>2. f \in [Peers -> NodeState] /\ \A r \in Peers : Nearly(s.node[r], f[r])
  BY <1>1, OneNearly, Zenon
<1>3. t = WithQuiet(s, f, k, c, d)
  OBVIOUS
<1> HIDE DEF f
<1>4. t \in Tables /\ t.node = f /\ SameCore(s, t)
  BY <1>1, <1>2, <1>3, PutQuiet, SMTT(30)
<1>5. Sound(t) /\ SameNodes(s, t)
  BY <1>1, <1>2, <1>4, QuietSound, SMTT(30) DEF Nearly, SameCore
<1>6. ChainsHad(t)
  BY <1>2, <1>4 DEF Good, ChainsHad, Nearly, SameCore
<1> QED
  BY <1>4, <1>5, <1>6 DEF Good, f

\* Quiet changes leave the counts as they are.
LEMMA QuietGood ==
  ASSUME NEW s, Good(s), NEW p \in Peers, NEW m, Quiet(s.node[p], m),
         NEW k \in SUBSET Blocks,
         NEW t, t = WithQuiet(s, [s.node EXCEPT ![p] = m], k, s.nPreferredDownload, s.nSyncStarted)
  PROVE  Good(t) /\ SameNodes(s, t)
<1> DEFINE f == [s.node EXCEPT ![p] = m]
           c == s.nPreferredDownload
           d == s.nSyncStarted
<1>1. /\ s \in Tables /\ s.node \in [Peers -> NodeState] /\ s.mapNodeState \subseteq Peers
      /\ c \in Int /\ d \in Int
  BY TableTypes DEF Good, Sound
<1>2. Nearly(s.node[p], m) /\ SameFlags(s.node[p], m)
  BY DEF Quiet
<1>3. f \in [Peers -> NodeState]
  BY <1>1, <1>2, OneNearly, Zenon
<1>4. \A r \in Peers : SameFlags(s.node[r], f[r])
  BY <1>1, <1>2 DEF SameFlags
<1>5. t = WithQuiet(s, f, k, c, d)
  OBVIOUS
<1> HIDE DEF f
<1>6. /\ t.node = f /\ t.mapNodeState = s.mapNodeState
      /\ t.nPreferredDownload = c /\ t.nSyncStarted = d
  BY <1>1, <1>3, <1>5, PutQuiet, SMTT(30) DEF SameCore
<1>7. Tallied(s) => Tallied(t)
  BY <1>1, <1>4, <1>6, FlagsTallied
<1> QED
  BY <1>1, <1>2, <1>7, NearlyGood, SMTT(30)

\* An announcement changes what is known of the peer, and nothing else.
LEMMA AvailabilityGood ==
  ASSUME NEW s, Good(s), NEW p \in Peers, NEW b \in Blocks
  PROVE  /\ Good(UpdateBlockAvailability(s, p, b))
         /\ SameNodes(s, UpdateBlockAvailability(s, p, b))
<1> DEFINE m == Announced(s.node[p], s.mapBlockIndex, b)
           t == UpdateBlockAvailability(s, p, b)
<1>1. s \in Tables /\ s.node[p] \in NodeState
  BY TableTypes DEF Good, Sound
<1>2. Quiet(s.node[p], m)
  BY <1>1, AnnouncedQuiet
<1>3. t = WithQuiet(s, [s.node EXCEPT ![p] = m], s.mapBlockIndex, s.nPreferredDownload,
                    s.nSyncStarted)
  BY <1>1, Zenon DEF UpdateBlockAvailability, WithQuiet, Tables
<1> HIDE DEF m, t
<1>4. Good(t) /\ SameNodes(s, t)
  BY <1>1, <1>2, <1>3, QuietGood, TableTypes, Zenon
<1> QED
  BY <1>4 DEF t

\* What a header that does not connect does to a peer's state.
LEMMA ConnectingQuiet ==
  ASSUME NEW n \in NodeState, NEW v \in BOOLEAN
  PROVE  Quiet(n, Unconnecting(n, v))
<1>1. CASE v
  <2>1. Unconnecting(n, v) = [n EXCEPT !.unconnectingHeaders = TRUE]
    BY <1>1, Zenon DEF Unconnecting, NodeState
  <2> QED
    BY <2>1, QuietFields, Zenon
<1>2. CASE ~ v
  <2>1. Unconnecting(n, v) = n
    BY <1>2 DEF Unconnecting, NodeState
  <2> QED
    BY <2>1, QuietFields, Zenon
<1> QED
  BY <1>1, <1>2

\* A header that does not connect changes the peer's state only.
LEMMA CannotConnectGood ==
  ASSUME NEW s, Good(s), NEW p \in Peers, NEW b \in Blocks, NEW bump \in BOOLEAN
  PROVE  Good(CannotConnect(s, p, b, bump)) /\ SameNodes(s, CannotConnect(s, p, b, bump))
<1> DEFINE n == Announced(s.node[p], s.mapBlockIndex, b)
           m == Unconnecting(n, bump)
           t == CannotConnect(s, p, b, bump)
<1>1. s \in Tables /\ s.node[p] \in NodeState
  BY TableTypes DEF Good, Sound
<1>2. Quiet(s.node[p], n) /\ n \in NodeState
  BY <1>1, AnnouncedQuiet DEF Quiet, Nearly
<1>3. t = WithQuiet(s, [s.node EXCEPT ![p] = m], s.mapBlockIndex, s.nPreferredDownload,
                    s.nSyncStarted)
  BY <1>1, Zenon DEF CannotConnect, WithQuiet, Tables
<1> HIDE DEF n, t
<1>4. Quiet(s.node[p], m)
  <2>1. Quiet(n, m)
    BY <1>2, ConnectingQuiet
  <2> QED
    BY <2>1, <1>2, QuietTransitive
<1> HIDE DEF m
<1>5. Good(t) /\ SameNodes(s, t)
  BY <1>1, <1>3, <1>4, QuietGood, TableTypes, Zenon
<1> QED
  BY <1>5 DEF t

\* Headers that connect enter mapBlockIndex.
LEMMA HeadersGood ==
  ASSUME NEW s, Good(s), NEW p \in Peers, NEW b \in Blocks, NEW first
  PROVE  Good(AcceptHeaders(s, p, first, b)) /\ SameNodes(s, AcceptHeaders(s, p, first, b))
<1> DEFINE k == s.mapBlockIndex \cup (ChainOf[b] \ ChainOf[Prev[first]])
           n == Announced(s.node[p], k, b)
           m == [n EXCEPT !.unconnectingHeaders = FALSE]
           t == AcceptHeaders(s, p, first, b)
<1>1. s \in Tables /\ s.node[p] \in NodeState
  BY TableTypes DEF Good, Sound
<1>2. k \in SUBSET Blocks
  BY <1>1, TableTypes, TreeAssumption, SMTT(30)
<1>3. Quiet(s.node[p], n) /\ n \in NodeState
  BY <1>1, AnnouncedQuiet DEF Quiet, Nearly
<1>4. t = WithQuiet(s, [s.node EXCEPT ![p] = m], k, s.nPreferredDownload, s.nSyncStarted)
  BY <1>1, Zenon DEF AcceptHeaders, WithQuiet, Tables
<1> HIDE DEF k, n, t
<1>5. Quiet(s.node[p], m)
  BY <1>3, QuietFields, QuietTransitive, Zenon
<1> HIDE DEF m
<1>6. Good(t) /\ SameNodes(s, t)
  BY <1>1, <1>2, <1>4, <1>5, QuietGood, TableTypes, ZenonT(30)
<1> QED
  BY <1>6, SMTT(30) DEF t
WithDummy(s, p, v) == [s EXCEPT !.node[p].thinblock.dummy = v]

\* The kind of the worker is no part of the blocks it builds.
LEMMA DummyGood ==
  ASSUME NEW s, Good(s), NEW p \in Peers, NEW v \in BOOLEAN
  PROVE  Good(WithDummy(s, p, v)) /\ SameNodes(s, WithDummy(s, p, v))
<1> DEFINE m == [s.node[p] EXCEPT !.thinblock.dummy = v]
           t == WithDummy(s, p, v)
<1>1. s \in Tables /\ s.node[p] \in NodeState
  BY TableTypes DEF Good, Sound
<1>2. t = WithQuiet(s, [s.node EXCEPT ![p] = m], s.mapBlockIndex, s.nPreferredDownload,
                    s.nSyncStarted)
  BY <1>1, Zenon DEF WithDummy, WithQuiet, Tables
<1>3. Quiet(s.node[p], m)
  BY <1>1, QuietFields, Zenon
<1> HIDE DEF m, t
<1>4. Good(t) /\ SameNodes(s, t)
  BY <1>1, <1>2, <1>3, QuietGood, TableTypes, Zenon
<1> QED
  BY <1>4 DEF t

\* A peer that has a state gets or loses flags, and the counts follow.
LEMMA FlagsGood ==
  ASSUME NEW s, Good(s), NEW p \in s.mapNodeState, NEW m, Nearly(s.node[p], m),
         NEW c \in Int, NEW d \in Int, Retallied(s, s.node[p], m, c, d),
         NEW t, t = WithQuiet(s, [s.node EXCEPT ![p] = m], s.mapBlockIndex, c, d)
  PROVE  Good(t) /\ SameNodes(s, t)
<1> DEFINE f == [s.node EXCEPT ![p] = m]
           k == s.mapBlockIndex
<1>1. /\ s \in Tables /\ s.node \in [Peers -> NodeState] /\ s.mapNodeState \subseteq Peers
      /\ k \in SUBSET Blocks /\ p \in Peers
  BY TableTypes DEF Good, Sound
<1>2. f \in [Peers -> NodeState] /\ f[p] = m /\ \A r \in Peers : r # p => f[r] = s.node[r]
  BY <1>1 DEF Nearly
<1>3. t = WithQuiet(s, f, k, c, d)
  OBVIOUS
<1> HIDE DEF f, k
<1>4. /\ t.node = f /\ t.mapNodeState = s.mapNodeState
      /\ t.nPreferredDownload = c /\ t.nSyncStarted = d
  BY <1>1, <1>2, <1>3, PutQuiet, SMTT(30) DEF SameCore
<1>5. PreferredIn(t) \ {p} = PreferredIn(s) \ {p} /\ SyncingIn(t) \ {p} = SyncingIn(s) \ {p}
  BY <1>1, <1>2, <1>4, SMTT(30) DEF PreferredIn, SyncingIn
<1>6. /\ p \in PreferredIn(s) <=> s.node[p].fPreferredDownload
      /\ p \in PreferredIn(t) <=> m.fPreferredDownload
      /\ p \in SyncingIn(s) <=> s.node[p].fSyncStarted
      /\ p \in SyncingIn(t) <=> m.fSyncStarted
  BY <1>2, <1>4, Zenon DEF PreferredIn, SyncingIn
<1>7. /\ One(p \in PreferredIn(s)) = One(s.node[p].fPreferredDownload)
      /\ One(p \in PreferredIn(t)) = One(m.fPreferredDownload)
      /\ One(p \in SyncingIn(s)) = One(s.node[p].fSyncStarted)
      /\ One(p \in SyncingIn(t)) = One(m.fSyncStarted)
  BY <1>6, Zenon DEF One
<1>8. /\ t.nPreferredDownload =
           (s.nPreferredDownload - One(p \in PreferredIn(s))) + One(p \in PreferredIn(t))
      /\ t.nSyncStarted = (s.nSyncStarted - One(p \in SyncingIn(s))) + One(p \in SyncingIn(t))
  BY <1>4, <1>7, Zenon DEF Retallied
<1>9. Tallied(s) => Tallied(t)
  BY ONLY <1>1, <1>5, <1>8, OneTallied, Zenon
<1> QED
  BY <1>1, <1>9, NearlyGood, SMTT(30) DEF k

\* So it is with the preference of a peer.
LEMMA PreferenceGood ==
  ASSUME NEW s, Good(s), NEW p \in s.mapNodeState
  PROVE  Good(UpdatePreferredDownload(s, p)) /\ SameNodes(s, UpdatePreferredDownload(s, p))
<1> DEFINE n == s.node[p]
           v == p \in Preferred
           m == [n EXCEPT !.fPreferredDownload = v]
           c == (s.nPreferredDownload - One(n.fPreferredDownload)) + One(v)
           d == s.nSyncStarted
           t == UpdatePreferredDownload(s, p)
<1>1. s \in Tables /\ n \in NodeState /\ p \in Peers /\ d \in Int
  BY TableTypes DEF Good, Sound
<1>2. c \in Int
  BY <1>1, TableTypes DEF One
<1>3. t = WithQuiet(s, [s.node EXCEPT ![p] = m], s.mapBlockIndex, c, d)
  BY <1>1, Zenon DEF UpdatePreferredDownload, WithQuiet, Tables
<1>4. v \in BOOLEAN
  OBVIOUS
<1> HIDE DEF n, v, t
<1>5. Nearly(n, m) /\ m.fPreferredDownload = v /\ m.fSyncStarted = n.fSyncStarted
  BY <1>1, <1>4, PreferredField, Zenon
<1> HIDE DEF m
<1>6. d = (d - One(n.fSyncStarted)) + One(m.fSyncStarted)
  BY <1>1, <1>5 DEF One
<1>7. Retallied(s, n, m, c, d)
  BY <1>5, <1>6, Zenon DEF Retallied
<1> HIDE DEF c, d
<1>8. Good(t) /\ SameNodes(s, t)
  BY <1>1, <1>2, <1>3, <1>5, <1>7, FlagsGood, Zenon DEF n
<1> QED
  BY <1>8 DEF t

\* What asking a peer for headers does to its state.
LEMMA StartedFlags ==
  ASSUME NEW n \in NodeState, NEW v \in BOOLEAN, v => ~ n.fSyncStarted,
         NEW m, m = StartedSync(n, v)
  PROVE  /\ Nearly(n, m) /\ m.fPreferredDownload = n.fPreferredDownload
         /\ One(v) = One(m.fSyncStarted) - One(n.fSyncStarted)
<1> DEFINE w == n.fSyncStarted \/ v
<1>1. n.fSyncStarted \in BOOLEAN /\ w \in BOOLEAN
  BY DEF NodeState
<1>2. m = [n EXCEPT !.fSyncStarted = w]
  BY Zenon DEF StartedSync, NodeState
<1>3. One(v) = One(w) - One(n.fSyncStarted)
  BY <1>1 DEF One
<1> HIDE DEF w
<1>4. Nearly(n, m) /\ m.fSyncStarted = w /\ m.fPreferredDownload = n.fPreferredDownload
  BY <1>1, <1>2, SyncField, Zenon
<1> QED
  BY <1>3, <1>4, Zenon

\* And with the peers that headers are asked of.
LEMMA SyncGood ==
  ASSUME Good(S), NEW p \in S.mapNodeState, NEW recent \in BOOLEAN
  PROVE  Good(SyncStarted(p, recent)) /\ SameNodes(S, SyncStarted(p, recent))
<1> DEFINE start == ~ node[p].fSyncStarted /\ ((nSyncStarted = 0 /\ fFetch(p)) \/ recent)
           k == S.node[p]
           n == UpdateBestFromLast(k, S.mapBlockIndex)
           m == StartedSync(n, start)
           c == S.nPreferredDownload
           d == S.nSyncStarted + One(start)
           t == SyncStarted(p, recent)
<1>1. S \in Tables /\ k \in NodeState /\ p \in Peers /\ c \in Int /\ S.nSyncStarted \in Int
  BY TableTypes DEF Good, Sound
<1>2. start \in BOOLEAN
  OBVIOUS
<1>3. d \in Int
  BY <1>1 DEF One
<1>4. S.node = node /\ S.mapBlockIndex = mapBlockIndex /\ S.nSyncStarted = nSyncStarted
  BY DEF S
<1>5. t = [S EXCEPT !.nSyncStarted = @ + One(start),
                    !.node[p] = StartedSync(UpdateBestFromLast(@, S.mapBlockIndex), start)]
  BY <1>4 DEF SyncStarted
<1>6. start => ~ k.fSyncStarted
  BY <1>4
<1> HIDE DEF start
<1>7. t = WithQuiet(S, [S.node EXCEPT ![p] = m], S.mapBlockIndex, c, d)
  BY <1>1, <1>5, Zenon DEF WithQuiet, Tables
<1>8. Quiet(k, n) /\ n \in NodeState
  BY <1>1, UpdatedBest DEF Quiet, Nearly
<1> HIDE DEF k, n, t
<1>9. n.fSyncStarted = k.fSyncStarted /\ n.fPreferredDownload = k.fPreferredDownload
  BY <1>8 DEF Quiet, SameFlags
<1>10. /\ Nearly(n, m) /\ m.fPreferredDownload = n.fPreferredDownload
       /\ One(start) = One(m.fSyncStarted) - One(n.fSyncStarted)
  BY <1>2, <1>6, <1>8, <1>9, StartedFlags, Zenon
<1> HIDE DEF m
<1>11. Nearly(k, m)
  BY <1>8, <1>10, QuietTransitive, Zenon
<1>12. \A x : One(x) \in Int
  BY DEF One
<1>13. /\ c = (c - One(k.fPreferredDownload)) + One(m.fPreferredDownload)
       /\ d = (S.nSyncStarted - One(k.fSyncStarted)) + One(m.fSyncStarted)
  BY <1>1, <1>9, <1>10, <1>12
<1>14. Retallied(S, k, m, c, d)
  BY <1>13, Zenon DEF Retallied
<1> HIDE DEF c, d
<1>15. Good(t) /\ SameNodes(S, t)
  BY <1>1, <1>3, <1>7, <1>11, <1>14, FlagsGood, Zenon DEF k
<1> QED
  BY <1>15 DEF t

\* Quiet changes of several peers.
LEMMA NodesGood ==
  ASSUME NEW s, Good(s), NEW f \in [Peers -> NodeState],
         \A r \in Peers : Quiet(s.node[r], f[r]), NEW t, t = WithNodes(s, f)
  PROVE  Good(t) /\ SameNodes(s, t)
<1>1. s \in Tables /\ Sound(s)
  BY DEF Good, Sound
<1>2. t \in Tables /\ t.node = f /\ t.builders = s.builders /\ SameRequests(s, t)
  BY <1>1, PutNodes
<1>3. SameCounts(s, t) /\ t.mapNodeState = s.mapNodeState /\ s.mapNodeState \subseteq Peers
  BY <1>1, <1>2, TableTypes DEF SameRequests
<1>4. Tallied(s) => Tallied(t)
  BY <1>2, <1>3, FlagsTallied, SMTT(30) DEF Quiet, SameCounts
<1>5. Sound(t) /\ SameNodes(s, t)
  BY <1>1, <1>2, <1>3, <1>4, QuietSound, SMTT(30) DEF Quiet, Nearly, SameRequests, SameCounts
<1>6. ChainsHad(t)
  BY <1>2 DEF Good, ChainsHad, Quiet, Nearly, SameRequests
<1> QED
  BY <1>5, <1>6 DEF Good

-----------------------------------------------------------------------------
(* FindNextBlocksToDownload *)

\* The walk begins at a block of the peer's branch that we have the chain of.
LEMMA WalkStartHad ==
  ASSUME NEW s, Good(s), NEW p \in Peers, HasNews(s, p)
  PROVE  /\ s.node[p].pindexBestKnownBlock \in Blocks
         /\ WalkStart(s, p) \in ChainOf[s.node[p].pindexBestKnownBlock]
         /\ ChainOf[WalkStart(s, p)] \subseteq s.haveData
<1> DEFINE n == s.node[p]
           best == n.pindexBestKnownBlock
           x == IF n.pindexLastCommonBlock # NULL THEN n.pindexLastCommonBlock
                ELSE GetAncestor(s.tip, nHeight[best])
<1>1. s \in Tables /\ n \in NodeState /\ s.tip \in Blocks
  BY TableTypes DEF Good, Sound
<1>2. best \in Blocks
  BY Zenon, <1>1 DEF HasNews, NodeState
<1>3. x \in Blocks /\ ChainOf[x] \subseteq s.haveData
  <2>1. CASE n.pindexLastCommonBlock # NULL
    BY Zenon, <1>1, <2>1 DEF NodeState, Good, ChainsHad
  <2>2. CASE n.pindexLastCommonBlock = NULL
    <3>1. nHeight[best] \in Nat
      BY <1>2, TreeAssumption, SMTT(30)
    <3>2. x \in ChainOf[s.tip]
      BY Zenon, <3>1, <2>2, <1>1, AncestorOnBranch
    <3>3. x \in Blocks /\ ChainOf[x] \subseteq ChainOf[s.tip]
      BY <3>2, <1>1, TreeAssumption, SMTT(30)
    <3>4. ChainOf[s.tip] \subseteq s.haveData
      BY DEF Good, ChainsHad
    <3> QED
      BY <3>3, <3>4, SMTT(30)
  <2> QED
    BY SMT, ZenonT(30), <2>1, <2>2
<1>4. WalkStart(s, p) = LastCommonAncestor(x, best)
  BY DEF WalkStart
<1> HIDE DEF x, best
<1>5. WalkStart(s, p) \in ChainOf[x] /\ WalkStart(s, p) \in ChainOf[best]
  BY <1>2, <1>3, <1>4, CommonAncestor, SMTT(30)
<1>6. ChainOf[WalkStart(s, p)] \subseteq ChainOf[x]
  BY <1>3, <1>5, TreeAssumption, SMTT(30)
<1> QED
  BY <1>2, <1>3, <1>5, <1>6, SMTT(30) DEF best

\* pindexLastCommonBlock moves to a block that we have the chain of.
LEMMA MovedGood ==
  ASSUME NEW s, Good(s), NEW p \in Peers
  PROVE  Good(MovedLastCommon(s, p)) /\ SameNodes(s, MovedLastCommon(s, p))
<1>1. CASE ~ HasNews(s, p)
  BY <1>1, SameNodesReflexive, SMTT(30) DEF MovedLastCommon
<1>2. CASE HasNews(s, p)
  <2> DEFINE best == s.node[p].pindexBestKnownBlock
             T == {WalkStart(s, p)} \cup
                  {x \in Walked(s, p, BLOCK_DOWNLOAD_WINDOW + 1) : Linked(s, x)}
             y == CHOOSE x \in T : \A z \in T : nHeight[z] <= nHeight[x]
             m == [s.node[p] EXCEPT !.pindexLastCommonBlock = y]
             f == [s.node EXCEPT ![p] = m]
             t == MovedLastCommon(s, p)
  <2>1. s \in Tables /\ Sound(s) /\ s.node \in [Peers -> NodeState]
    BY TableTypes, SMTT(30) DEF Good, Sound
  <2>2. best \in Blocks /\ T \in SUBSET ChainOf[best] /\ T # {}
    BY <1>2, WalkStartHad, SMTT(30) DEF Walked
  <2>3. \A x \in T : ChainOf[x] \subseteq s.haveData
    BY <1>2, WalkStartHad, SMTT(30) DEF Linked
  <2>4. t = WithNodes(s, f)
    BY <1>2, <2>1, SMTT(30) DEF MovedLastCommon, WithNodes, Tables
  <2> HIDE DEF best, T, t
  <2>5. y \in T
    BY <2>2, HighestExists, SMTT(30)
  <2>6. y \in Blocks /\ ChainOf[y] \subseteq s.haveData
    BY <2>2, <2>3, <2>5, TreeAssumption, ZenonT(30)
  <2> HIDE DEF y
  <2>7. /\ m \in NodeState /\ SameQueue(s.node[p], m) /\ m.pindexLastCommonBlock = y
        /\ SameFlags(s.node[p], m)
    BY <2>1, <2>6, LastCommonField, SMTT(30)
  <2> HIDE DEF m
  <2>8. f \in [Peers -> NodeState] /\ \A r \in Peers : f[r] = IF r = p THEN m ELSE s.node[r]
    BY <2>1, <2>7, SMTT(30)
  <2> HIDE DEF f
  <2>9. t \in Tables /\ t.node = f /\ t.builders = s.builders /\ SameRequests(s, t)
    BY SMT, SMTT(30), <2>1, <2>4, <2>8, PutNodes
  <2>10. \A r \in Peers : SameQueue(s.node[r], t.node[r]) /\ SameFlags(s.node[r], t.node[r])
    BY SMT, ZenonT(30), <2>7, <2>8, <2>9 DEF SameQueue, SameFlags
  <2>11. Sound(t) /\ SameNodes(s, t)
    <3>1. SameCounts(s, t) /\ t.mapNodeState = s.mapNodeState /\ s.mapNodeState \subseteq Peers
      BY <2>1, <2>9, TableTypes, SMTT(30) DEF SameRequests
    <3>2. Tallied(s) => Tallied(t)
      BY <2>10, <3>1, FlagsTallied, Zenon DEF SameCounts
    <3> QED
      BY SMT, ZenonT(30), <2>1, <2>9, <2>10, <3>1, <3>2, QuietSound DEF SameRequests, SameCounts
  <2>12. ChainsHad(t)
    BY <2>6, <2>7, <2>8, <2>9, SMTT(30) DEF Good, ChainsHad, SameRequests
  <2> QED
    BY <2>11, <2>12, SMTT(30) DEF Good, t
<1> QED
  BY <1>1, <1>2, SMTT(30)

\* So do the tables that SendMessages leaves, with those that stall noted.
LEMMA SentGood ==
  ASSUME Good(S), NEW p \in S.mapNodeState, NEW recent \in BOOLEAN
  PROVE  Good(Sent(p, recent)) /\ SameNodes(S, Sent(p, recent))
<1> DEFINE s == SyncStarted(p, recent)
           stallers == IF s.node[p].nBlocksInFlight = 0 THEN Stallers(s, p) ELSE {}
           M == MovedLastCommon(s, p)
           f == [q \in Peers |-> IF q \in stallers
                                 THEN [M.node[q] EXCEPT !.nStallingSince = TRUE]
                                 ELSE M.node[q]]
           t == Sent(p, recent)
<1>1. Good(s) /\ SameNodes(S, s)
  BY SyncGood
<1>2. CASE ~ MayFetch(s, p)
  BY <1>1, <1>2, SMTT(30) DEF Sent
<1>3. CASE MayFetch(s, p)
  <2>1. t = [M EXCEPT !.node = f]
    BY <1>3 DEF Sent
  <2> HIDE DEF t, s, stallers
  <2>2. Good(M) /\ SameNodes(s, M)
    <3>1. p \in Peers
      BY TableTypes DEF Good, Sound
    <3> QED
      BY <1>1, <3>1, MovedGood, SMTT(30)
  <2> HIDE DEF M
  <2>3. M.node \in [Peers -> NodeState]
    BY <2>2, TableTypes, SMTT(30) DEF Good, Sound
  <2>4. ASSUME NEW r \in Peers PROVE f[r] \in NodeState /\ Quiet(M.node[r], f[r])
    <3>1. M.node[r] \in NodeState
      BY <2>3
    <3>2. f[r] = IF r \in stallers THEN [M.node[r] EXCEPT !.nStallingSince = TRUE]
                 ELSE M.node[r]
      OBVIOUS
    <3> HIDE DEF f
    <3> QED
      BY ZenonT(30), <3>1, <3>2, QuietFields DEF Quiet, Nearly
  <2>5. f \in [Peers -> NodeState]
    BY <2>4
  <2>6. t = WithNodes(M, f)
    BY <2>1 DEF WithNodes
  <2> HIDE DEF f
  <2>7. Good(t) /\ SameNodes(M, t)
    BY <2>2, <2>4, <2>5, <2>6, NodesGood, SMTT(30)
  <2> QED
    BY <2>2, <2>7, <1>1, SameNodesTransitive, SMTT(30) DEF t
<1> QED
  BY <1>2, <1>3, SMTT(30)

-----------------------------------------------------------------------------
(* The operators of InFlight *)

\* stopWork keeps the tables good.
LEMMA StopGood ==
  ASSUME NEW s, Good(s), NEW p \in Peers, NEW b \in Blocks
  PROVE  Good(stopWork(s, p, b)) /\ SameNodes(s, stopWork(s, p, b))
  BY WorkStopped, ElsewhereGood, SMTT(30) DEF Good

\* removeIfExists keeps them good.
LEMMA RemoveGood ==
  ASSUME NEW s, Good(s), NEW b \in Blocks
  PROVE  Good(removeIfExists(s, b)) /\ SameNodes(s, removeIfExists(s, b))
  BY BuilderRemoved, ElsewhereGood, SMTT(30) DEF Good

\* InFlightEraserImpl keeps them good.
LEMMA EraseGood ==
  ASSUME NEW s, Good(s), NEW p \in Peers, NEW b \in Blocks
  PROVE  Good(InFlightEraser(s, {p}, b)) /\ SameNodes(s, InFlightEraser(s, {p}, b))
  BY ErasedSound, ElsewhereGood, SMTT(30) DEF Good

\* MarkBlockAsInFlight keeps them good, for a peer with a state.
LEMMA MarkGood ==
  ASSUME NEW s, Good(s), NEW p \in s.mapNodeState, NEW b \in Blocks, NEW validated \in BOOLEAN
  PROVE  /\ Good(MarkBlockAsInFlight(s, p, b, validated))
         /\ SameNodes(s, MarkBlockAsInFlight(s, p, b, validated))
  BY MarkedSound, ElsewhereGood, SMTT(30) DEF Good

\* A block is asked only of a peer with a state.
LEMMA RequestGood ==
  ASSUME NEW s, Good(s), NEW p \in s.mapNodeState, NEW b \in Blocks, NEW validated \in BOOLEAN
  PROVE  /\ Good(RequestBlock(s, p, b, validated))
         /\ SameNodes(s, RequestBlock(s, p, b, validated))
<1> DEFINE w == IF fetchAsThin(s, p) THEN addWork(s, p, b) ELSE s
<1>1. Good(w) /\ SameNodes(s, w)
  BY WorkAdded, ElsewhereGood, SameNodesReflexive, SMTT(30) DEF Good
<1>2. RequestBlock(s, p, b, validated) = MarkBlockAsInFlight(w, p, b, validated)
  BY DEF RequestBlock
<1> HIDE DEF w
<1>3. p \in w.mapNodeState
  BY <1>1, SMTT(30) DEF SameNodes
<1> QED
  BY Zenon, <1>1, <1>2, <1>3, MarkGood, SameNodesTransitive

\* So is a thin block that was not asked for taken only of such a peer.
LEMMA SetToWorkGood ==
  ASSUME NEW s, Good(s), NEW p \in s.mapNodeState, NEW b \in Blocks
  PROVE  Good(setToWork(s, p, b)) /\ SameNodes(s, setToWork(s, p, b))
  BY WorkAdded, ElsewhereGood, SameNodesReflexive, SMTT(30) DEF Good, setToWork

WithStub(s, b) == [s EXCEPT !.builders[b].stub = TRUE]

\* The stub of a thin block is no matter of its workers.
LEMMA StubGood ==
  ASSUME NEW s, Good(s), NEW b \in Blocks, s.builders[b] # NULL
  PROVE  Good(WithStub(s, b)) /\ SameNodes(s, WithStub(s, b))
<1> DEFINE x == [s.builders[b] EXCEPT !.stub = TRUE]
           h == [s.builders EXCEPT ![b] = x]
           t == WithStub(s, b)
<1>1. s \in Tables /\ Sound(s) /\ s.builders \in [Blocks -> Builder \cup {NULL}]
  BY TableTypes DEF Good, Sound
<1>2. x \in Builder /\ x.workers = s.builders[b].workers
  BY <1>1, Zenon DEF Builder
<1>3. t = WithBuilders(s, h)
  BY <1>1, SMTT(30) DEF WithStub, WithBuilders, Tables
<1> HIDE DEF x, t
<1>4. /\ h \in [Blocks -> Builder \cup {NULL}]
      /\ \A c \in Blocks : h[c] = IF c = b THEN x ELSE s.builders[c]
  BY <1>1, <1>2, SMTT(30)
<1> HIDE DEF h
<1>5. t \in Tables /\ t.node = s.node /\ t.builders = h /\ SameRequests(s, t)
  BY ZenonT(30), SMTT(30), <1>1, <1>3, <1>4, PutBuilders
<1>6. QueuesSound(t) /\ SameElsewhere(s, t)
  <2>1. Surplus(t) = Surplus(s) /\ (Tallied(s) => Tallied(t))
    BY <1>5, Zenon DEF SameRequests, SameCounts, Surplus, Tallied
  <2> QED
    BY <1>1, <1>5, <2>1, SMTT(30)
    DEF Sound, QueuesSound, SameRequests, SameElsewhere, SameTotals
<1>7. ASSUME NEW c \in Blocks PROVE KnownTo(t.builders[c], WorkersOf(t, c))
  <2>1. WorkersOf(t, c) = WorkersOf(s, c) /\ KnownTo(s.builders[c], WorkersOf(s, c))
    BY <1>1, <1>5, ZenonT(30) DEF WorkersOf, isWorkingOn, Sound, WorkersSound
  <2> QED
    BY <2>1, <1>2, <1>4, <1>5, SMTT(30) DEF KnownTo
<1>8. Sound(t)
  BY <1>1, <1>5, <1>6, <1>7, SMTT(30) DEF Sound, WorkersSound, SameRequests
<1> QED
  BY <1>6, <1>8, ElsewhereGood, SMTT(30) DEF t

-----------------------------------------------------------------------------
(* Arrivals *)

WithData(s, k, d, x) == [s EXCEPT !.mapBlockIndex = k, !.haveData = d, !.tip = x]

\* More blocks are had, and the tip is one whose chain is had.
LEMMA DataGood ==
  ASSUME NEW s, Good(s), NEW k \in SUBSET Blocks, NEW d \in SUBSET Blocks,
         s.haveData \subseteq d, NEW x \in Blocks, ChainOf[x] \subseteq d,
         NEW t, t = WithData(s, k, d, x)
  PROVE  Good(t) /\ SameNodes(s, t)
<1>1. s \in Tables /\ Sound(s)
  BY DEF Good, Sound
<1>2. t \in Tables
  BY <1>1, Zenon DEF Tables, WithData
<1>3. t.node = s.node /\ t.haveData = d /\ t.tip = x
  BY <1>1 DEF Tables, WithData
<1>4. /\ t.inFlight = s.inFlight /\ t.builders = s.builders
      /\ t.aborted = s.aborted /\ t.mapNodeState = s.mapNodeState
  BY <1>1, SMTT(30) DEF Tables, WithData
<1>5. \A p \in Peers : SameQueue(s.node[p], t.node[p])
  BY <1>3, SMTT(30) DEF SameQueue
<1>6. SameCounts(s, t)
  BY <1>1, SMTT(30) DEF Tables, WithData, SameCounts
<1>7. Tallied(s) => Tallied(t)
  BY <1>3, <1>4, <1>6, Zenon DEF SameCounts, Tallied
<1>8. Sound(t) /\ SameNodes(s, t)
  BY Zenon, <1>1, <1>2, <1>4, <1>5, <1>6, <1>7, QuietSound DEF SameCounts
<1>9. ChainsHad(t)
  BY <1>3 DEF Good, ChainsHad
<1> QED
  BY <1>8, <1>9, SMTT(30) DEF Good

\* AcceptBlock only adds blocks.
LEMMA AcceptGood ==
  ASSUME NEW s, Good(s), NEW b \in Blocks, NEW requested \in BOOLEAN
  PROVE  Good(AcceptBlock(s, b, requested)) /\ SameNodes(s, AcceptBlock(s, b, requested))
<1> DEFINE taken == requested \/ /\ nChainWork[b] > nChainWork[s.tip]
                                 /\ nHeight[b] <= nHeight[s.tip] + MIN_BLOCKS_TO_KEEP
           k == s.mapBlockIndex \cup {b}
           d == IF taken THEN s.haveData \cup {b} ELSE s.haveData
           t == AcceptBlock(s, b, requested)
<1>1. s \in Tables /\ s.tip \in Blocks /\ s.haveData \subseteq Blocks /\ s.mapBlockIndex \subseteq Blocks
  BY TableTypes, SMTT(30) DEF Good, Sound
<1> HIDE DEF taken
<1>2. /\ k \in SUBSET Blocks /\ d \in SUBSET Blocks /\ s.haveData \subseteq d
      /\ ChainOf[s.tip] \subseteq d
  BY <1>1 DEF Good, ChainsHad
<1>3. t = WithData(s, k, d, s.tip)
  BY <1>1, Zenon DEF AcceptBlock, WithData, Tables, taken
<1> HIDE DEF k, d, t
<1>4. Good(t) /\ SameNodes(s, t)
  BY <1>1, <1>2, <1>3, DataGood, SMTT(30)
<1> QED
  BY <1>4, SMTT(30) DEF t

\* ActivateBestChain ends at a block whose chain is had.
LEMMA TipGood ==
  ASSUME NEW s, Good(s), NEW x \in BestTips(s), NEW t, t = [s EXCEPT !.tip = x]
  PROVE  Good(t) /\ SameNodes(s, t)
<1>1. s \in Tables /\ s.haveData \subseteq Blocks /\ s.mapBlockIndex \subseteq Blocks
  BY TableTypes DEF Good, Sound
<1>2. x \in Blocks /\ ChainOf[x] \subseteq s.haveData
  BY <1>1 DEF BestTips, Linked
<1>3. t = WithData(s, s.mapBlockIndex, s.haveData, x)
  BY <1>1, Zenon DEF WithData, Tables
<1> QED
  BY <1>1, <1>2, <1>3, DataGood, SMTT(30)

\* ProcessNewBlock, once no entry of the block is in flight.
LEMMA ProcessedGood ==
  ASSUME NEW s, Good(s), NEW b \in Blocks, NEW wasInFlight \in BOOLEAN, NEW force \in BOOLEAN,
         NEW checked \in BOOLEAN, NEW thin \in BOOLEAN
  PROVE  /\ Good(Processed(s, b, wasInFlight, force, checked, thin))
         /\ SameNodes(s, Processed(s, b, wasInFlight, force, checked, thin))
<1> DEFINE r == IF wasInFlight THEN removeIfExists(s, b) ELSE s
           f == wasInFlight \/ force
           a == IF checked THEN AcceptBlock(r, b, f) ELSE r
           d == IF thin THEN removeIfExists(a, b) ELSE a
<1>1. Good(r) /\ SameNodes(s, r)
  BY RemoveGood, SameNodesReflexive, SMTT(30)
<1> HIDE DEF r
<1>2. Good(a) /\ SameNodes(r, a)
  <2>1. f \in BOOLEAN
    OBVIOUS
  <2> HIDE DEF f
  <2> QED
    BY <2>1, <1>1, AcceptGood, SameNodesReflexive, SMTT(30)
<1> HIDE DEF a
<1>3. Good(d) /\ SameNodes(a, d)
  BY <1>2, RemoveGood, SameNodesReflexive, SMTT(30)
<1>4. SameNodes(s, d)
  BY <1>1, <1>2, <1>3, SameNodesTransitive, SMTT(30)
<1>5. d = Processed(s, b, wasInFlight, force, checked, thin)
  BY SMTT(30) DEF Processed, r, a
<1> QED
  BY <1>3, <1>4, <1>5, SMTT(30)

-----------------------------------------------------------------------------
(* Connections *)

\* The state that the constructor of CNodeState gives.
LEMMA NewNode ==
  /\ NewNodeState \in NodeState /\ Counted(NewNodeState)
  /\ NewNodeState.vBlocksInFlight = <<>> /\ NewNodeState.thinblock.blocks = {}
  /\ NewNodeState.pindexLastCommonBlock = NULL
  /\ ~ NewNodeState.fPreferredDownload /\ ~ NewNodeState.fSyncStarted
<1>1. NewNodeState \in NodeState
  BY DEF NewNodeState, NodeState, QueuedBlock
<1>2. Validated(<<>>) = {}
  BY DEF Validated
<1>3. Cardinality({}) = 0
  BY FS_EmptySet, SMTT(30)
<1>4. Counted(NewNodeState)
  BY <1>2, <1>3, ZenonT(30) DEF Counted, NewNodeState
<1> QED
  BY <1>1, <1>4, SMTT(30) DEF NewNodeState

\* The state of a peer nothing is asked of, whose worker builds bs.
Fresh(m, bs) ==
  /\ m \in NodeState /\ Counted(m) /\ m.vBlocksInFlight = <<>>
  /\ m.thinblock.blocks = bs /\ m.pindexLastCommonBlock = NULL
  /\ ~ m.fPreferredDownload /\ ~ m.fSyncStarted

\* f is e but for m at p.
Replaced(f, e, p, m) == \A r \in Peers : f[r] = IF r = p THEN m ELSE e[r]

\* The peers of P and Q are the same but for p.
SameOthers(P, Q, p) == \A r \in Peers : r # p => (r \in P <=> r \in Q)

\* What becomes of the peers P, of their states and of the index when p gets a state
\* or loses it; its worker is left alone, and it is not counted any more.
PeerChange(s, p, P, m, f, g, c, d) ==
  /\ P \in SUBSET Peers /\ c \in Int /\ d \in Int
  /\ c = s.nPreferredDownload - One(p \in PreferredIn(s))
  /\ d = s.nSyncStarted - One(p \in SyncingIn(s))
  /\ SameOthers(P, s.mapNodeState, p) /\ Fresh(m, s.node[p].thinblock.blocks)
  /\ f \in [Peers -> NodeState] /\ Replaced(f, s.node, p, m)
  /\ g \in [Peers -> Seq(QueuedBlock)] /\ Replaced(g, s.inFlight, p, <<>>)

\* Such a change keeps the tables good.
LEMMA PeersGood ==
  ASSUME NEW s, Good(s), NEW p \in Peers, NEW P, NEW m, NEW f, NEW g, NEW c, NEW d,
         PeerChange(s, p, P, m, f, g, c, d), NEW t, t = WithPeers(s, P, f, g, c, d)
  PROVE  /\ Good(t) /\ t.mapNodeState = P /\ t.node = f
         /\ Tallied(s) => Tallied(t)
         /\ t.inFlight = g /\ t.nQueuedValidatedHeaders = s.nQueuedValidatedHeaders
<1>1. s \in Tables /\ Sound(s)
  BY SMTT(30) DEF Good, Sound
<1>2. SameOthers(P, s.mapNodeState, p) /\ Fresh(m, s.node[p].thinblock.blocks)
  BY SMTT(30) DEF PeerChange
<1>3. Replaced(f, s.node, p, m) /\ Replaced(g, s.inFlight, p, <<>>)
  BY SMTT(30) DEF PeerChange
<1>4. /\ P \in SUBSET Peers /\ c \in Int /\ d \in Int
      /\ f \in [Peers -> NodeState] /\ g \in [Peers -> Seq(QueuedBlock)]
  BY Zenon DEF PeerChange
<1>5. /\ t \in Tables
      /\ t.mapNodeState = P /\ t.node = f /\ t.inFlight = g /\ SameBlocks(s, t)
      /\ t.nPreferredDownload = c /\ t.nSyncStarted = d
  BY SMT, SMTT(30), <1>1, <1>4, PutPeers
<1>6. QueuesSound(t)
  <2> SUFFICES ASSUME NEW r \in Peers
               PROVE  /\ Counted(f[r])
                      /\ g[r] = IF r \in P THEN f[r].vBlocksInFlight ELSE <<>>
    BY <1>5, SMTT(30) DEF QueuesSound
  <2>1. CASE r = p
    BY Zenon, <1>2, <1>3, <2>1 DEF Fresh, Replaced
  <2>2. CASE r # p
    BY ZenonT(30), <1>1, <1>2, <1>3, <2>2 DEF Sound, QueuesSound, Replaced, SameOthers
  <2> QED
    BY <2>1, <2>2, SMTT(30)
<1>7. \A b \in Blocks : WorkersOf(t, b) = WorkersOf(s, b)
  BY <1>2, <1>3, <1>5, SMTT(30) DEF WorkersOf, isWorkingOn, Fresh, Replaced
<1>8. WorkersSound(t)
  BY ZenonT(30), <1>1, <1>5, <1>7 DEF Sound, WorkersSound, SameBlocks
<1>9. ChainsHad(t)
  BY <1>2, <1>3, <1>5, SMTT(30) DEF Good, ChainsHad, SameBlocks, Fresh, Replaced
<1>10. Tallied(s) => Tallied(t)
  <2>1. /\ s.mapNodeState \subseteq Peers
        /\ s.nPreferredDownload \in Int /\ s.nSyncStarted \in Int
    BY <1>1, TableTypes
  <2>2. PreferredIn(t) \ {p} = PreferredIn(s) \ {p} /\ SyncingIn(t) \ {p} = SyncingIn(s) \ {p}
    BY <1>2, <1>3, <1>4, <1>5, <2>1, SMTT(30) DEF PreferredIn, SyncingIn, SameOthers, Replaced
  <2>3. p \notin PreferredIn(t) /\ p \notin SyncingIn(t)
    BY <1>2, <1>3, <1>5, Zenon DEF PreferredIn, SyncingIn, Fresh, Replaced
  <2>4. One(p \in PreferredIn(t)) = 0 /\ One(p \in SyncingIn(t)) = 0
    BY <2>3, Zenon DEF One
  <2>5. \A x \in Int : x = x + 0
    OBVIOUS
  <2>6. /\ t.nPreferredDownload =
             (s.nPreferredDownload - One(p \in PreferredIn(s))) + One(p \in PreferredIn(t))
        /\ t.nSyncStarted = (s.nSyncStarted - One(p \in SyncingIn(s))) + One(p \in SyncingIn(t))
    BY <1>4, <1>5, <2>4, <2>5, Zenon DEF PeerChange
  <2> QED
    BY ONLY ZenonT(30), <2>1, <2>2, <2>6, OneTallied
<1> QED
  BY <1>5, <1>6, <1>8, <1>9, <1>10, SMTT(30) DEF Good, Sound, SameBlocks

\* FinalizeNode finds every entry of the peer in the index.
LEMMA QueueErased ==
  ASSUME NEW q \in Seq(QueuedBlock)
  PROVE  ErasedQueue(q, q) = <<>>
<1> DEFINE Earlier(i) == {j \in Positions(q, q[i].hash) : j <= i}
           left == {i \in DOMAIN q : Cardinality(Earlier(i)) > Cardinality(Positions(q, q[i].hash))}
<1>1. ASSUME NEW i \in DOMAIN q
      PROVE  /\ Cardinality(Earlier(i)) \in Nat /\ Cardinality(Positions(q, q[i].hash)) \in Nat
             /\ Cardinality(Earlier(i)) <= Cardinality(Positions(q, q[i].hash))
  <2>1. IsFiniteSet(DOMAIN q)
    BY FS_Interval
  <2>2. IsFiniteSet(Positions(q, q[i].hash))
    BY <2>1, FS_Subset DEF Positions
  <2>3. Earlier(i) \subseteq Positions(q, q[i].hash)
    OBVIOUS
  <2> QED
    BY <2>2, <2>3, FS_Subset, FS_CardinalityType
<1>2. left = {}
  BY <1>1
<1>3. Cardinality(left) = 0
  BY Zenon, <1>2, FS_EmptySet
<1> DEFINE Left(k) == q[CHOOSE i \in left : Cardinality({j \in left : j <= i}) = k]
<1>4. ErasedQueue(q, q) = [k \in 1..Cardinality(left) |-> Left(k)]
  BY Zenon DEF ErasedQueue
<1> HIDE DEF left, Left
<1>5. ErasedQueue(q, q) = [k \in 1..0 |-> Left(k)]
  BY Zenon, <1>3, <1>4
<1> QED
  BY ONLY <1>5, SMT, SMTT(30)

\* FinalizeNode takes the peer, its queue and its entries away together.
LEMMA FinalizedGood ==
  ASSUME NEW s, Good(s), NEW p \in s.mapNodeState
  PROVE  /\ Good(Finalized(s, p))
         /\ Finalized(s, p).mapNodeState = s.mapNodeState \ {p}
         /\ \A r \in Peers : Finalized(s, p).node[r].thinblock.blocks = s.node[r].thinblock.blocks
         /\ Tallied(s) => Tallied(Finalized(s, p))
         /\ Surplus(Finalized(s, p)) \in Int /\ Surplus(Finalized(s, p)) >= Surplus(s)
<1> DEFINE n == s.node[p]
           m == [NewNodeState EXCEPT !.thinblock = n.thinblock]
           c == s.nPreferredDownload - One(n.fPreferredDownload)
           d == s.nSyncStarted - One(n.fSyncStarted)
           P == s.mapNodeState \ {p}
           f == [s.node EXCEPT ![p] = m]
           g == [s.inFlight EXCEPT ![p] = <<>>]
           t == Finalized(s, p)
<1>1. /\ s \in Tables /\ s.node \in [Peers -> NodeState] /\ p \in Peers /\ P \in SUBSET Peers
      /\ s.inFlight \in [Peers -> Seq(QueuedBlock)]
      /\ s.nPreferredDownload \in Int /\ s.nSyncStarted \in Int
  BY TableTypes, SMTT(30) DEF Good, Sound
<1>2. n \in NodeState /\ n.thinblock \in [dummy : BOOLEAN, blocks : SUBSET Blocks]
  BY <1>1 DEF NodeState
<1>3. m \in NodeState /\ m.thinblock = n.thinblock
  BY Zenon, <1>2, NewNode DEF NodeState
<1>4. /\ Counted(m) /\ m.vBlocksInFlight = <<>> /\ m.pindexLastCommonBlock = NULL
      /\ ~ m.fPreferredDownload /\ ~ m.fSyncStarted
  BY NewNode DEF Counted, NewNodeState
<1>5. Fresh(m, n.thinblock.blocks)
  BY <1>3, <1>4 DEF Fresh
<1>6. c \in Int /\ d \in Int
  BY <1>1 DEF One
<1>7. /\ c = s.nPreferredDownload - One(p \in PreferredIn(s))
       /\ d = s.nSyncStarted - One(p \in SyncingIn(s))
  BY Zenon DEF PreferredIn, SyncingIn, One
<1>8. ErasedQueue(s.inFlight[p], n.vBlocksInFlight) = <<>>
  <2>1. s.inFlight[p] = n.vBlocksInFlight
    BY <1>1 DEF Good, Sound, QueuesSound
  <2> QED
    BY Zenon, <2>1, <1>1, QueueErased
<1>9. t = WithPeers(s, P, f, g, c, d)
  BY <1>1, <1>8, Zenon DEF Finalized, WithPeers, Tables
<1>10. SameOthers(P, s.mapNodeState, p)
  BY DEF SameOthers
<1> HIDE DEF m, c, d, t, P
<1>11. /\ f \in [Peers -> NodeState] /\ Replaced(f, s.node, p, m)
      /\ g \in [Peers -> Seq(QueuedBlock)] /\ Replaced(g, s.inFlight, p, <<>>)
  BY SMT, SMTT(30), <1>1, <1>3 DEF Replaced
<1> HIDE DEF f, g
<1>12. /\ Good(t) /\ t.mapNodeState = P /\ t.node = f
       /\ Tallied(s) => Tallied(t)
       /\ t.inFlight = g /\ t.nQueuedValidatedHeaders = s.nQueuedValidatedHeaders
  <2>1. PeerChange(s, p, P, m, f, g, c, d)
    BY Zenon, <1>1, <1>6, <1>10, <1>11, <1>5, <1>7 DEF PeerChange
  <2> QED
    BY <2>1, <1>1, <1>9, PeersGood
<1>13. \A r \in Peers : t.node[r].thinblock.blocks = s.node[r].thinblock.blocks
  BY Zenon, <1>3, <1>11, <1>12 DEF Replaced
<1>14. Surplus(t) \in Int /\ Surplus(t) >= Surplus(s)
  <2>1. \A r \in Peers : g[r] = s.inFlight[r] \/ g[r] = <<>>
    BY Zenon, <1>11 DEF Replaced
  <2>2. Cardinality(Entries(g)) <= Cardinality(Entries(s.inFlight))
    BY ZenonT(30), <1>1, <1>11, <2>1, EntriesDropped
  <2>3. /\ Cardinality(Entries(g)) \in Nat /\ Cardinality(Entries(s.inFlight)) \in Nat
        /\ s.nQueuedValidatedHeaders \in Int
    BY <1>1, <1>11, EntriesFinite, TableTypes
  <2> QED
    BY <1>12, <2>2, <2>3 DEF Surplus
<1> QED
  BY SMT, ZenonT(30), <1>12, <1>13, <1>14 DEF t, P

WithNewPeer(s, p) == [s EXCEPT !.mapNodeState = @ \cup {p}, !.node[p] = NewNodeState]

\* InitializeNode adds a peer with nothing in flight.
LEMMA InitializedGood ==
  ASSUME NEW s, Good(s), NEW p \in Peers, p \notin s.mapNodeState,
         s.node[p].thinblock.blocks = {}
  PROVE  /\ Good(WithNewPeer(s, p))
         /\ WithNewPeer(s, p).mapNodeState = s.mapNodeState \cup {p}
         /\ \A r \in Peers : WithNewPeer(s, p).node[r].thinblock.blocks =
                               s.node[r].thinblock.blocks
         /\ SameTotals(s, WithNewPeer(s, p))
<1> DEFINE m == NewNodeState
           P == s.mapNodeState \cup {p}
           f == [s.node EXCEPT ![p] = m]
           t == WithNewPeer(s, p)
<1>1. /\ s \in Tables /\ s.node \in [Peers -> NodeState] /\ P \in SUBSET Peers
      /\ s.inFlight \in [Peers -> Seq(QueuedBlock)]
      /\ s.nPreferredDownload \in Int /\ s.nSyncStarted \in Int
  BY TableTypes, SMTT(30) DEF Good, Sound
<1>2. Replaced(s.inFlight, s.inFlight, p, <<>>)
  BY <1>1 DEF Good, Sound, QueuesSound, Replaced
<1>3. t = WithPeers(s, P, f, s.inFlight, s.nPreferredDownload, s.nSyncStarted)
  BY <1>1, Zenon DEF WithNewPeer, WithPeers, Tables
<1>4. SameOthers(P, s.mapNodeState, p)
  BY DEF SameOthers
<1>5. Fresh(m, s.node[p].thinblock.blocks)
  BY NewNode, SMTT(30) DEF Fresh
<1>6. /\ s.nPreferredDownload = s.nPreferredDownload - One(p \in PreferredIn(s))
      /\ s.nSyncStarted = s.nSyncStarted - One(p \in SyncingIn(s))
  <2>1. p \notin PreferredIn(s) /\ p \notin SyncingIn(s)
    BY Zenon DEF PreferredIn, SyncingIn
  <2> QED
    BY <1>1, <2>1 DEF One
<1> HIDE DEF m, P, t
<1>7. f \in [Peers -> NodeState] /\ Replaced(f, s.node, p, m)
  BY Zenon, <1>1, <1>5 DEF Replaced, Fresh
<1> HIDE DEF f
<1>8. /\ Good(t) /\ t.mapNodeState = P /\ t.node = f
      /\ Tallied(s) => Tallied(t)
      /\ t.inFlight = s.inFlight /\ t.nQueuedValidatedHeaders = s.nQueuedValidatedHeaders
  <2>1. PeerChange(s, p, P, m, f, s.inFlight, s.nPreferredDownload, s.nSyncStarted)
    BY <1>1, <1>2, <1>4, <1>5, <1>7, <1>6, Zenon DEF PeerChange
  <2> QED
    BY <2>1, <1>3, PeersGood
<1>9. \A r \in Peers : t.node[r].thinblock.blocks = s.node[r].thinblock.blocks
  BY <1>5, <1>7, <1>8, ZenonT(30) DEF Fresh, Replaced
<1>10. SameTotals(s, t)
  BY Zenon, <1>8 DEF SameTotals, Surplus
<1> QED
  BY ZenonT(30), <1>8, <1>9, <1>10 DEF t, P

-----------------------------------------------------------------------------
(* The inductive invariant *)

Networks == {"new", "connected", "up", "closing", "gone"}
HasState == {"connected", "up", "closing"}

\* The totals agree, but for the blocks asked of the peers that are gone.
TotalsOK ==
  /\ Tallied(S) /\ Surplus(S) \in Int /\ Surplus(S) >= 0
  /\ (\A p \in Peers : net[p] # "gone") => Surplus(S) = 0

\* Exactly the peers that are connected have a state, a new one has no work, and the
\* totals agree.
NetOK ==
  /\ net \in [Peers -> Networks]
  /\ mapNodeState = {p \in Peers : net[p] \in HasState}
  /\ \A p \in Peers : net[p] = "new" => node[p].thinblock.blocks = {}
  /\ TotalsOK

\* A loop requests blocks of a peer that has a state, or handles a block, or stops a worker.
Requests == [op : {"request"}, node : mapNodeState, todo : SUBSET Blocks, direct : BOOLEAN]
Receipts == [op : {"received"}, hash : Blocks, force : BOOLEAN, checked : BOOLEAN, thin : BOOLEAN]
Stops == [op : {"stop"}, node : Peers]
LoopOK == loop = NULL \/ loop \in Requests \/ loop \in Receipts \/ loop \in Stops

IInv == Good(S) /\ NetOK /\ LoopOK

\* The variables are the parts of S.
LEMMA FieldsOfS ==
  /\ S.mapNodeState = mapNodeState /\ S.node = node /\ S.inFlight = inFlight
  /\ S.builders = builders /\ S.mapBlockIndex = mapBlockIndex /\ S.haveData = haveData
  /\ S.tip = tip /\ S.aborted = aborted
  /\ S.nQueuedValidatedHeaders = nQueuedValidatedHeaders
  /\ S.nPreferredDownload = nPreferredDownload /\ S.nSyncStarted = nSyncStarted
  BY SMTT(30) DEF S

\* Becomes determines the next tables.
LEMMA NextTables ==
  ASSUME NEW t \in Tables, Becomes(t)
  PROVE  S' = t
<1>1. S' \in Tables
  BY DEF S, Becomes, Tables
<1> QED
  BY ZenonT(30) DEF S, Becomes, Tables

\* The first tables are good.
LEMMA InitOK == Init => IInv
<1> SUFFICES ASSUME Init PROVE IInv
  BY Zenon
<1>1. S \in Tables
  <2>1. node \in [Peers -> NodeState]
    BY NewNode DEF Init
  <2>2. inFlight \in [Peers -> Seq(QueuedBlock)]
    BY DEF Init
  <2>3. builders \in [Blocks -> Builder \cup {NULL}]
    BY SMTT(30) DEF Init
  <2>4. /\ mapNodeState \in SUBSET Peers
        /\ mapBlockIndex \in SUBSET Blocks /\ haveData \in SUBSET Blocks
    BY TreeAssumption DEF Init
  <2>5. tip \in Blocks /\ aborted \in BOOLEAN
    BY TreeAssumption, Zenon DEF Init
  <2>6. /\ nQueuedValidatedHeaders \in Int /\ nPreferredDownload \in Int
        /\ nSyncStarted \in Int
    BY DEF Init
  <2> QED
    BY ZenonT(30), <2>1, <2>2, <2>3, <2>4, <2>5, <2>6 DEF S, Tables
<1>2. QueuesSound(S)
  BY Zenon, NewNode DEF Init, S, QueuesSound
<1>3. WorkersSound(S)
  <2>1. ~ S.aborted
    BY ZenonT(30) DEF Init, S
  <2>2. \A b \in Blocks : WorkersOf(S, b) = {}
    BY NewNode, SMTT(30) DEF Init, S, WorkersOf, isWorkingOn
  <2>3. \A b \in Blocks : S.builders[b] = NULL
    BY ZenonT(30) DEF Init, S
  <2> QED
    BY Zenon, <2>1, <2>2, <2>3 DEF WorkersSound, KnownTo
<1>4. ChainsHad(S)
  BY SMT, ZenonT(30), NewNode, TreeAssumption DEF Init, S, ChainsHad
<1>5. TotalsOK
  <2>1. Cardinality({}) = 0
    BY SMT, ZenonT(30), FS_EmptySet
  <2>2. /\ S.inFlight = [p \in Peers |-> <<>>] /\ S.mapNodeState = {}
        /\ S.nQueuedValidatedHeaders = 0 /\ S.nPreferredDownload = 0 /\ S.nSyncStarted = 0
    BY DEF Init, S
  <2>3. Entries(S.inFlight) = {}
    <3>1. S.inFlight \in [Peers -> Seq(QueuedBlock)]
      BY <1>1, TableTypes, Zenon
    <3>2. \A p \in Peers : Validated(S.inFlight[p]) = {}
      BY <2>2 DEF Validated
    <3> QED
      BY <3>1, <3>2, EntryPicked, Zenon
  <2>4. Surplus(S) = 0
    <3>1. Cardinality(Entries(S.inFlight)) = 0 /\ S.nQueuedValidatedHeaders = 0
      BY <2>1, <2>2, <2>3, Zenon
    <3> QED
      BY ONLY <3>1 DEF Surplus
  <2>5. Tallied(S)
    BY <2>1, <2>2 DEF Tallied
  <2> QED
    BY <2>4, <2>5 DEF TotalsOK
<1>6. NetOK /\ LoopOK
  BY ZenonT(30), <1>5, NewNode DEF Init, NetOK, LoopOK, Networks, HasState
<1> QED
  BY Zenon, <1>1, <1>2, <1>3, <1>4, <1>6 DEF IInv, Good, Sound

\* A step that leaves the same peers connected.
SameNet ==
  /\ net' \in [Peers -> Networks]
  /\ \A p \in Peers : /\ net'[p] \in HasState <=> net[p] \in HasState
                      /\ net'[p] = "new" => net[p] = "new"

\* Such a step to good tables keeps the tables and the connections in agreement.
LEMMA GoodStep ==
  ASSUME NetOK, SameNet, NEW t, Good(t), SameNodes(S, t), Becomes(t)
  PROVE  Good(S)' /\ NetOK' /\ mapNodeState' = mapNodeState
<1>1. t \in Tables
  BY DEF Good, Sound
<1>2. S' = t
  BY <1>1, NextTables, SMTT(30)
<1>3. Good(S)'
  BY <1>2, SMTT(30)
<1>4. mapNodeState' = mapNodeState
  BY Zenon, FieldsOfS DEF Becomes, SameNodes
<1>5. \A p \in Peers : net'[p] = "new" => node'[p].thinblock.blocks = {}
  BY Zenon, FieldsOfS DEF Becomes, SameNodes, NetOK, SameNet, HasState
<1>6. mapNodeState' = {p \in Peers : net'[p] \in HasState}
  BY <1>4, SMTT(30) DEF NetOK, SameNet
<1>7. TotalsOK'
  <2>1. Surplus(S') = Surplus(S) /\ Tallied(S')
    BY Zenon, <1>2 DEF SameNodes, SameTotals, NetOK, TotalsOK
  <2>2. (\A p \in Peers : net'[p] # "gone") => \A p \in Peers : net[p] # "gone"
    BY Zenon DEF SameNet, Networks, HasState
  <2> QED
    BY Zenon, <2>1, <2>2 DEF NetOK, TotalsOK
<1> QED
  BY SMT, ZenonT(30), <1>3, <1>4, <1>5, <1>6, <1>7 DEF NetOK, SameNet

\* A handler leaves the connections alone.
LEMMA SameNetIfUnchanged ==
  ASSUME NetOK, UNCHANGED net
  PROVE  SameNet
  BY SMTT(30) DEF NetOK, SameNet

\* A peer that comes up, or is to be disconnected, keeps its state.
LEMMA SameNetIfClosing ==
  ASSUME NetOK, NEW p \in Peers, net[p] \in HasState, NEW x \in {"up", "closing"},
         net' = [net EXCEPT ![p] = x]
  PROVE  SameNet
  BY DEF NetOK, SameNet, HasState, Networks

\* The loop stays as it is.
LEMMA LoopKept ==
  ASSUME LoopOK, UNCHANGED loop, mapNodeState' = mapNodeState
  PROVE  LoopOK'
  BY DEF LoopOK, Requests, Receipts, Stops

\* stopAllWork loops over the blocks of a worker, or there are none.
LEMMA StopLoop ==
  ASSUME NEW s, NEW p \in Peers
  PROVE  StopAllWork(s, p) = NULL \/ StopAllWork(s, p) \in Stops
  BY DEF StopAllWork, Stops

\* A step that goes on without a loop, or in the one it is in.
LEMMA PlainStep ==
  ASSUME IInv, SameNet, NEW t, Good(t), SameNodes(S, t), Becomes(t),
         UNCHANGED loop \/ loop' = NULL \/ loop' \in Stops
  PROVE  IInv'
<1>1. Good(S)' /\ NetOK' /\ mapNodeState' = mapNodeState
  BY GoodStep, SMTT(30) DEF IInv
<1>2. LoopOK'
  <2>1. CASE UNCHANGED loop
    BY <1>1, <2>1, LoopKept, SMTT(30) DEF IInv
  <2>2. CASE loop' = NULL \/ loop' \in Stops
    BY <2>2, SMTT(30) DEF LoopOK, Stops
  <2> QED
    BY <2>1, <2>2, SMTT(30)
<1> QED
  BY <1>1, <1>2, SMTT(30) DEF IInv

\* A peer whose messages are handled has a state.
LEMMA HandledPeer ==
  ASSUME IInv, NEW p \in Peers, Handling(p)
  PROVE  p \in S.mapNodeState /\ p \in mapNodeState /\ net[p] \in HasState /\ loop = NULL
  BY FieldsOfS, SMTT(30) DEF IInv, NetOK, Handling, HasState

\* It is still there once the handler has worked on the tables.
LEMMA HandledIn ==
  ASSUME IInv, NEW p \in Peers, Handling(p), NEW t, SameNodes(S, t)
  PROVE  p \in t.mapNodeState
<1>1. p \in S.mapNodeState
  BY HandledPeer, Zenon
<1>2. t.mapNodeState = S.mapNodeState
  BY Zenon DEF SameNodes
<1> QED
  BY <1>1, <1>2, Zenon

\* ProcessNewBlock, of a full block or a thin one.
LEMMA ProcessStep ==
  ASSUME IInv, SameNet, NEW s, Good(s), SameNodes(S, s), NEW b \in Blocks,
         NEW force \in BOOLEAN, NEW checked \in BOOLEAN, NEW thin \in BOOLEAN,
         ProcessNewBlock(s, b, force, checked, thin)
  PROVE  IInv'
<1>1. CASE isInFlight(s, b)
  <2>1. /\ Becomes(s)
        /\ loop' = [op |-> "received", hash |-> b, force |-> force, checked |-> checked,
                    thin |-> thin]
    BY <1>1, SMTT(30) DEF ProcessNewBlock
  <2>2. Good(S)' /\ NetOK' /\ mapNodeState' = mapNodeState
    BY <2>1, GoodStep, SMTT(30) DEF IInv
  <2>3. LoopOK'
    BY <2>1, SMTT(30) DEF LoopOK, Receipts
  <2> QED
    BY <2>2, <2>3 DEF IInv
<1>2. CASE ~ isInFlight(s, b)
  <2> DEFINE d == Processed(s, b, FALSE, force, checked, thin)
  <2>1. PICK x \in BestTips(d) : Becomes([d EXCEPT !.tip = x])
    BY <1>2, Zenon DEF ProcessNewBlock
  <2>2. loop' = NULL
    BY <1>2 DEF ProcessNewBlock
  <2>3. Good(d) /\ SameNodes(s, d)
    BY ProcessedGood, Zenon
  <2> HIDE DEF d
  <2> DEFINE t == [d EXCEPT !.tip = x]
  <2>4. Good(t) /\ SameNodes(d, t)
    BY <2>3, TipGood, SMTT(30)
  <2>5. Becomes(t)
    BY <2>1, SMTT(30)
  <2> HIDE DEF t
  <2>6. SameNodes(S, t)
    BY <2>3, <2>4, SameNodesTransitive, SMTT(30)
  <2> QED
    BY Zenon, <2>2, <2>4, <2>5, <2>6, PlainStep
<1> QED
  BY <1>1, <1>2, SMTT(30)

-----------------------------------------------------------------------------
(* Connections *)

\* InitializeNode.
LEMMA InitializeStep ==
  ASSUME IInv, NEW p \in Peers, InitializeNode(p)
  PROVE  IInv'
<1> DEFINE t == WithNewPeer(S, p)
<1>1. net[p] = "new" /\ net' = [net EXCEPT ![p] = "connected"] /\ UNCHANGED loop
  BY DEF InitializeNode
<1>2. Becomes(t)
  BY SMTT(30) DEF InitializeNode, WithNewPeer
<1>3. p \notin S.mapNodeState /\ S.node[p].thinblock.blocks = {}
  BY Zenon, <1>1, FieldsOfS DEF IInv, NetOK, HasState
<1>4. /\ Good(t) /\ t.mapNodeState = S.mapNodeState \cup {p}
      /\ \A r \in Peers : t.node[r].thinblock.blocks = S.node[r].thinblock.blocks
      /\ SameTotals(S, t)
  BY Zenon, <1>3, InitializedGood DEF IInv
<1> HIDE DEF t
<1>5. S' = t
  BY Zenon, <1>2, <1>4, NextTables DEF Good, Sound
<1>6. Good(S)'
  BY Zenon, <1>4, <1>5
<1>7. /\ mapNodeState' = mapNodeState \cup {p}
      /\ \A r \in Peers : node'[r].thinblock.blocks = node[r].thinblock.blocks
  BY Zenon, <1>2, <1>4, FieldsOfS DEF Becomes
<1>8. TotalsOK'
  <2>1. Surplus(S') = Surplus(S) /\ Tallied(S')
    BY Zenon, <1>4, <1>5 DEF SameTotals, IInv, NetOK, TotalsOK
  <2>2. (\A r \in Peers : net'[r] # "gone") => \A r \in Peers : net[r] # "gone"
    BY Zenon, <1>1 DEF IInv, NetOK
  <2> QED
    BY Zenon, <2>1, <2>2 DEF IInv, NetOK, TotalsOK
<1>9. NetOK'
  BY Zenon, <1>1, <1>7, <1>8 DEF IInv, NetOK, HasState, Networks
<1>10. LoopOK'
  BY Zenon, <1>1, <1>7 DEF IInv, LoopOK, Requests, Receipts, Stops
<1> QED
  BY <1>6, <1>9, <1>10, SMTT(30) DEF IInv

\* FinalizeNode.
LEMMA FinalizeStep ==
  ASSUME IInv, NEW p \in Peers, FinalizeNode(p)
  PROVE  IInv'
<1> DEFINE t == Finalized(S, p)
<1>1. /\ net[p] = "closing" /\ net' = [net EXCEPT ![p] = "gone"]
      /\ loop' = StopAllWork(S, p) /\ Becomes(t)
  BY SMTT(30) DEF FinalizeNode
<1>2. p \in S.mapNodeState
  BY Zenon, <1>1, FieldsOfS DEF IInv, NetOK, HasState
<1>3. /\ Good(t) /\ t.mapNodeState = S.mapNodeState \ {p}
      /\ \A r \in Peers : t.node[r].thinblock.blocks = S.node[r].thinblock.blocks
      /\ Tallied(S) => Tallied(t)
      /\ Surplus(t) \in Int /\ Surplus(t) >= Surplus(S)
  BY Zenon, <1>2, FinalizedGood DEF IInv
<1> HIDE DEF t
<1>4. S' = t
  BY Zenon, <1>1, <1>3, NextTables DEF Good, Sound
<1>5. Good(S)'
  BY Zenon, <1>3, <1>4
<1>6. /\ mapNodeState' = mapNodeState \ {p}
      /\ \A r \in Peers : node'[r].thinblock.blocks = node[r].thinblock.blocks
  BY Zenon, <1>1, <1>3, FieldsOfS DEF Becomes
<1>7. TotalsOK'
  <2>1. Tallied(S) /\ Surplus(S) \in Int /\ Surplus(S) >= 0
    BY Zenon DEF IInv, NetOK, TotalsOK
  <2>2. Tallied(S') /\ Surplus(S') \in Int /\ Surplus(S') >= 0
    BY <1>3, <1>4, <2>1
  <2>3. net'[p] = "gone"
    BY Zenon, <1>1 DEF IInv, NetOK
  <2> QED
    BY Zenon, <2>2, <2>3 DEF TotalsOK
<1>8. NetOK'
  BY Zenon, <1>1, <1>6, <1>7 DEF IInv, NetOK, HasState, Networks
<1>9. LoopOK'
  BY Zenon, <1>1, StopLoop DEF LoopOK, Stops
<1> QED
  BY <1>5, <1>8, <1>9 DEF IInv

\* A step that leaves the tables alone.
LEMMA StillStep ==
  ASSUME IInv, SameNet, UNCHANGED tables, UNCHANGED loop \/ loop' = NULL \/ loop' \in Stops
  PROVE  IInv'
<1>1. Becomes(S)
  BY Zenon, FieldsOfS DEF tables, Becomes
<1>2. Good(S) /\ SameNodes(S, S)
  BY Zenon, SameNodesReflexive DEF IInv
<1> QED
  BY Zenon, <1>1, <1>2, PlainStep

\* The version message.
LEMMA VersionStep ==
  ASSUME IInv, NEW p \in Peers, Version(p)
  PROVE  IInv'
<1> DEFINE v == p \notin XThinPeers
           s == WithDummy(S, p, v)
           t == UpdatePreferredDownload(s, p)
<1>1. v \in BOOLEAN
  OBVIOUS
<1>2. s = [S EXCEPT !.node[p].thinblock.dummy = v]
  BY DEF WithDummy
<1>3. /\ net[p] = "connected" /\ UNCHANGED loop
      /\ \/ net' = [net EXCEPT ![p] = "up"] /\ Becomes(t)
         \/ net' = [net EXCEPT ![p] = "closing"] /\ Becomes(s)
  BY <1>2 DEF Version
<1> HIDE DEF v
<1>4. Good(s) /\ SameNodes(S, s)
  BY <1>1, DummyGood, SMTT(30) DEF IInv
<1> HIDE DEF s
<1>5. p \in s.mapNodeState
  BY Zenon, <1>3, <1>4, FieldsOfS DEF IInv, NetOK, HasState, SameNodes
<1>6. Good(t) /\ SameNodes(S, t)
  BY Zenon, <1>4, <1>5, PreferenceGood, SameNodesTransitive
<1> HIDE DEF t
<1>7. SameNet
  BY Zenon, <1>3, SameNetIfClosing DEF IInv, HasState
<1> QED
  BY Zenon, <1>3, <1>4, <1>6, <1>7, PlainStep

\* A disconnection.
LEMMA DisconnectStep ==
  ASSUME IInv, NEW p \in Peers, Disconnect(p)
  PROVE  IInv'
<1>1. /\ net[p] \in HasState /\ net' = [net EXCEPT ![p] = "closing"]
      /\ UNCHANGED tables /\ UNCHANGED loop
  BY DEF Disconnect, HasState
<1>2. SameNet
  BY <1>1, SameNetIfClosing, ZenonT(30) DEF IInv
<1> QED
  BY Zenon, <1>1, <1>2, StillStep

-----------------------------------------------------------------------------
(* Messages *)

\* sendcmpct.
LEMMA SendCmpctStep ==
  ASSUME IInv, NEW p \in Peers, SendCmpct(p)
  PROVE  IInv'
<1> DEFINE t == WithDummy(S, p, FALSE)
<1>1. Becomes(t) /\ loop' = StopAllWork(S, p) /\ UNCHANGED net
  BY DEF SendCmpct, WithDummy
<1>2. Good(t) /\ SameNodes(S, t)
  BY DummyGood, Zenon DEF IInv
<1> HIDE DEF t
<1>3. SameNet
  BY <1>1, SameNetIfUnchanged, SMTT(30) DEF IInv
<1>4. loop' = NULL \/ loop' \in Stops
  BY <1>1, StopLoop, SMTT(30)
<1> QED
  BY Zenon, <1>1, <1>2, <1>3, <1>4, PlainStep

\* unexpectedThinError.
LEMMA UnexpectedThinErrorStep ==
  ASSUME IInv, NEW p \in Peers, UnexpectedThinError(p)
  PROVE  IInv'
<1>1. UNCHANGED tables /\ loop' = StopAllWork(S, p) /\ UNCHANGED net
  BY DEF UnexpectedThinError
<1>2. SameNet
  BY <1>1, SameNetIfUnchanged, SMTT(30) DEF IInv
<1>3. loop' = NULL \/ loop' \in Stops
  BY <1>1, StopLoop, SMTT(30)
<1> QED
  BY <1>1, <1>2, <1>3, StillStep, SMTT(30)

\* inv.
LEMMA InvStep ==
  ASSUME IInv, NEW p \in Peers, NEW b \in Blocks, NEW almost \in BOOLEAN, Inv(p, b, almost)
  PROVE  IInv'
<1> DEFINE s == UpdateBlockAvailability(S, p, b)
           t == IF WantsNow(s, p, b, almost) THEN RequestBlock(s, p, b, FALSE) ELSE s
<1>1. Becomes(t) /\ UNCHANGED <<net, loop>> /\ Handling(p)
  BY Zenon DEF Inv
<1>2. Good(s) /\ SameNodes(S, s)
  BY AvailabilityGood, SMTT(30) DEF IInv
<1>3. p \in s.mapNodeState
  BY <1>1, <1>2, HandledIn, Zenon
<1> HIDE DEF s
<1>4. Good(t) /\ SameNodes(s, t)
  BY <1>2, <1>3, RequestGood, SameNodesReflexive, ZenonT(30)
<1> HIDE DEF t
<1>5. SameNet
  BY <1>1, SameNetIfUnchanged, SMTT(30) DEF IInv
<1> QED
  BY Zenon, <1>1, <1>2, <1>4, <1>5, SameNodesTransitive, PlainStep

\* headers.
LEMMA HeadersStep ==
  ASSUME IInv, NEW p \in Peers, NEW b \in Blocks, NEW first \in Blocks, NEW almost \in BOOLEAN,
         Headers(p, first, b, almost)
  PROVE  IInv'
<1> DEFINE s == AcceptHeaders(S, p, first, b)
           u == CannotConnect(S, p, first, TRUE)
           todo == findMissingBlocks(s, b)
           r == [op |-> "request", node |-> p, todo |-> todo, direct |-> TRUE]
<1>1. Handling(p) /\ UNCHANGED net
  BY Zenon DEF Headers
<1>2. \/ Becomes(u) /\ UNCHANGED loop
      \/ Becomes(s) /\ (loop' = NULL \/ loop' = r)
  BY Zenon DEF Headers
<1>3. SameNet
  BY <1>1, SameNetIfUnchanged, SMTT(30) DEF IInv
<1>4. Good(u) /\ SameNodes(S, u)
  BY CannotConnectGood, ZenonT(30) DEF IInv
<1>5. Good(s) /\ SameNodes(S, s)
  BY HeadersGood, SMTT(30) DEF IInv
<1>6. todo \in SUBSET Blocks
  BY TreeAssumption, ZenonT(30) DEF findMissingBlocks, Missing
<1> HIDE DEF s, u, todo
<1>7. CASE Becomes(u) /\ UNCHANGED loop
  BY Zenon, <1>3, <1>4, <1>7, PlainStep
<1>8. CASE Becomes(s) /\ loop' = NULL
  BY Zenon, <1>3, <1>5, <1>8, PlainStep
<1>9. CASE Becomes(s) /\ loop' = r
  <2>1. Good(S)' /\ NetOK' /\ mapNodeState' = mapNodeState
    BY Zenon, <1>3, <1>5, <1>9, GoodStep DEF IInv
  <2>2. p \in mapNodeState'
    BY Zenon, <2>1, <1>1, HandledPeer
  <2>3. LoopOK'
    BY <2>2, <1>6, <1>9, SMTT(30) DEF LoopOK, Requests
  <2> QED
    BY Zenon, <2>1, <2>3 DEF IInv
<1> QED
  BY <1>2, <1>7, <1>8, <1>9, ZenonT(30)

\* block.
LEMMA BlockStep ==
  ASSUME IInv, NEW p \in Peers, NEW b \in Blocks, NEW ok \in BOOLEAN, NEW force \in BOOLEAN,
         Block(p, b, ok, force)
  PROVE  IInv'
<1> DEFINE s == CannotConnect(S, p, b, TRUE)
           w == stopWork(s, p, b)
           t == InFlightEraser(w, {p}, b)
<1>1. /\ UNCHANGED net
      /\ \/ Becomes(t) /\ UNCHANGED loop
         \/ ProcessNewBlock(S, b, force, ok, FALSE)
  BY ZenonT(30) DEF Block
<1>2. SameNet
  BY <1>1, SameNetIfUnchanged, SMTT(30) DEF IInv
<1>3. Good(s) /\ SameNodes(S, s)
  BY CannotConnectGood, ZenonT(30) DEF IInv
<1> HIDE DEF s
<1>4. Good(w) /\ SameNodes(S, w)
  BY Zenon, <1>3, StopGood, SameNodesTransitive
<1> HIDE DEF w
<1>5. Good(t) /\ SameNodes(S, t)
  BY Zenon, <1>4, EraseGood, SameNodesTransitive
<1> HIDE DEF t
<1>6. CASE Becomes(t) /\ UNCHANGED loop
  BY Zenon, <1>2, <1>5, <1>6, PlainStep
<1>7. CASE ProcessNewBlock(S, b, force, ok, FALSE)
  BY <1>2, <1>7, ProcessStep, SameNodesReflexive, ZenonT(30) DEF IInv
<1> QED
  BY <1>1, <1>6, <1>7, ZenonT(30)

\* buildStub finds a builder for a block that is worked on.
LEMMA BuilderFound ==
  ASSUME NEW s, Good(s), NEW p \in Peers, NEW b \in Blocks, isWorkingOn(s, p, b)
  PROVE  s.builders[b] # NULL
<1>1. p \in WorkersOf(s, b)
  BY SMTT(30) DEF WorkersOf
<1>2. KnownTo(s.builders[b], WorkersOf(s, b))
  BY DEF Good, Sound, WorkersSound
<1> QED
  BY Zenon, <1>1, <1>2, NullAssumption DEF KnownTo, Builder

\* xthinblock, cmpctblock.
LEMMA ThinBlockStep ==
  ASSUME IInv, NEW p \in Peers, NEW b \in Blocks, NEW outcome \in Outcomes,
         NEW force \in BOOLEAN, NEW bump \in BOOLEAN, ThinBlock(p, b, outcome, force, bump)
  PROVE  IInv'
<1> DEFINE k == AcceptHeaders(S, p, b, b)
           s == setToWork(k, p, b)
           stub == WithStub(s, b)
           w == stopWork(S, p, b)
           x == stopWork(s, p, b)
           r == removeIfExists(s, b)
<1>1. Handling(p) /\ UNCHANGED net
  BY DEF ThinBlock
<1>2. SameNet
  BY <1>1, SameNetIfUnchanged, SMTT(30) DEF IInv
<1>3. Good(k) /\ SameNodes(S, k)
  BY HeadersGood, SMTT(30) DEF IInv
<1>4. p \in k.mapNodeState
  BY <1>1, <1>3, HandledIn, Zenon
<1>5. Good(w) /\ SameNodes(S, w)
  BY Zenon, StopGood DEF IInv
<1>6. Good(s) /\ SameNodes(S, s)
  <2> HIDE DEF k
  <2> QED
    BY Zenon, <1>3, <1>4, SetToWorkGood, SameNodesTransitive
<1>7. \/ Becomes(w) /\ UNCHANGED loop
      \/ Becomes(stopWork(CannotConnect(S, p, b, bump), p, b)) /\ UNCHANGED loop
      \/ IF ~ isWorkingOn(s, p, b) THEN Becomes(s) /\ UNCHANGED loop
         ELSE \/ s.builders[b] = NULL
              \/ s.builders[b] # NULL /\ Becomes(stub) /\ UNCHANGED loop
              \/ (Becomes(r) \/ Becomes(x)) /\ UNCHANGED loop
              \/ s.builders[b] # NULL /\ ProcessNewBlock(stub, b, force, TRUE, TRUE)
  BY Zenon DEF ThinBlock, WithStub, Outcomes
<1> HIDE DEF s, w
<1>8. Good(x) /\ SameNodes(S, x) /\ Good(r) /\ SameNodes(S, r)
  BY Zenon, <1>6, StopGood, RemoveGood, SameNodesTransitive
<1>9. s.builders[b] # NULL => Good(stub) /\ SameNodes(S, stub)
  BY Zenon, <1>6, StubGood, SameNodesTransitive
<1> HIDE DEF x, r, stub
<1>10. CASE Becomes(w) /\ UNCHANGED loop
  BY Zenon, <1>2, <1>5, <1>10, PlainStep
<1>11. CASE Becomes(stopWork(CannotConnect(S, p, b, bump), p, b)) /\ UNCHANGED loop
  <2> DEFINE u == CannotConnect(S, p, b, bump)
             t == stopWork(u, p, b)
  <2>1. Good(u) /\ SameNodes(S, u)
    BY Zenon, CannotConnectGood DEF IInv
  <2>2. Becomes(t)
    BY <1>11, SMTT(30)
  <2> HIDE DEF u
  <2>3. Good(t) /\ SameNodes(S, t)
    BY Zenon, <2>1, StopGood, SameNodesTransitive
  <2> HIDE DEF t
  <2> QED
    BY Zenon, <2>2, <2>3, <1>2, <1>11, PlainStep
<1>12. CASE (Becomes(s) \/ Becomes(r) \/ Becomes(x)) /\ UNCHANGED loop
  BY Zenon, <1>2, <1>6, <1>8, <1>12, PlainStep
<1>13. CASE s.builders[b] # NULL /\ Becomes(stub) /\ UNCHANGED loop
  BY Zenon, <1>2, <1>9, <1>13, PlainStep
<1>14. CASE s.builders[b] # NULL /\ ProcessNewBlock(stub, b, force, TRUE, TRUE)
  BY <1>2, <1>9, <1>14, ProcessStep, ZenonT(30)
<1>15. isWorkingOn(s, p, b) => s.builders[b] # NULL
  BY <1>6, BuilderFound, SMTT(30)
<1> QED
  BY ZenonT(30), <1>7, <1>10, <1>11, <1>12, <1>13, <1>14, <1>15

\* xblocktx, blocktxn.
LEMMA ReRequestStep ==
  ASSUME IInv, NEW p \in Peers, NEW b \in Blocks, NEW outcome \in Outcomes,
         NEW force \in BOOLEAN, ReRequestResponse(p, b, outcome, force)
  PROVE  IInv'
<1> DEFINE w == stopWork(S, p, b)
           r == removeIfExists(S, b)
           m == MarkBlockAsInFlight(w, p, b, FALSE)
<1>1. /\ Handling(p) /\ UNCHANGED net
      /\ \/ ProcessNewBlock(S, b, force, TRUE, TRUE)
         \/ (Becomes(r) \/ Becomes(m) \/ Becomes(w)) /\ UNCHANGED loop
  BY Zenon DEF ReRequestResponse
<1>2. SameNet
  BY Zenon, <1>1, SameNetIfUnchanged DEF IInv
<1>3. Good(w) /\ SameNodes(S, w) /\ Good(r) /\ SameNodes(S, r)
  BY StopGood, RemoveGood, SMTT(30) DEF IInv
<1> HIDE DEF w, r
<1>4. p \in w.mapNodeState
  BY <1>1, <1>3, HandledIn, Zenon
<1>5. Good(m) /\ SameNodes(S, m)
  BY <1>3, <1>4, MarkGood, SameNodesTransitive, ZenonT(30)
<1> HIDE DEF m
<1>6. CASE ProcessNewBlock(S, b, force, TRUE, TRUE)
  BY <1>2, <1>6, ProcessStep, SameNodesReflexive, ZenonT(30) DEF IInv
<1>7. CASE (Becomes(r) \/ Becomes(m) \/ Becomes(w)) /\ UNCHANGED loop
  BY Zenon, <1>2, <1>3, <1>5, <1>7, PlainStep
<1> QED
  BY <1>1, <1>6, <1>7, ZenonT(30)

-----------------------------------------------------------------------------
(* SendMessages *)

\* The two timeouts.
LEMMA TimeoutStep ==
  ASSUME IInv, NEW p \in Peers, NEW recent \in BOOLEAN,
         StallTimeout(p, recent) \/ \E b \in Blocks : BlockTimeout(p, b, recent)
  PROVE  IInv'
<1> DEFINE t == SyncStarted(p, recent)
<1>1. /\ Handling(p) /\ net' = [net EXCEPT ![p] = "closing"]
      /\ Becomes(t) /\ UNCHANGED loop
  BY SMTT(30) DEF StallTimeout, BlockTimeout, Late
<1>2. Good(t) /\ SameNodes(S, t)
  <2>1. p \in S.mapNodeState
    BY Zenon, <1>1, HandledPeer
  <2> QED
    BY <2>1, SyncGood DEF IInv
<1> HIDE DEF t
<1>3. SameNet
  BY <1>1, HandledPeer, SameNetIfClosing, Zenon DEF IInv
<1> QED
  BY Zenon, <1>1, <1>2, <1>3, PlainStep

\* The blocks that FindNextBlocksToDownload finds are blocks of the peer's branch.
LEMMA ToDownloadType ==
  ASSUME NEW s, Good(s), NEW p \in Peers
  PROVE  ToDownload(s, p) \in SUBSET Blocks
<1>1. CASE HasNews(s, p)
  <2>1. s.node[p].pindexBestKnownBlock \in Blocks
    BY Zenon, <1>1, WalkStartHad
  <2>2. \A n : Walked(s, p, n) \in SUBSET Blocks
    BY ZenonT(30), SMTT(30), <2>1, TreeAssumption DEF Walked
  <2> QED
    BY Zenon, <2>2 DEF ToDownload, Fetchable, Missing
<1>2. CASE ~ HasNews(s, p)
  BY <1>2, SMTT(30) DEF ToDownload
<1> QED
  BY Zenon, <1>1, <1>2

\* SendMessages.
LEMMA SendMessagesStep ==
  ASSUME IInv, NEW p \in Peers, NEW recent \in BOOLEAN, SendMessages(p, recent)
  PROVE  IInv'
<1> DEFINE s == SyncStarted(p, recent)
           t == Sent(p, recent)
           r == [op |-> "request", node |-> p, todo |-> ToDownload(s, p), direct |-> FALSE]
<1>1. Handling(p) /\ Becomes(t) /\ UNCHANGED net /\ (loop' = NULL \/ loop' = r)
  BY SMTT(30) DEF SendMessages, Requesting
<1>2. SameNet
  BY Zenon, <1>1, SameNetIfUnchanged DEF IInv
<1>3. p \in S.mapNodeState
  BY Zenon, <1>1, HandledPeer
<1>4. Good(s)
  BY <1>3, SyncGood DEF IInv
<1>5. Good(t) /\ SameNodes(S, t)
  BY <1>3, SentGood, SMTT(30) DEF IInv
<1> HIDE DEF s, t
<1>6. ToDownload(s, p) \in SUBSET Blocks
  BY Zenon, <1>4, ToDownloadType
<1>7. Good(S)' /\ NetOK' /\ mapNodeState' = mapNodeState
  BY Zenon, <1>1, <1>2, <1>5, GoodStep DEF IInv
<1>8. p \in mapNodeState'
  BY Zenon, <1>1, <1>7, HandledPeer
<1>9. LoopOK'
  <2> DEFINE todo == ToDownload(s, p)
  <2>1. todo \in SUBSET Blocks /\ (loop' = NULL \/ loop' = [op |-> "request", node |-> p,
                                                        todo |-> todo, direct |-> FALSE])
    BY <1>1, <1>6, SMTT(30)
  <2> HIDE DEF todo
  <2>2. CASE loop' = NULL
    BY <2>2, SMTT(30) DEF LoopOK
  <2>3. CASE loop' = [op |-> "request", node |-> p, todo |-> todo, direct |-> FALSE]
    BY SMT, ZenonT(30), <2>1, <2>3, <1>8 DEF LoopOK, Requests
  <2> QED
    BY Zenon, <2>1, <2>2, <2>3
<1> QED
  BY Zenon, <1>7, <1>9 DEF IInv

-----------------------------------------------------------------------------
(* Loops *)

\* The loop that requests blocks.
LEMMA RequestNextStep ==
  ASSUME IInv, RequestNext
  PROVE  IInv'
<1>1. loop # NULL /\ loop.op = "request" /\ UNCHANGED net
  BY SMTT(30) DEF RequestNext
<1>2. loop \in Requests
  BY <1>1 DEF IInv, LoopOK, Receipts, Stops
<1> DEFINE p == loop.node
<1>3. PICK b \in Lowest(loop.todo) :
        LET wanted == IF loop.direct THEN WantsNow(S, p, b, TRUE)
                      ELSE node[p].nBlocksInFlight < MAX_BLOCKS_IN_TRANSIT_PER_PEER
            left == loop.todo \ {b}
        IN /\ Becomes(IF wanted THEN RequestBlock(S, p, b, ~ loop.direct) ELSE S)
           /\ loop' = IF wanted /\ left # {} THEN [loop EXCEPT !.todo = left] ELSE NULL
  BY Zenon DEF RequestNext
<1> DEFINE v == ~ loop.direct
           t == RequestBlock(S, p, b, v)
           left == loop.todo \ {b}
<1>4. /\ Becomes(t) \/ Becomes(S)
      /\ loop' = NULL \/ loop' = [loop EXCEPT !.todo = left]
  BY <1>3, Zenon
<1>5. b \in Blocks /\ p \in S.mapNodeState /\ left \in SUBSET Blocks
  BY <1>2, FieldsOfS, SMTT(30) DEF Lowest, Requests
<1>6. v \in BOOLEAN
  BY Zenon
<1> HIDE DEF v
<1>7. Good(t) /\ SameNodes(S, t)
  BY Zenon, <1>5, <1>6, RequestGood DEF IInv
<1> HIDE DEF t
<1>8. SameNet
  BY <1>1, SameNetIfUnchanged, SMTT(30) DEF IInv
<1>9. Good(S)' /\ NetOK' /\ mapNodeState' = mapNodeState
  BY Zenon, <1>4, <1>7, <1>8, GoodStep, SameNodesReflexive DEF IInv
<1>10. LoopOK'
  <2>1. CASE loop' = NULL
    BY <2>1, SMTT(30) DEF LoopOK
  <2>2. CASE loop' = [loop EXCEPT !.todo = left]
    <3>1. loop' \in Requests
      BY <2>2, <1>2, <1>5, SMTT(30) DEF Requests
    <3> QED
      BY <3>1, <1>9, SMTT(30) DEF LoopOK, Requests
  <2> QED
    BY Zenon, <2>1, <2>2, <1>4
<1> QED
  BY <1>9, <1>10, SMTT(30) DEF IInv

\* The loop of MarkBlockAsReceived.
LEMMA ReceivedNextStep ==
  ASSUME IInv, ReceivedNext
  PROVE  IInv'
<1>1. loop # NULL /\ loop.op = "received" /\ UNCHANGED net
  BY DEF ReceivedNext
<1>2. loop \in Receipts
  BY <1>1 DEF IInv, LoopOK, Requests, Stops
<1> DEFINE b == loop.hash
           d == Processed(S, b, TRUE, loop.force, loop.checked, loop.thin)
<1>3. b \in Blocks
  BY <1>2 DEF Receipts
<1>4. SameNet
  BY <1>1, SameNetIfUnchanged, SMTT(30) DEF IInv
<1>5. \/ \E p \in nodesWithQueued(S, b) : Becomes(InFlightEraser(S, {p}, b)) /\ UNCHANGED loop
      \/ \E x \in BestTips(d) : Becomes([d EXCEPT !.tip = x]) /\ loop' = NULL
  BY Zenon DEF ReceivedNext
<1>6. ASSUME NEW p \in nodesWithQueued(S, b), Becomes(InFlightEraser(S, {p}, b)), UNCHANGED loop
      PROVE  IInv'
  <2> DEFINE t == InFlightEraser(S, {p}, b)
  <2>1. p \in Peers
    BY SMTT(30) DEF nodesWithQueued
  <2>2. Good(t) /\ SameNodes(S, t)
    BY Zenon, <2>1, <1>3, EraseGood DEF IInv
  <2>3. Becomes(t)
    BY <1>6
  <2> HIDE DEF t
  <2> QED
    BY Zenon, <2>2, <2>3, <1>4, <1>6, PlainStep
<1>7. ASSUME NEW x \in BestTips(d), Becomes([d EXCEPT !.tip = x]), loop' = NULL
      PROVE  IInv'
  <2>1. Good(d) /\ SameNodes(S, d)
    <3>1. loop.force \in BOOLEAN /\ loop.checked \in BOOLEAN /\ loop.thin \in BOOLEAN
      BY <1>2 DEF Receipts
    <3> QED
      BY <3>1, <1>3, ProcessedGood, Zenon DEF IInv
  <2> HIDE DEF d
  <2> DEFINE t == [d EXCEPT !.tip = x]
  <2>2. Good(t) /\ SameNodes(d, t)
    BY Zenon, <2>1, <1>7, TipGood
  <2>3. Becomes(t)
    BY <1>7, SMTT(30)
  <2> HIDE DEF t
  <2>4. SameNodes(S, t)
    BY Zenon, <2>1, <2>2, SameNodesTransitive
  <2> QED
    BY ZenonT(30), SMTT(30), <2>2, <2>3, <2>4, <1>4, <1>7, PlainStep
<1> QED
  BY <1>5, <1>6, <1>7, Zenon

\* The loop of stopAllWork.
LEMMA StopNextStep ==
  ASSUME IInv, StopNext
  PROVE  IInv'
<1>1. loop # NULL /\ loop.op = "stop" /\ UNCHANGED net
  BY SMTT(30) DEF StopNext
<1>2. loop \in Stops
  BY <1>1 DEF IInv, LoopOK, Requests, Receipts
<1> DEFINE p == loop.node
<1>3. p \in Peers
  BY Zenon, <1>2 DEF Stops
<1>4. PICK b \in node[p].thinblock.blocks :
        Becomes(stopWork(S, p, b)) /\ loop' = StopAllWork(stopWork(S, p, b), p)
  BY Zenon DEF StopNext
<1>5. b \in Blocks
  <2>1. S \in Tables
    BY Zenon DEF IInv, Good, Sound
  <2> HIDE DEF p
  <2>2. node[p] \in NodeState
    BY Zenon, <2>1, <1>3, FieldsOfS, TableTypes
  <2> QED
    BY Zenon, <2>2 DEF NodeState
<1> HIDE DEF p
<1> DEFINE t == stopWork(S, p, b)
<1>6. Good(t) /\ SameNodes(S, t)
  BY <1>3, <1>5, StopGood, ZenonT(30) DEF IInv
<1>7. Becomes(t) /\ loop' = StopAllWork(t, p)
  BY Zenon, <1>4
<1> HIDE DEF t
<1>8. loop' = NULL \/ loop' \in Stops
  BY Zenon, <1>3, <1>7, StopLoop
<1>9. SameNet
  BY <1>1, SameNetIfUnchanged, ZenonT(30) DEF IInv
<1> QED
  BY Zenon, <1>6, <1>7, <1>8, <1>9, PlainStep

-----------------------------------------------------------------------------
(* The theorems *)

\* Every step keeps the invariant.
LEMMA NextOK == IInv /\ [Next]_vars => IInv'
<1> SUFFICES ASSUME IInv, [Next]_vars PROVE IInv'
  OBVIOUS
<1>1. CASE UNCHANGED vars
  <2>1. UNCHANGED tables /\ UNCHANGED net /\ UNCHANGED loop
    BY <1>1, SMTT(30) DEF vars
  <2> QED
    BY SMT, ZenonT(30), <2>1, StillStep, SameNetIfUnchanged DEF IInv
<1>2. CASE RequestNext
  BY <1>2, RequestNextStep, SMTT(30)
<1>3. CASE ReceivedNext
  BY Zenon, <1>3, ReceivedNextStep
<1>4. CASE StopNext
  BY <1>4, StopNextStep
<1>5. CASE LeaveInitialDownload
  <2>1. UNCHANGED tables /\ UNCHANGED net /\ UNCHANGED loop
    BY <1>5, SMTT(30) DEF LeaveInitialDownload
  <2> QED
    BY <2>1, StillStep, SameNetIfUnchanged DEF IInv
<1>6. ASSUME NEW p \in Peers,
             \/ InitializeNode(p) \/ Version(p) \/ Disconnect(p) \/ FinalizeNode(p)
             \/ SendCmpct(p) \/ UnexpectedThinError(p)
      PROVE  IInv'
  BY ZenonT(30), SMTT(30), <1>6, InitializeStep, VersionStep, DisconnectStep, FinalizeStep, SendCmpctStep,
     UnexpectedThinErrorStep
<1>7. ASSUME NEW p \in Peers, NEW recent \in BOOLEAN,
             \/ SendMessages(p, recent) \/ StallTimeout(p, recent)
             \/ \E b \in Blocks : BlockTimeout(p, b, recent)
      PROVE  IInv'
  BY <1>7, SendMessagesStep, TimeoutStep, Zenon
<1>8. ASSUME NEW p \in Peers, NEW b \in Blocks, NEW almost \in BOOLEAN,
             \/ Inv(p, b, almost)
             \/ \E first \in ChainOf[b] \ {Genesis} : Headers(p, first, b, almost)
      PROVE  IInv'
  <2>1. CASE Inv(p, b, almost)
    BY Zenon, <2>1, InvStep
  <2>2. ASSUME NEW first \in ChainOf[b] \ {Genesis}, Headers(p, first, b, almost)
        PROVE  IInv'
    <3>1. first \in Blocks
      BY Zenon, TreeAssumption
    <3> QED
      BY Zenon, <3>1, <2>2, HeadersStep
  <2> QED
    BY <2>1, <2>2, <1>8, ZenonT(30)
<1>9. ASSUME NEW p \in Peers, NEW b \in Blocks, NEW force \in ForceProcessing,
             \/ \E ok \in BOOLEAN : Block(p, b, ok, force)
             \/ \E outcome \in Outcomes : \/ XThinBlock(p, b, outcome, force)
                                          \/ CmpctBlock(p, b, outcome, force)
                                          \/ ReRequestResponse(p, b, outcome, force)
      PROVE  IInv'
  <2>1. force \in BOOLEAN
    BY Zenon DEF ForceProcessing
  <2>2. ASSUME NEW ok \in BOOLEAN, Block(p, b, ok, force) PROVE IInv'
    BY Zenon, <2>1, <2>2, BlockStep
  <2>3. ASSUME NEW outcome \in Outcomes,
               XThinBlock(p, b, outcome, force) \/ CmpctBlock(p, b, outcome, force)
        PROVE  IInv'
    <3>1. \E bump \in BOOLEAN : ThinBlock(p, b, outcome, force, bump)
      BY Zenon, <2>3 DEF XThinBlock, CmpctBlock
    <3> QED
      BY Zenon, <2>1, <3>1, ThinBlockStep
  <2>4. ASSUME NEW outcome \in Outcomes, ReRequestResponse(p, b, outcome, force) PROVE IInv'
    BY Zenon, <2>1, <2>4, ReRequestStep
  <2> QED
    BY Zenon, <2>2, <2>3, <2>4, <1>9
<1> QED
  BY ZenonT(30), SMTT(30), <1>1, <1>2, <1>3, <1>4, <1>5, <1>6, <1>7, <1>8, <1>9 DEF Next

\* The invariant holds.
LEMMA AlwaysOK == Spec => []IInv
  BY InitOK, NextOK, PTL DEF Spec

\* The tables have their types, and exactly the connected peers have a CNodeState.
THEOREM TypesHold == Spec => []TypeOK
<1>1. IInv => TypeOK
  <2> SUFFICES ASSUME IInv PROVE TypeOK
    BY ZenonT(30)
  <2>1. /\ node \in [Peers -> NodeState] /\ inFlight \in [Peers -> Seq(QueuedBlock)]
        /\ builders \in [Blocks -> Builder \cup {NULL}]
        /\ mapBlockIndex \subseteq Blocks /\ haveData \subseteq Blocks /\ tip \in Blocks
    BY FieldsOfS, TableTypes, SMTT(30) DEF IInv, Good, Sound
  <2>2. ASSUME NEW p \in Peers
        PROVE  /\ node[p].vBlocksInFlight \in Seq(QueuedBlock)
               /\ node[p].thinblock.blocks \subseteq Blocks
    BY <2>1, SMTT(30) DEF NodeState
  <2>3. \A b \in Blocks : builders[b] = NULL \/ builders[b].workers \subseteq Peers
    BY Zenon, <2>1 DEF Builder
  <2> QED
    BY Zenon, <2>1, <2>2, <2>3 DEF IInv, NetOK, Networks, HasState, TypeOK
<1> QED
  BY <1>1, AlwaysOK, PTL

\* For every number of peers and every order of requests, arrivals, timeouts and
\* disconnections, the index that MarkBlockAsInFlight, InFlightEraserImpl and
\* FinalizeNode keep is the queues of the connected peers, and the counters of each
\* peer are those of its queue.
THEOREM IndexAlwaysMatches == Spec => []IndexMatchesQueues
<1>1. IInv => IndexMatchesQueues
  BY Zenon, FieldsOfS DEF IInv, Good, Sound, QueuesSound, Counted, Validated, IndexMatchesQueues
<1> QED
  BY <1>1, AlwaysOK, PTL

\* The thin block manager and the workers of the peers agree on who builds which
\* block, so that no assert of delWorker or buildStub fails.
THEOREM WorkersAlwaysAgree == Spec => []WorkersAgree
<1>1. IInv => WorkersAgree
  <2> SUFFICES ASSUME IInv PROVE WorkersAgree
    OBVIOUS
  <2>1. ~ aborted /\ \A b \in Blocks : KnownTo(builders[b], WorkersOf(S, b))
    BY ZenonT(30), FieldsOfS DEF IInv, Good, Sound, WorkersSound
  <2> QED
    BY Zenon, <2>1, NullAssumption DEF KnownTo, WorkersOf, Builder, WorkersAgree
<1> QED
  BY <1>1, AlwaysOK, PTL

\* FindNextBlocksToDownload moves pindexLastCommonBlock only over blocks that, with
\* all their ancestors, have been received, on every tree of blocks.
THEOREM LastCommonAlwaysHad == Spec => []LastCommonIsHad
<1>1. IInv => LastCommonIsHad
  BY FieldsOfS DEF IInv, Good, ChainsHad, LastCommonIsHad
<1> QED
  BY <1>1, AlwaysOK, PTL

\* nQueuedValidatedHeaders counts the validated blocks in flight, and more only once
\* FinalizeNode has deleted a peer; nPreferredDownload and nSyncStarted count the peers
\* with the flag: MarkBlockAsInFlight, the erasers, UpdatePreferredDownload,
\* SendMessages and FinalizeNode keep the totals.
THEOREM TotalsAlwaysAgree == Spec => []TotalsAgree
<1>1. IInv => TotalsAgree
  <2> SUFFICES ASSUME IInv PROVE TotalsAgree
    BY Zenon
  <2> DEFINE v == UNION {{p} \X {i \in DOMAIN inFlight[p] :
                                 inFlight[p][i].fValidatedHeaders} : p \in Peers}
  <2>1. /\ Tallied(S) /\ Surplus(S) >= 0
        /\ (\A p \in Peers : net[p] # "gone") => Surplus(S) = 0
    BY ZenonT(30) DEF IInv, NetOK, TotalsOK
  <2>2. S \in Tables /\ inFlight \in [Peers -> Seq(QueuedBlock)] /\ S.inFlight = inFlight
    BY FieldsOfS, TableTypes DEF IInv, Good, Sound
  <2>3. v = Entries(inFlight)
    BY ZenonT(30), <2>2, EntriesUnion DEF Validated
  <2>4. Cardinality(v) \in Nat /\ nQueuedValidatedHeaders \in Int
    BY ZenonT(30), <2>2, <2>3, EntriesFinite, TableTypes DEF S
  <2>5. Surplus(S) = nQueuedValidatedHeaders - Cardinality(v)
    BY <2>2, <2>3, Zenon DEF Surplus, S
  <2> HIDE DEF v
  <2>6. /\ nQueuedValidatedHeaders >= Cardinality(v)
        /\ (\A p \in Peers : net[p] # "gone") => nQueuedValidatedHeaders = Cardinality(v)
    BY <2>1, <2>4, <2>5
  <2>7. /\ nPreferredDownload = Cardinality({p \in mapNodeState : node[p].fPreferredDownload})
        /\ nSyncStarted = Cardinality({p \in mapNodeState : node[p].fSyncStarted})
    BY <2>1, Zenon DEF Tallied, S
  <2> QED
    BY <2>6, <2>7, Zenon DEF TotalsAgree, v
<1> QED
  BY AlwaysOK, <1>1, PTL

=============================================================================
