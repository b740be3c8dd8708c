----------------------------- MODULE MCBlockTree -----------------------------
(* Instances of BlockTree for TLC.  A tree is given by its parents and by    *)
(* the work of each block; heights, chain work and ancestors follow.         *)
EXTENDS BlockTree, TLC

CONSTANTS G, a1, a2, a3, a4, b1, b2, b3

HeightOf(prev) ==
  LET h[b \in DOMAIN prev \cup {G}] == IF b = G THEN 0 ELSE 1 + h[prev[b]] IN h

WorkOf(prev, proof) ==
  LET w[b \in DOMAIN prev \cup {G}] ==
        IF b = G THEN 1 ELSE w[prev[b]] + (IF b \in DOMAIN proof THEN proof[b] ELSE 1)
  IN w

ChainsOf(prev) ==
  LET c[b \in DOMAIN prev \cup {G}] == IF b = G THEN {b} ELSE {b} \cup c[prev[b]] IN c

\* Three blocks in a row, and a fork at the first by one heavy block.
ForkPrev == a1 :> G @@ a2 :> a1 @@ a3 :> a2 @@ b2 :> a1
ForkBlocks == {G} \cup DOMAIN ForkPrev
ForkHeight == HeightOf(ForkPrev)
ForkWork == WorkOf(ForkPrev, b2 :> 3)
ForkChain == ChainsOf(ForkPrev)

\* Two branches of the same work at every height, and a third block on each.
TiesPrev == a1 :> G @@ a2 :> a1 @@ a3 :> a2 @@ b2 :> a1 @@ b3 :> b2
TiesBlocks == {G} \cup DOMAIN TiesPrev
TiesHeight == HeightOf(TiesPrev)
TiesWork == WorkOf(TiesPrev, a3 :> 1)
TiesChain == ChainsOf(TiesPrev)

\* Two branches from the genesis block; the second one ends in a heavy block.
PrunePrev == a1 :> G @@ a2 :> a1 @@ a3 :> a2 @@ b1 :> G @@ b2 :> b1
PruneBlocks == {G} \cup DOMAIN PrunePrev
PruneHeight == HeightOf(PrunePrev)
PruneWork == WorkOf(PrunePrev, b2 :> 3)
PruneChain == ChainsOf(PrunePrev)
=============================================================================
