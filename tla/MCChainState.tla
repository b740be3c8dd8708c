---------------------------- MODULE MCChainState ----------------------------
(***************************************************************************)
(* Instances of ChainState.  Two branches fork at Genesis; x is created on *)
(* both of them at different heights, y on one of them only, and z stays   *)
(* on one branch and is created and spent in the same block b1 on the      *)
(* other.                                                                  *)
(***************************************************************************)
EXTENDS ChainState

CONSTANTS G, a1, a2, b1, b2, x, y, z

HeightIn(prev, bs) ==
  LET h[b \in bs] == IF b = G THEN 0 ELSE h[prev[b]] + 1 IN h
ChainIn(prev, bs) ==
  LET c[b \in bs] == IF b = G THEN {G} ELSE {b} \cup c[prev[b]] IN c
CoinsIn(prev, bs) ==
  LET u[b \in bs] == IF b = G THEN [o \in Outpoints |-> Spent]
                     ELSE ConnectCoins(b, u[prev[b]])
  IN u

Spending == [b \in {a1, a2, b1, b2} |-> CASE b = a2 -> {x} [] b = b1 -> {z} [] OTHER -> {}]
Creating == [b \in {a1, a2, b1, b2} |-> CASE b = a1 -> {x, z} [] b = a2 -> {y}
                                          [] b = b1 -> {z} [] b = b2 -> {x}]

\* G - a1 - a2, G - b1 - b2
ForkBlocks == {G, a1, a2, b1, b2}
ForkPrev == [b \in {a1, a2, b1, b2} |-> CASE b = a2 -> a1 [] b = b2 -> b1 [] OTHER -> G]
ForkHeight == HeightIn(ForkPrev, ForkBlocks)
ForkChain == ChainIn(ForkPrev, ForkBlocks)
ForkUTXO == CoinsIn(ForkPrev, ForkBlocks)
ForkSpends == Spending
ForkCreates == Creating

\* G - a1 - a2, G - b1
SmallBlocks == {G, a1, a2, b1}
SmallPrev == [b \in {a1, a2, b1} |-> IF b = a2 THEN a1 ELSE G]
SmallHeight == HeightIn(SmallPrev, SmallBlocks)
SmallChain == ChainIn(SmallPrev, SmallBlocks)
SmallUTXO == CoinsIn(SmallPrev, SmallBlocks)
SmallSpends == [b \in {a1, a2, b1} |-> Spending[b] \cap Outpoints]
SmallCreates == [b \in {a1, a2, b1} |-> Creating[b] \cap Outpoints]
=============================================================================
