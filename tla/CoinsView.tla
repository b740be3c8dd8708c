----------------------------- MODULE CoinsView -----------------------------
(***************************************************************************)
(* What the stack of coin views promises: three maps from outpoints to     *)
(* unspent coins, each with the block it belongs to.  dbCoins is the       *)
(* chainstate database, tipCoins the state at the tip of the active chain, *)
(* viewCoins the state in which a block is being connected or             *)
(* disconnected.  There are no caches, no flags and no fetching.           *)
(***************************************************************************)
CONSTANTS
  Outpoints,    \* transaction outputs
  Coins,        \* unspent coins
  Spent,        \* no coin: spent, or never created
  Hashes,       \* block hashes
  NULL          \* the null hash

VARIABLES
  dbCoins, dbBest,        \* on disk
  tipCoins, tipBest,      \* pcoinsTip
  viewCoins, viewBest     \* the view of the block being processed

vars == <<dbCoins, dbBest, tipCoins, tipBest, viewCoins, viewBest>>

Init ==
  /\ dbCoins = [o \in Outpoints |-> Spent]
  /\ tipCoins = dbCoins /\ viewCoins = dbCoins
  /\ dbBest = NULL /\ tipBest = NULL /\ viewBest = NULL

Add(o, c) ==
  /\ viewCoins' = [viewCoins EXCEPT ![o] = c]
  /\ UNCHANGED <<dbCoins, dbBest, tipCoins, tipBest, viewBest>>

Spend(o) ==
  /\ viewCoins' = [viewCoins EXCEPT ![o] = Spent]
  /\ UNCHANGED <<dbCoins, dbBest, tipCoins, tipBest, viewBest>>

SetBest(h) ==
  /\ viewBest' = h
  /\ UNCHANGED <<dbCoins, dbBest, tipCoins, tipBest, viewCoins>>

\* The block is done: its changes and its hash reach the tip together.
Commit ==
  /\ tipCoins' = viewCoins /\ tipBest' = viewBest
  /\ UNCHANGED <<dbCoins, dbBest, viewCoins, viewBest>>

\* The block failed: nothing of it remains.
Discard ==
  /\ viewCoins' = tipCoins /\ viewBest' = tipBest
  /\ UNCHANGED <<dbCoins, dbBest, tipCoins, tipBest>>

\* The tip is written to disk.
Save ==
  /\ dbCoins' = tipCoins /\ dbBest' = tipBest
  /\ UNCHANGED <<tipCoins, tipBest, viewCoins, viewBest>>

Next ==
  \/ \E o \in Outpoints : Spend(o) \/ \E c \in Coins : Add(o, c)
  \/ \E h \in Hashes : SetBest(h)
  \/ Commit \/ Discard \/ Save

Spec == Init /\ [][Next]_vars
=============================================================================
