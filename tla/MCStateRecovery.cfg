SPECIFICATION FairSpec
CONSTANTS
  G = G
  a1 = a1
  a2 = a2
  b1 = b1
  b2 = b2
  x = x
  y = y
  z = z
  Spent = Spent
  NULL = NULL
  Genesis = G
  Blocks <- ForkBlocks
  Prev <- ForkPrev
  nHeight <- ForkHeight
  ChainOf <- ForkChain
  UTXO <- ForkUTXO
  Spends <- ForkSpends
  Creates <- ForkCreates
  Outpoints = {x, y, z}
  MaxFile = 0
  fPruneMode = FALSE
  MinBlocksToKeep = 1
  PruneAfterHeight = 1
  PowerLosses = TRUE
  DiskErrors = {}
INVARIANTS
  TypeOK
  DbConsistent
  TipConsistent
  RecoverySucceeds
  SameTransition
  IndexedUndoSafe
PROPERTIES
  StartEnds
