SPECIFICATION Spec
CONSTANTS
  G = G
  a1 = a1
  a2 = a2
  b1 = b1
  b2 = b2
  x = x
  y = y
  z = z
  Spent = Spent
  NULL = NULL
  Genesis = G
  Blocks <- SmallBlocks
  Prev <- SmallPrev
  nHeight <- SmallHeight
  ChainOf <- SmallChain
  UTXO <- SmallUTXO
  Spends <- SmallSpends
  Creates <- SmallCreates
  Outpoints = {x, y, z}
  MaxFile = 1
  fPruneMode = TRUE
  MinBlocksToKeep = 1
  PruneAfterHeight = 1
  PowerLosses = FALSE
  DiskErrors = {}
INVARIANTS
  RecoverySucceeds
