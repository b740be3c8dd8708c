SPECIFICATION Spec
CONSTANTS
  G = G
  a1 = a1
  a2 = a2
  a3 = a3
  a4 = a4
  b1 = b1
  b2 = b2
  b3 = b3
  m = m
  r1 = r1
  r2 = r2
  Genesis = G
  NULL = NULL
  Blocks <- PruneBlocks
  Prev <- PrunePrev
  nHeight <- PruneHeight
  nChainWork <- PruneWork
  ChainOf <- PruneChain
  BadContext = {}
  Reconsidered = {}
  BadConnect = {}
  Corrupt = {}
  Callers = {m}
  CsMainHolders = {m}
  MinBlocksToKeep = 1
  PruneAfterHeight = 1
  MaxSequenceId = 8
  MaxFile = 2
INVARIANTS
  StatusConsistent
  WaitingIsUnlinked
  UnlinkedIsWaiting
PROPERTIES
  PruneKeepsRecent
CHECK_DEADLOCK FALSE
