SPECIFICATION SpecWithOperator
CONSTANTS
  G = G
  a1 = a1
  a2 = a2
  a3 = a3
  a4 = a4
  b1 = b1
  b2 = b2
  b3 = b3
  m = m
  r1 = r1
  r2 = r2
  Genesis = G
  NULL = NULL
  Blocks <- TiesBlocks
  Prev <- TiesPrev
  nHeight <- TiesHeight
  nChainWork <- TiesWork
  ChainOf <- TiesChain
  BadContext = {b3}
  Reconsidered = {a1}
  BadConnect = {a3}
  Corrupt = {}
  Callers = {r1}
  CsMainHolders = {}
  MinBlocksToKeep = 2
  PruneAfterHeight = 100
  MaxSequenceId = 8
  MaxFile = 0
INVARIANTS
  FailedHasCause
  ActiveChainValid
  CandidatesComplete
  FirstSeenActivated
