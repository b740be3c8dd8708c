SPECIFICATION Spec
CONSTANTS
  any = any
  timely = timely
  G = G
  a1 = a1
  a2 = a2
  NULL = NULL
  Peers = {any, timely}
  Blocks <- MCBlocks
  Genesis = G
  Prev <- MCPrev
  nHeight <- MCHeight
  nChainWork <- MCWork
  ChainOf <- MCChain
  XThinPeers = {any, timely}
  Preferred = {any, timely}
  Timely = {timely}
  Target = a2
  MAX_BLOCKS_IN_TRANSIT_PER_PEER = 2
  BLOCK_DOWNLOAD_WINDOW = 1
  MIN_BLOCKS_TO_KEEP = 1
  WALK_LIMIT = 3
  ThinBlocksMaxParallel = 2
  AvoidFullBlocks = FALSE
  AnnounceAhead = 1
  MaxUnasked = 2
INVARIANTS
  IndexMatchesQueues
  TotalsAgree
  WorkersAgree
  LastCommonIsHad
PROPERTIES
  RequestsEnd
  DownloadCompletes
