SPECIFICATION MemSpec
CONSTANTS
  NumBlocks = 5
  OwnHeader = FALSE
  HeaderSize = 2
  PoolStart = 3
  PoolSize = 11
  MinAlloc = 1
  Width = 0
  Sizes = {1, 2, 4}
  Aligns = {1, 4}
INVARIANTS
  HeadersTracked
  BlocksTilePool
  FreeListCoalesced
PROPERTIES
  ImplementsPool
