SPECIFICATION FairSpec3D
CONSTANTS
  NumTiles = 2
  QueueLength = 2
  FrameDepth = 1
  FrameHeight = 1
  FrameWidth = 2
  TileDepth = 1
  TileHeight = 1
  TileWidth = 2
  Edge = 1
  Pads = {0}
  Paddings = {"edge", "const"}
  Positions <- AllSides
  InOrder = TRUE
  BufferFails = FALSE
INVARIANTS
  TileShowsFrame
  TempReturned
PROPERTIES
  WaitEnds
