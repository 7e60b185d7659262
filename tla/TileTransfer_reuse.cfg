SPECIFICATION FairSpec
CONSTANTS
  NumTiles = 2
  QueueLength = 2
  Edged = {1}
  FrameHeight = 3
  FrameWidth = 3
  TileHeight = 1
  TileWidth = 1
  Edge = 1
  FramePads = {0}
  Paddings = {"edge"}
  PadSign = 128
  Vector = 64
  Xs = {5,6}
  Ys = {4,5}
  Origin = 4
  Requests = {"in", "reuse", "predicated"}
  Faults = TRUE
INVARIANTS
  TileShowsFrame
  QueueHoldsBusy
PROPERTIES
  WaitEnds
CHECK_DEADLOCK FALSE
