SPECIFICATION Spec
CONSTANTS
  NumTiles = 1
  QueueLength = 2
  Edged = {0}
  FrameHeight = 2
  FrameWidth = 3
  TileHeight = 1
  TileWidth = 2
  Edge = 1
  FramePads = {0,1}
  Paddings = {"edge", "const"}
  PadSign = 128
  Vector = 64
  Xs = {3,4,6,8}
  Ys = {2,3,4,5}
  Origin = 4
  Requests = {"in", "fast", "out", "outPredicated", "outFast"}
  Faults = TRUE
INVARIANTS
  TileShowsFrame
  CopiesInBounds
  OutInPlace
CHECK_DEADLOCK FALSE
