SPECIFICATION FairSpec
CONSTANTS
  Buffers = {h1, h2}
  FrameBuffers = 3
  Id = 0
  MaxLate = 1
CONSTRAINT NotOutrun
INVARIANTS
  MarkedAreQueued
  InUseStaysMarked
  NeverFaults
  BuffersConserved
PROPERTIES
  HeadMovesOn
