SPECIFICATION Spec
CONSTANTS
  MaxBanks = 2
  NumBuffers = 1
  NumSlots = 2
  MaxChannels = 1
INVARIANTS
  ObjectsFlagged
  NoBufferLost
