SPECIFICATION FairSpec
CONSTANTS
  FrameLines = 6
  EntryLines = 2
  BufferLines = 4
INVARIANTS
  HeadIsRead
  EndsAligned
  OnlyOverflowFaults
PROPERTIES
  RecoveryEnds
