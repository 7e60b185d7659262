SPECIFICATION FairSpec
CONSTANTS
  FrameLines = 6
  EntryLines = 2
  BufferLines = 4
  MaxLate = 1
INVARIANTS
  SidesInOrder
  InFlightFitsBuffer
  LineCursorInSync
  SlotCursorInSync
  OnlyOverrunFaults
PROPERTIES
  TornEntryNotStarted
  CustomerSideKept
  OverrunRecovers
