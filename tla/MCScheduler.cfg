SPECIFICATION FairSpec
CONSTANTS
  Tasks = {1, 2, 3, 9, 15}
  Idle = 15
  High = 1
  Low = 2
  MaxFrames = 2
INVARIANTS
  HighestFirst
PROPERTIES
  VipreDrained
