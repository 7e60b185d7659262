SPECIFICATION FairSpec
CONSTANTS
  Patient = FALSE
  MaxWithdrawn = 0
PROPERTIES
  CommandAnswered
CHECK_DEADLOCK FALSE
