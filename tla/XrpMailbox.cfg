SPECIFICATION FairSpec
CONSTANTS
  Patient = TRUE
  MaxWithdrawn = 2
INVARIANTS
  HostFindsDsp
PROPERTIES
  ImplementsRpc
  CommandAnswered
CHECK_DEADLOCK FALSE
