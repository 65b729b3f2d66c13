SPECIFICATION FairSpec
CONSTANTS
  Records = {1, 2, 3}
  Nodes = {1, 2, 3}
  Threshold = 80
  Faults = {}
INVARIANTS
  TypeOK
  Agreement
  ChainsWellFormed
  NothingLost
PROPERTIES
  ImplementsSharedLog
  EventuallyEverywhere
CHECK_DEADLOCK FALSE
