SPECIFICATION Spec
CONSTANTS
  Records = {1, 2}
  Nodes = {1, 2}
  Threshold = 80
  Faults = {"lost", "timeout"}
INVARIANTS
  OnlyConfirmedBlocks
  VotesAreCast
  SealedOnce
CHECK_DEADLOCK FALSE
