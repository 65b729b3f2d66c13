SPECIFICATION Spec
CONSTANTS
  Records = {1, 2, 3}
  Faults = {}
  NoBlock = NoBlock
INVARIANTS
  NothingDropped
