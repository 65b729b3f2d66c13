SPECIFICATION FairSpec
CONSTANTS
  Records = {1, 2, 3, 4}
  Faults = {"crash", "signal", "read", "write", "raise"}
  NoBlock = NoBlock
INVARIANTS
  TypeOK
  ChainWellFormed
  SealedInOrder
  DiskBehindChain
PROPERTIES
  ImplementsAuditTrail
  EventuallySealed
  EventuallyPersisted
