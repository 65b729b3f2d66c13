SPECIFICATION Spec
CONSTANTS
  Agents = {"a1"}
  HardwareInterval = 2
  MaxTime = 3
  MaxHardware = 1
  MaxLate = 1
  Faults = {"lost", "late", "restart"}
INVARIANTS
  TypeOK
  SuppressedIsRecorded
  NothingTwice
  Recovers
CHECK_DEADLOCK FALSE
