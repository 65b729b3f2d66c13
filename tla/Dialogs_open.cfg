SPECIFICATION FairSpec
CONSTANTS
  Devices = {"d1", "d2"}
  Heights = {"b1"}
  Passwords = {"p1", "p2"}
  MaxAssets = 1
  MaxOpened = 2
  Faults = {"lost", "restart"}
INVARIANTS
  TypeOK
  ShowsItsOwn
PROPERTIES
  EventuallyShown
CHECK_DEADLOCK FALSE
