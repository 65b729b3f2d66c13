SPECIFICATION Spec
CONSTANTS
  HistoryLimit = 2
  MaxRecords = 4
INVARIANTS
  TypeOK
  NoPointTwice
PROPERTIES
  OnlyMovingOverlooked
