SPECIFICATION Spec
CONSTANTS
  HistoryLimit = 2
  MaxRecords = 3
PROPERTIES
  LatestIsLatest
