SPECIFICATION FairSpec
CONSTANTS
  Threads = {t1, t2}
  MaxCommands = 2
  Faults = {"device", "end"}
  Configured = {"d1", "server"}
  Local = "server"
  Frus = {"f1", "f2"}
INVARIANTS
  CollectionTypeOK
  AuditedOnce
  SuccessIsTrue
  HistoryIsAudited
PROPERTIES
  EventuallyAudited
  FruRecorded
CHECK_DEADLOCK FALSE
