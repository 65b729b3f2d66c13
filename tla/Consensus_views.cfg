SPECIFICATION Spec
CONSTANTS
  Nodes = {1, 2, 3, 4, 5}
  Threshold = 80
  Self = 1
  Proposals = {b1}
  Threads = {t1, t2, t3}
  Answers = {TRUE}
  Views <- ViewOfEachSize
INVARIANTS
  TypeOK
  RejectedInSmallViewsMeansOpposed
  ConfirmedHashesMatch
  NoLostConfirmation
PROPERTIES
  SettledForGood
