SPECIFICATION FairSpec
CONSTANTS
  Total = 5
  Required = 1
  Trigger = 2
  StaleNum = 0
  StaleDen = 1
  ServerSlots = 16
  PendingMax = 2
  Partial = FALSE
  MaxFail = 0
  TestFreq = 2
INVARIANTS
  QuietSync
  AllTrained
  FreshEnough
PROPERTY
  Termination
