SPECIFICATION FairSpec
CONSTANTS
  Total = 3
  Required = 1
  Trigger = 1
  StaleNum = 1
  StaleDen = 1
  ServerSlots = 16
  PendingMax = 2
  Partial = TRUE
  MaxFail = 0
  TestFreq = 2
PROPERTY
  Termination
