SPECIFICATION Spec
CONSTANTS
  Total = 6
  Required = 2
  Trigger = 1
  StaleNum = 1
  StaleDen = 2
  ServerSlots = 2
  PendingMax = 2
  Partial = FALSE
  MaxFail = 0
  TestFreq = 2
INVARIANTS
  StaleShare
