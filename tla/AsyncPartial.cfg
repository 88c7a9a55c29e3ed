SPECIFICATION Spec
CONSTANTS
  Total = 4
  Required = 1
  Trigger = 1
  StaleNum = 1
  StaleDen = 1
  ServerSlots = 16
  PendingMax = 2
  Partial = TRUE
  MaxFail = 1
  TestFreq = 2
INVARIANTS
  SampleConservation
  MarkerSurvives
  InFlightBound
  VersionsInStep
  ValidationLogged
