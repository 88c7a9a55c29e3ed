SPECIFICATION Spec
CONSTANTS
  DataLen = 3
  Epochs = 2
  TotalSteps = 5
  BatchSize = 2
  GenSize = 2
  Filter = FALSE
  MaxGen = 0
  SaveFreq = 2
  MaxKeep = 2
  MaxCrash = 1
  MaxStep = 6
INVARIANT
  ResumeSucceeds
