SPECIFICATION OffSpec
CONSTANTS
  MaxStep = 6
  MaxKeep = 2
  OffDataLen = 4
  OffEpochs = 1
  OffSteps = 4
  OffSaveFreq = 2
  OffTestFreq = 2
  OffMaxCrash = 1
INVARIANT
  ResumedJobGoesOn
