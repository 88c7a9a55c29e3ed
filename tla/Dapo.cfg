SPECIFICATION FairSpec
CONSTANTS
  DataLen = 3
  Epochs = 2
  TotalSteps = 5
  BatchSize = 2
  GenSize = 2
  Filter = TRUE
  MaxGen = 4
  SaveFreq = 2
  MaxKeep = 2
  MaxCrash = 2
  MaxStep = 7
INVARIANTS
  TypeOK
  LatestComplete
  DataInStep
  StepNamesUpdates
  KeepAtMostPerRun
  FinalCheckpointSaved
  BatchOnPolicy
PROPERTY
  Termination
