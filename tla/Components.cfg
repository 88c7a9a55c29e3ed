SPECIFICATION MCSpec
CONSTANTS
  ActorNum = 2
  RolloutNum = 1
  ParamSize <- MCSizes
  DeviceBuffer = 2
  Rounds = 2
  WeightSize <- MCWeights
  BucketCells = 2
  r1 = r1
  r2 = r2
  Receivers <- MCReceivers
  ChainLen = 3
  i1 = i1
  i2 = i2
  i3 = i3
  Items <- MCItems
  Second = 2
  RpmCost = 2
  TpmCost = 3
  MaxConcurrent = 1
  Timeout = 2
  MaxTime = 7
  MaxStep = 9
  MaxKeep = 2
  OffDataLen = 3
  OffEpochs = 2
  OffSteps = 6
  OffSaveFreq = 2
  OffTestFreq = 2
  OffMaxCrash = 2
  JobSamples = 7
  JobRequired = 2
  JobTrigger = 2
  JobSaveFreq = 2
  JobTestFreq = 2
  FlyMax = 3
  JobMaxCrash = 2
  Shapes <- MCShapes
  DpSize = 2
  MaxTokens = 5
  MiniPrompts = 2
  Balancing = {"plain", "minibatch", "group"}
  ValRows = 4
  ValWorkers = 5
  Prompts = 3
  Copies = 2
  AgentWorkers = 2
  RewardLists <- MCLists
  WeightTables <- MCWeightTables
  FullScore = 2
  Gate = 1
  RatioTables <- MCRatios
  BaseCycle = 10
  MinCycle = 3
  SampleLens = {1, 2, 4}
  MaxLen = 4
  PackTarget = 2
  MaxBatches = 2
  MaxDraws = 11
  Messages = {a, None}
  MaxQueueSize = 2
  MaxPut = 4
  MaxVersion = 1
  MaxVal = 1
  SftLen = 2
  SftEpochs = 4
  SftSaveFreq = 1
  SftMaxDied = 2
  SftHorizon = 6
SYMMETRY
  MCSymmetry
INVARIANTS
  WeightsLoaded
  NcclDelivers
  NixlDelivers
  LimitsKept
  OneStepPipeline
  BatchesInOrder
  SamplesAccounted
  RowsKept
  MicroInStep
  BalanceKept
  OwnOrUnpaid
  ScoreGated
  MixtureKept
  PackingKept
  SftResumes
  QueueIsRecentPast
  DroppedAreCounted
PROPERTY
  ImplementsLossyLog
