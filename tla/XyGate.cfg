SPECIFICATION CombinedSpec
CONSTANTS
  RewardLists <- MCLists
  WeightTables <- MCWeightTables
  FullScore = 2
  Gate = 1
INVARIANT
  AnyXyPasses
CHECK_DEADLOCK FALSE
