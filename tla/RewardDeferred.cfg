SPECIFICATION RewardSpec
CONSTANTS
  Prompts = 3
  Copies = 2
  AgentWorkers = 2
INVARIANT
  EveryRowScored
CHECK_DEADLOCK FALSE
