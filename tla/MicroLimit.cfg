SPECIFICATION FlowSpec
CONSTANTS
  Shapes <- MCEqualShapes
  DpSize = 2
  MaxTokens = 5
  MiniPrompts = 2
  Balancing = {"plain"}
  ValRows = 1
  ValWorkers = 1
INVARIANT
  MicroWithinLimit
CHECK_DEADLOCK FALSE
