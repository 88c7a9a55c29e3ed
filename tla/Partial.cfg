SPECIFICATION PartialFairSpec
CONSTANTS
  Agents = {t, u}
  ToolAgents = {t}
  Servers = {1, 2}
  Workers = 1
  ResponseLength = 3
  ModelLen = 4
  MaxAssistant = 2
  MaxUser = 2
  MaxCache = 1
  MaxCancel = 2
INVARIANTS
  OutputContinued
  VersionsRecorded
  ServersEven
PROPERTIES
  CancelReturns
  SampleCompletes
