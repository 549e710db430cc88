SPECIFICATION Spec
CONSTANTS
  AgentKeys = {k1}
  Jobs = {"j1"}
  Times = {1}
  MaxLogs = 1
  DrainMax = 1
PROPERTY
  RunningAgentIsHealthy
CHECK_DEADLOCK FALSE
