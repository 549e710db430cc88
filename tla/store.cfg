SPECIFICATION Spec
CONSTANTS
  AgentKeys = {k1, k2}
  Jobs = {"j1"}
  Times = {1, 2}
  MaxLogs = 2
  DrainMax = 2
SYMMETRY KeySymmetry
INVARIANTS
  LogsOnce
  DumpIsOneState
CHECK_DEADLOCK FALSE
