SPECIFICATION SessionFairSpec
CONSTANTS
  Holder = {h1}
  NoHolder = NoHolder
  Ttl = 2
  RenewInterval = 1
  MaxSkew = 0
  MaxDelay = 0
  MaxTime = 7
  MaxToken = 3
  PlanAt <- MCPlanAt
  EvalCutoff = 3
  EntryCutoff = 6
  MaxRuns = 3
  Faulty = {"hook", "health", "database", "alert", "flatten"}
PROPERTIES
  RunsEnd
CHECK_DEADLOCK FALSE
