SPECIFICATION SessionSpec
CONSTANTS
  Holder = {h1, h2}
  NoHolder = NoHolder
  Ttl = 3
  RenewInterval = 1
  MaxSkew = 1
  MaxDelay = 0
  MaxTime = 5
  MaxToken = 2
  PlanAt <- MCPlanAt
  EvalCutoff = 2
  EntryCutoff = 5
  MaxRuns = 3
  Faulty = {"hook", "alert", "flatten"}
SYMMETRY HolderSymmetry
INVARIANTS
  SessionTypeOK
  NoHookInStoppedRun
  EndIsSafe
  EntriesOnce
PROPERTIES
  HookStartsAsLeader
CHECK_DEADLOCK FALSE
