SPECIFICATION MCSpec
CONSTANTS
  Configs = {"c1", "c2"}
  PaperConfigs = {"c1"}
  DrillTypes = {"broker_timeout", "disk_pressure"}
  REQUIRED_DRILLS = {"broker_timeout"}
  RequiredProbes = {"postgresql"}
  ReplayComponents = {"recorder", "risk"}
  SessionIds = {1, 2}
  Dates = {1, 2}
  Flaws = {"POSITIONS_NOT_FLAT"}
  TradeLists <- MCTradeLists
  minimum_sessions = 2
  minimum_filled_orders = 2
  required_drill_count = 2
  CleanPercent = 100
  BuildArtifacts = {"wheel"}
  Facts <- MCFacts
  Roles = {"engineering", "risk"}
  required_approval_roles = {"risk"}
  Findings = {{}, {"medium"}, {"high"}}
  maximum_open_medium_findings = 0
  minimum_tests_collected = 2
  minimum_schema_count = 1
CHECK_DEADLOCK FALSE
INVARIANTS
  QualifiedIsEarned
  OperationsReportsHold
  PerformanceAddsUp
  CandidateStands
