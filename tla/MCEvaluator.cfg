SPECIFICATION EvaluatorFairSpec
CONSTANTS
  Callers = {c1, c2}
  MaxAttempts = 2
  Cutoff = 2
  RequestTimeout = 1
  ShadowTimeout = 1
  Outputs = {o1, o2}
  Kinds = {"succeeded", "transport_error", "deadline_exceeded", "refused"}
  Slack = 1
  MaxTime = 3
  MaxCalls = 2
  o1 = o1
  o2 = o2
  c1 = c1
  c2 = c2
CHECK_DEADLOCK FALSE
INVARIANTS
  DecisionInTime
  OutcomeIsFinal
  ComparisonIsBacked
PROPERTY
  EvaluationEnds
