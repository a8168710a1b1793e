CONSTANTS
  Node <- ForkNode
  Plan <- ForkPlan
  IgnoreError = FALSE
  Run = {"r1"}
  Exec = {"x1", "x2", "x3", "x4"}
  Outcome = {"RESULT_SUCCESS", "RESULT_ERROR", "DISPATCH_FAIL"}
  Features = {"timer"}
SPECIFICATION FairSpec
INVARIANTS ExecutedOnce JoinWaitsForAll
PROPERTY EveryRunEnds
CHECK_DEADLOCK FALSE
