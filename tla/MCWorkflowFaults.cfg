CONSTANTS
  Node <- ForkNode
  Plan <- TolerantPlan
  IgnoreError = FALSE
  Run = {"r1"}
  Exec = {"x1", "x2", "x3"}
  Outcome = {"RESULT_SUCCESS", "DISPATCH_FAIL"}
  Features = {"timer", "dbfail", "once"}
SPECIFICATION Spec
INVARIANTS TypeOK StarterConfined RegistryExact
PROPERTIES NeverReregistered
CHECK_DEADLOCK FALSE
