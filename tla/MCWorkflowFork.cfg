CONSTANTS
  Node <- ForkNode
  Plan <- ForkPlan
  IgnoreError = FALSE
  Run = {"r1", "r2"}
  Exec = {"x1", "x2", "x3", "x4", "x5", "x6"}
  Outcome = {"RESULT_SUCCESS", "RESULT_ERROR"}
  Features = {}
SPECIFICATION Spec
INVARIANTS SingleWalker FailureHasCause
PROPERTIES EndedIsFinal ResultIsStable
CHECK_DEADLOCK FALSE
