CONSTANTS
  Job = {"j1"}
  MaxFaults = 3
  Restarts = {"engine", "executor"}
  ClockSkew = FALSE
  NoContent = FALSE
SPECIFICATION FairSpec
PROPERTY ServedAgain
CHECK_DEADLOCK FALSE
