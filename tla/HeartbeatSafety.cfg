CONSTANTS
  Job = {"j1", "j2"}
  MaxFaults = 2
  Restarts = {"engine", "executor"}
  ClockSkew = TRUE
  NoContent = TRUE
SPECIFICATION Spec
INVARIANTS StartedOnce HandledOnce HandledIsFinal NoEventIsDropped RegisteredIsKnown
CHECK_DEADLOCK FALSE
