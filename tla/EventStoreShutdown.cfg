SPECIFICATION Spec
CONSTANTS
  Event = {e1, e2, e3, e4}
  Saved = {e1}
  Producer = {p1, p2}
  Size = 2
  MayShutDown = TRUE
  MaxRestarts = 1
INVARIANTS StopsSoon
PROPERTIES ImplementsBuffer
CHECK_DEADLOCK FALSE
