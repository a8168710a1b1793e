SPECIFICATION Spec
CHECK_DEADLOCK FALSE
CONSTANTS
  Plan = {timed, event}
  Timed = {timed}
  Actor = {a1, a2}
  MaxRow = 2
  Troubles = {"fault", "builds", "overlap", "raced", "revived", "stale"}
INVARIANTS
  TypeOK
  NoGhost
  OneRow
  InStep
SYMMETRY Threads
VIEW Told
CONSTRAINT Followed
