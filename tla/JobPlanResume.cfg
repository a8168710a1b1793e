SPECIFICATION Spec
CHECK_DEADLOCK FALSE
CONSTANTS
  Plan = {timed}
  Timed = {timed}
  Actor = {a1, a2}
  MaxRow = 1
  Troubles = {"raced"}
INVARIANT
  AbleFires
