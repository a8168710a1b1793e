SPECIFICATION Spec
CONSTANTS
  Node = {a, b}
  Kind = "executor"
  MaxSession = 4
  Troubles = {}
PROPERTY
  Takeover
CHECK_DEADLOCK FALSE
