SPECIFICATION Spec
CONSTANTS
  Node = {a, b}
  Kind = "engine"
  MaxSession = 5
  Troubles = {"quick", "slaveExpired", "masterExpired"}
INVARIANTS
  TypeOK
  OneMaster
PROPERTIES
  Takeover
  SomeoneServes
CHECK_DEADLOCK FALSE
