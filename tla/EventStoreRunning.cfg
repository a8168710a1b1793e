SPECIFICATION FairSpec
CONSTANTS
  Event = {e1, e2, e3, e4, e5, e6}
  Saved = {e1, e2}
  Producer = {p1, p2, p3}
  Size = 2
  MayShutDown = FALSE
  MaxRestarts = 0
INVARIANTS NeverMixed ConsumedOnce
PROPERTIES EveryPushReturns
CHECK_DEADLOCK FALSE
