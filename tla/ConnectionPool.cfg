SPECIFICATION Spec
CONSTANTS
  Thread = {t1, t2}
  Initial = 1
  Incremental = 2
  Max = 2
  MaxFaults = 2
INVARIANTS
  TypeOK
  Exclusive
  NoneLost
PROPERTY
  GetReturns
