SPECIFICATION Spec
CONSTANTS
  s1 = s1
  s2 = s2
  None = None
  Sessions <- MCSessions
  Ops <- MCOps
  Timed <- MCTimed
  PoolSize = 1
  MaxCalls <- MCMaxCalls
  MaxWindows = 2
INVARIANT IInv
PROPERTY EveryCallReturns
CHECK_DEADLOCK FALSE
