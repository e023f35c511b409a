SPECIFICATION Spec
CONSTANTS
  None = None
  Metrics <- MCMetrics
  At <- MCAt
  Imbalance <- MCImbalance
  SpreadBps <- MCSpreadBps
  Volume <- MCVolume
  Size = 4
  Slide = 2
  Length = 2
  Lateness = 1
  Multiplier = 2
  MaxClock = 4
INVARIANT IInv
PROPERTIES OnTimeCounted AverageAdvances
CHECK_DEADLOCK FALSE
