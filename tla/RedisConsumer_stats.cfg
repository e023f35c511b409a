SPECIFICATION Spec
CONSTANTS
  Symbols = {"BTC"}
  Log <- StatsLog
  MaxAlerts = 1
  MaxPoll = 2
  MaxLives = 2
INVARIANTS
  IInv
  LegacyKeyAhead
CHECK_DEADLOCK FALSE
