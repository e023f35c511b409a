SPECIFICATION Spec
CONSTANTS
  btc = btc
  p1 = p1
  p2 = p2
  None = None
  Symbols <- MCSymbols
  Kinds <- MCKinds
  Partitions <- MCPartitions
  Log <- MCLog
  Medium = 10
  VelocityLimit = 12
  Cooldown = 1
  MaxRestarts = 1
INVARIANTS IInv NoAlertLost
PROPERTIES CooldownKept ExtremeReported
CHECK_DEADLOCK FALSE
