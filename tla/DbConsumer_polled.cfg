SPECIFICATION Spec
CONSTANTS
  Log <- MetricsLog
  BatchMax <- BatchesOfTwo
  MaxPoll = 2
  MaxLives = 1
  StopPhases = {}
INVARIANTS
  MetricsAtLeastOnce
CHECK_DEADLOCK FALSE
