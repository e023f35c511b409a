SPECIFICATION FairSpec
CONSTANTS
  Log <- BrokenLog
  BatchMax <- BatchesOfTwo
  MaxPoll = 2
  MaxLives = 1
  StopPhases = {"up"}
INVARIANTS
  IInv
PROPERTIES
  EveryRecordTaken
  StopTerminates
CHECK_DEADLOCK FALSE
