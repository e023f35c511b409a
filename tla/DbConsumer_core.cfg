SPECIFICATION Spec
CONSTANTS
  Log <- CoreLog
  BatchMax <- BatchesOfTwo
  MaxPoll = 2
  MaxLives = 2
  StopPhases = {"up", "connecting"}
INVARIANTS
  KeysAgree
  NoMetricDropped
  AlertOncePerLife
PROPERTIES
  CommitsFollowWrites
  CommittedAdvances
  StoppedIsQuiet
CHECK_DEADLOCK FALSE
