SPECIFICATION FairSpec
CONSTANTS
  c1 = c1
  c2 = c2
  c3 = c3
  Calls = {c1, c2, c3}
  Input <- Overlapping
  ChunkSize = 2
  MaxAttempts = 2
INVARIANTS
  IInv
  ReturnedMeansWritten
  WritesPrefix
PROPERTIES
  ClosedIsQuiet
  EveryCallEnds
  InsertsIfAbsent
CHECK_DEADLOCK FALSE
