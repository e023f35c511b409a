SPECIFICATION Spec
CONSTANTS
  btc = btc
  eth = eth
  Symbols <- MCSymbols
  Messages <- MCMessages
  Depth = 2
  Harmonic = 2
  BucketSeconds = 2
  Scale = 144
  Infinite = Infinite
  HasCallback = TRUE
  MaxTicks = 3
  MaxClock = 3
INVARIANTS StatisticsExact WithinBounds BooksAgree
SYMMETRY MCSymmetry
CHECK_DEADLOCK FALSE
