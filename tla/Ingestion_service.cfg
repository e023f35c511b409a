SPECIFICATION Spec
CONSTANTS
  btc = btc
  eth = eth
  Symbols <- MCSymbols
  MaxRecords = 2
  MaxRetries = 2
  Malformed <- MCMalformed
INVARIANTS TypeOK ReportedSettled SubmittedInOrder FateKnown GivesUpInTime
PROPERTIES NoneTurnedAway StreamsSettle StopEnds
CHECK_DEADLOCK FALSE
