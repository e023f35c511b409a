SPECIFICATION Spec
CONSTANTS
  btc = btc
  eth = eth
  Symbols <- MCSymbols
  MaxRecords = 2
  MaxRetries = 1
  Malformed <- MCMalformed
PROPERTY SignalEnds
CHECK_DEADLOCK FALSE
