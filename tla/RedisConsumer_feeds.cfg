SPECIFICATION FairSpec
CONSTANTS
  Symbols = {"BTC", "ETH"}
  Log <- AlertLog
  MaxAlerts = 2
  MaxPoll = 2
  MaxLives = 2
INVARIANTS
  FeedsKeepNewest
PROPERTIES
  AddedIsServed
  EveryRecordTaken
CHECK_DEADLOCK FALSE
