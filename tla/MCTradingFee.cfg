CONSTANTS
  Groups = {"vip-0", "vip-1"}
  MarketIds = {"btcusd", "ethusd"}
  MarketTypes = {"spot"}
  Any = "any"
  Rates = {0, 1, 2}
  NoRecord = NoRecord
  Tables <- MCTables
SPECIFICATION Spec
CHECK_DEADLOCK FALSE
INVARIANTS FollowsPriorities OneAnswer
