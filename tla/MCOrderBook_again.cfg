CONSTANTS
  Ids <- AgainIds
  Submissions <- AgainOrders
  LoadSets <- AgainLoads
  StartPrices <- AgainPrices
  NoOrder = NoOrder
  IteratorIsStable = FALSE
  MaxDeliveries = 2
  MaxCancels = 1
  MaxReloads = 1
SPECIFICATION FairSpec
CHECK_DEADLOCK FALSE
INVARIANTS RestingIsLive TradesWithinLimits NoOverfill
PROPERTIES NoReachedStopLeft ReturnsToTopic
