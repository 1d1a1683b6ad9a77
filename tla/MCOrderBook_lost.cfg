CONSTANTS
  Ids <- StopIds
  Submissions <- StopOrders
  LoadSets <- NoLoad
  StartPrices <- StartHigh
  NoOrder = NoOrder
  IteratorIsStable = TRUE
  MaxDeliveries = 1
  MaxCancels = 0
  MaxReloads = 0
SPECIFICATION FairSpec
CHECK_DEADLOCK FALSE
INVARIANT EnqueuedStopsInserted
