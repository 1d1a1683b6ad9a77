CONSTANTS
  Ids <- PlainIds
  Submissions <- PlainOrders
  LoadSets <- NoLoad
  StartPrices <- NoPrice
  NoOrder = NoOrder
  IteratorIsStable = TRUE
  MaxDeliveries = 1
  MaxCancels = 1
  MaxReloads = 0
  Width = 12
SPECIFICATION QuoteSpec
CHECK_DEADLOCK FALSE
INVARIANTS TypeOK Uncrossed VolumeAccounted QuoteIsPaid
PROPERTY ImplementsAuction
