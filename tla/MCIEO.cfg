CONSTANTS
  Members <- MCMembers
  Orders <- MCOrders
  Details <- MCDetails
  Payloads <- MCPayloads
  Funds <- MCFunds
  LockedElsewhere <- MCLocked
  None = None
  MaxRestarts = 1
  MaxUpdates = 1
SPECIFICATION FairSpec
INVARIANTS TypeOK Conserved PaidInFull LockedBacksWaiting StockBooked
PROPERTY WaitingIsStruck
CHECK_DEADLOCK FALSE
