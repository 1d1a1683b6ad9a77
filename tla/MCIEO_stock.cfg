CONSTANTS
  Members <- MCMembers
  Orders <- MCOrders
  Details <- MCDetails
  Payloads <- MCPayloads
  Funds <- MCFunds
  LockedElsewhere <- MCLocked
  None = None
  MaxRestarts = 0
  MaxUpdates = 0
SPECIFICATION Spec
CHECK_DEADLOCK FALSE
INVARIANT SoldWithinStock
