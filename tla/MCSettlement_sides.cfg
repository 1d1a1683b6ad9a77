CONSTANTS
  Members <- MCMembers
  Orders <- MCOrders
  Details <- LimitDetails
  Fake = Fake
  None = None
  Scale = 10
  Funds <- MCFunds
  Prices = {1, 2}
  Volumes = {1, 2}
  MaxRestarts = 0
SPECIFICATION Spec
INVARIANT AskPriceIsOfAsks
CHECK_DEADLOCK FALSE
