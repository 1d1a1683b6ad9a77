CONSTANTS
  Members <- MCMembers
  Orders <- MCOrders
  Details <- LimitDetails
  Fake = Fake
  None = None
  Scale = 10
  Funds <- MCFunds
  Prices = {1, 2}
  Volumes = {1, 2}
  MaxRestarts = 1
SPECIFICATION Spec
INVARIANT RefusedStaysOut
CHECK_DEADLOCK FALSE
