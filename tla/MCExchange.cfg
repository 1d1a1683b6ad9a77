CONSTANTS
  Members <- MCMembers
  Orders <- MCOrders
  Details <- MCDetails
  Submits <- MCSubmits
  Fake = Fake
  None = None
  Scale = 4
  Funds <- MCFunds
  Prices = {1, 2}
  Volumes = {1, 2, 3}
  StopPrices <- MCStops
  StartPrices = {2}
  NoOrder = NoOrder
  MaxDeliveries = 12
  MaxFaults = 2
  MaxStarts = 1
SPECIFICATION Spec
CHECK_DEADLOCK FALSE
INVARIANTS BookAgrees OverIsGone
PROPERTIES MoneyStepsAreSettlement RefusedForCause ComesToRest
