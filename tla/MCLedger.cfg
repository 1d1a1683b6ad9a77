CONSTANTS
  Members <- MCMembers
  Orders <- MCOrders
  Details <- MCDetails
  Fake = Fake
  None = None
  Scale = 10
  Funds <- MCFunds
  Prices = {1, 2}
  Volumes = {1}
  MaxRestarts = 0
  Referrer <- MCReferrer
  Rewards <- MCRewards
  ShareScale = 4
  HoldCurrency = "quote"
  MaxCrashes = 1
SPECIFICATION LedgerSpec
CHECK_DEADLOCK FALSE
INVARIANTS NonNegative LockedBacksWaiting WaitingCanBeCancelled Accounted LostByOwnOrdersOnly
