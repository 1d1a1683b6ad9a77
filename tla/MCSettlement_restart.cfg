CONSTANTS
  Members <- MCMembers
  Orders <- MCTwoOrders
  Details <- RestartDetails
  Fake = Fake
  None = None
  Scale = 10
  Funds <- MCFunds
  Prices = {2}
  Volumes = {1, 2}
  MaxRestarts = 1
SPECIFICATION FairSpec
INVARIANTS TypeOK LimitLockCovers ExecutedWithinLimit Conserved
PROPERTIES Lifecycle HandedBackAsStored SubmittedIsDecided WaitingIsAnnounced
CHECK_DEADLOCK FALSE
