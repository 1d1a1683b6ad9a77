CONSTANTS
  Ids <- FeedIds
  Book <- FeedBook
  Nothing = Nothing
  Limit = 3
  MaxCalls = 2
  MaxReloads = 1
  MaxFetches = 1
  MaxFailures = 1
SPECIFICATION FairSpec
INVARIANTS TypeOK ClientAgrees
PROPERTIES SequenceGrows ChangesReachClient
CHECK_DEADLOCK FALSE
