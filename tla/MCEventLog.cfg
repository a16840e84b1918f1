SPECIFICATION FairSpec
CONSTANTS
  MaxBuffered = 2
  MaxBatch = 1
  MaxEvents = 4
  MaxFailures = 2
  MaxCrashes = 1
  None = None
INVARIANTS JournalHoldsTheFeed FollowerMissesNothing
PROPERTIES ImplementsFeed EveryEventSettles FollowerCatchesUp
