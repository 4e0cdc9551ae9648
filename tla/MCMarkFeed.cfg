SPECIFICATION FairSpec
CONSTANTS
  Loans = {l1}
  Ticks = {t1, t2}
  MaxHalts = 1
  MaxMisfires = 1
  WindowLen = 6
  MinTrades = 3
  VenueLists <- MCVenueLists
INVARIANTS FeedTypeOK OneObservationAfterRemoval OneGapPerOutage MaturityTracedOnce MarksAreStepIntegrals
PROPERTIES PollersGoOn MaturityIsTraced
