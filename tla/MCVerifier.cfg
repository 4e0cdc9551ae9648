\* A walk and a search end.
SPECIFICATION FairSpec
CONSTANTS
  Ids <- MCIds
  NoId = 0
  Start = 5
  MaxDepth = 4
  Logs <- MCLogs
  OnChain = TRUE
  MaxFaults = 1
INVARIANTS WalkTypeOK AcceptedIsVerified ReportIsExact
PROPERTIES SoundIsAccepted
CHECK_DEADLOCK FALSE
