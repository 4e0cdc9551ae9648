SPECIFICATION Spec
CONSTANTS
  Transfers = {t1, t2}
  Watched = {t1, t2}
  Places = {1, 2}
  NotMined = NotMined
  Confirmations = 1
  Lookback = 1
  SeenCap = 1
  ReorgDepth = 1
  MaxHeight = 2
  MaxReorgs = 1
  MaxAttempts = 2
  MaxFailures = 1
  MaxRestarts = 1
INVARIANTS
  TypeOK
  PledgedOnce
  PledgesAreBacked
PROPERTIES
  SettledTransferPledged
CHECK_DEADLOCK FALSE
