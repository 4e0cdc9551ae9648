SPECIFICATION Spec
CONSTANTS
  Gas = Gas
  hosting = hosting
  Vendors = {hosting}
  Order <- EnabledOrder
  DryRuns = {{}, {hosting}}
  Window = 2
  TicksPerWeek = 2
  GasTickCap = 2
  GasWeeklyCap = 3
  Cap <- Caps
  Lag = 1
  MaxTime = 3
  MaxOthers = 1
  MaxKills = 1
  Grants = {{Gas}, {Gas, hosting}}
  MaxTxs = 2
INVARIANTS TypeOK SpendIsRecorded GasWithinRollingCap
CHECK_DEADLOCK FALSE
