SPECIFICATION PaidSpec
CONSTANTS
  Calls = {c1, c2, c3}
  Auths = {a1, a2}
  NoAuth = NoAuth
  MaxKills = 1
INVARIANTS PaidTypeOK ChargedIsAnswered TransfersAreLogged
SYMMETRY Interchangeable
CHECK_DEADLOCK FALSE
