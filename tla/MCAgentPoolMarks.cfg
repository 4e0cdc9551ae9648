SPECIFICATION Spec
CONSTANTS
  lp = lp
  donor = donor
  relayer = relayer
  Vault = vault
  Holders = {lp, donor, relayer}
  Lps = {lp}
  Donors = {donor}
  Endowment <- MCEndowment
  VirtualShares = 2
  MaxCalls = 1
  Amounts = {20}
  ShareAmounts = {7}
  Relayer = relayer
  Books = {b1}
  NoBook = NoBook
  MaxAum = 24
  PositionIds = {p1}
  Sizes = {10}
  Proceeds = {6, 13}
  Marks = {14}
  MaxMarks = 1
PROPERTY ClosedOutHoldsNoValue
