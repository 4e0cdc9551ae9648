SPECIFICATION Spec
CONSTANTS
  lp = lp
  donor = donor
  relayer = relayer
  Vault = vault
  Holders = {lp, donor, relayer}
  Lps = {lp}
  Donors = {donor}
  Endowment <- MCEndowment
  VirtualShares = 2
  MaxCalls = 3
  Amounts = {3, 20}
  ShareAmounts = {2, 7}
  Relayer = relayer
  Books = {b1, b2}
  NoBook = NoBook
  MaxAum = 24
  PositionIds = {p1, p2}
  Sizes = {0, 10}
  Proceeds = {0, 6, 13}
  Marks = {14}
  MaxMarks = 1
INVARIANTS
  TypeOK
  NotionalMirrored
  RelayerAccountedFor
PROPERTIES
  PriceFallsByTradesOnly
SYMMETRY Symmetry
