SPECIFICATION Spec
CONSTANTS
  lp = lp
  bor = bor
  treasury = treasury
  Vault = vault
  Holders <- MCHolders
  Lps = {lp}
  Donors = {bor}
  Endowment <- MCEndowment
  Books = {b1, b2}
  NoBook = NoBook
  LoanIds = {i1, i2}
  NoOne = NoOne
  VirtualShares = 2
  MaxCalls = 2
  Amounts = {20, 40}
  ShareAmounts = {7}
  Principals = {20}
  Borrowers = {bor}
  Treasuries = {treasury}
  FeeChoices = {500, 600}
  FeeBpsCap = 500
INVARIANTS
  TypeOK
  OutstandingIsActive
PROPERTIES
  VaultPaysLpsAndLoansOnly
  SharePriceHolds
  ImplementsLpClaims
SYMMETRY Symmetry
