SPECIFICATION Spec
CONSTANTS
  Pledges = {p1}
  Loans = {l1, l2}
  Settles = {s1, s2}
  NoPledge = NoPledge
  NoLoan = NoLoan
  NoCall = NoCall
  FinalityDepth = 2
  MaxHeight = 4
  MaxReorgs = 1
  MaxCrashes = 1
SYMMETRY Interchangeable
INVARIANTS TypeOK OriginationsAreFinal RegistryIsTheLog ClosedLoansAreRecorded LogMatchesTheChain
