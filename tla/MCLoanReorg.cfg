SPECIFICATION Spec
CONSTANTS
  Pledges = {p1}
  Loans = {l1}
  Settles = {s1}
  NoPledge = NoPledge
  NoLoan = NoLoan
  NoCall = NoCall
  FinalityDepth = 2
  MaxHeight = 4
  MaxReorgs = 1
  MaxCrashes = 0
INVARIANT ClosuresAreFinal
