SPECIFICATION Spec
CONSTANTS
  e1 = e1
  e2 = e2
  e3 = e3
  Events = {e1, e2, e3}
  BodyLen <- MCBodyLen
  NewLine = NewLine
  NoEvent = NoEvent
  NoEntry = NoEntry
  Unreadable = Unreadable
  MaxCrashes = 2
  MaxRejections = 1
INVARIANTS
  TypeOK
  ReadsBack
  AckedAreWalked
  AckedAreFound
  WrittenOncePerLife
SYMMETRY Symmetry
