CONSTANTS
  None = None
  Buffers = {b1, b2}
  Cursors = {c1, c2}
  MaxTick = 2
  MaxRequests = 3
  MaxFailures = 1
  MaxRestarts = 1
SPECIFICATION FairSpec
INVARIANTS
  TypeOK
  HighlightsBelongHere
  NoStrayMarks
  SupersededAreCancelled
PROPERTIES
  HighlightsAppear
