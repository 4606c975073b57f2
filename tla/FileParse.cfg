CONSTANTS
  None = None
  Buffers = {a, b, h}
  Allowed = {a, b}
  Native = {a}
  MaxTick = 2
  Budgets <- Disturbances
SPECIFICATION FairSpec
INVARIANTS
  TypeOK
  AppliedExactlyWhenHandled
  CurrentRequestIsWatched
  TextIsSentOrNoted
PROPERTIES
  Settles
