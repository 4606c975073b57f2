CONSTANTS
  None = None
  Pending = Pending
  Buffers = {a, b}
  Kinds <- Both
  Lines = 5
  Views <- Screens
  MaxTick = 2
  Budgets <- Disturbances
SPECIFICATION FairSpec
INVARIANTS
  TypeOK
  OneTextAtATime
  RequestIsWatched
  SkippingIsSafe
PROPERTY
  ViewportIsDrawn
CHECK_DEADLOCK FALSE
