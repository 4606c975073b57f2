CONSTANTS
  None = None
  Items = {a, b}
  Resolvable = {a}
  Typeahead = FALSE
  MaxTyped = 4
  MaxRequests = 3
SPECIFICATION FairSpec
INVARIANTS
  TypeOK
  PendingIsLatest
  PollersMatchRequest

  
CHECK_DEADLOCK FALSE
