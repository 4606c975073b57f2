CONSTANTS
  None = None
  Items = {a, b}
  Resolvable = {a, b}
  Typeahead = FALSE
  MaxTyped = 3
  MaxRequests = 3
SPECIFICATION FairSpec
PROPERTY SelectedIsResolved
CHECK_DEADLOCK FALSE
