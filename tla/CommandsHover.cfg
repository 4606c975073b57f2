CONSTANTS
  None = None
  Kinds <- HoverAndRename
  MaxRequests = 3
  MaxRestarts = 0
SPECIFICATION Spec
INVARIANT LoopCopesWithModification
CHECK_DEADLOCK FALSE
