CONSTANTS
  None = None
  Kinds <- Everything
  MaxRequests = 3
  MaxRestarts = 1
SPECIFICATION FairSpec
INVARIANTS
  TypeOK
  CallbackGetsItsOwnResponseOnce
  OnePreparationAtATime
  NoRequestLeaks
PROPERTY
  EveryCallbackIsCalled
CHECK_DEADLOCK FALSE
