\* A single worker, so that everything queues behind everything else.
CONSTANTS
  None = None
  Requests = {r1}
  MaxWorkers = 1
  MaxOperations = 2
  MaxSessions = 2
SPECIFICATION FairSpec
PROPERTIES
  EverySubmissionEnds
  RestartReturns
