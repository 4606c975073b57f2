CONSTANTS
  None = None
  Requests = {r1}
  MaxWorkers = 2
  MaxOperations = 2
  MaxSessions = 2
SPECIFICATION Spec
PROPERTY ServerNeverSentRetiredOperation
