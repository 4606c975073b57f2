CONSTANTS
  None = None
  Requests = {r1, r2}
  MaxWorkers = 2
  MaxOperations = 3
  MaxSessions = 1
SYMMETRY Symmetry
SPECIFICATION Spec
INVARIANTS
  TypeOK
  WatermarkNeverOvertaken
  CancellationNamesLiveOperation
  AbandonedOperationsAreCancelled
PROPERTIES
  ImplementsLedger
