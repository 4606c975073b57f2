CONSTANTS
  None = None
  Buffers = {a}
  Allowed = {a}
  Native = {a}
  MaxTick = 3
  Budgets <- Forcing
SPECIFICATION Spec
PROPERTIES
  ForcedDiagnosticsAreCurrent
