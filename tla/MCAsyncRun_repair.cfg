SPECIFICATION Spec
CONSTANTS
  Reconciler = {p1}
  Appender = {a1}
  InitialSteps = 1
  MaxReports = 2
  Faults = {{"race"}}
  None = None
INVARIANT RepairedOnlyWithoutResult
CHECK_DEADLOCK FALSE
