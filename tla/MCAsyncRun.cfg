SPECIFICATION FairSpec
CONSTANTS
  Reconciler = {p1, p2}
  Appender = {a1, a2}
  InitialSteps = 1
  MaxReports = 2
  Faults = {{}, {"lostFinal"}, {"silent"}, {"abandon"}, {"lostFinal", "abandon"}}
  None = None
INVARIANTS TypeOK Reported AcceptedAppendRuns
PROPERTIES FinalIsFinal EventuallyReported
CHECK_DEADLOCK FALSE
