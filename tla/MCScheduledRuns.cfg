\* Two processes in turn and two jobs, and one dialog; the session is opened
\* twice, so that a job meets a restart or a second process.
SPECIFICATION FairSpec
CONSTANTS
  Process = {p1, p2}
  Job = {j1, j2}
  Dialog = {d1}
  MaxPending = 2
  Limit = 1
  MaxStarts = 2
  None = None
INVARIANTS TypeOK LaunchedOnce
PROPERTIES GrantAsConfirmed EventuallySettled
CHECK_DEADLOCK FALSE
