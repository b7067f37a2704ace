\* Two revivals of one session.  A tick is ten seconds: the parent waits for
\* one, the runner for three, and a process may be late by one.
SPECIFICATION FairSpec
CONSTANTS
  Attempt = {a1, a2}
  ParentPatience = 1
  RunnerPatience = 3
  MaxLag = 1
  Faults = {"write", "die"}
  None = None
INVARIANTS TypeOK RefusedNeverRuns StartedGoesOn
PROPERTY AttemptsSettle
CHECK_DEADLOCK FALSE
