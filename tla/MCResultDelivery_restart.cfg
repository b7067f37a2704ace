\* The watcher may fail and be started again three seconds later.
SPECIFICATION FairSpec
CONSTANTS
  File = {f1, f2}
  Session = {s1, s2}
  Outcomes = {{f1}}
  Intercom = {f1, f2}
  MaxLease = 4
  Faults = {"gap"}
  None = None

PROPERTY AnnouncedAfterRestart
CHECK_DEADLOCK FALSE
