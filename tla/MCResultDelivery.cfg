\* Two completed runs, or a completed one and a failed one, with intercom targets;
\* two sessions.
SPECIFICATION FairSpec
CONSTANTS
  File = {f1, f2}
  Session = {s1, s2}
  Outcomes = {{f1}, {f1, f2}}
  Intercom = {f1, f2}
  MaxLease = 4
  Faults = {"crash", "send", "unlink", "gap", "poll"}
  None = None
INVARIANTS TypeOK RemovedIsSent SentOnce RecoveredStaysQuiet
PROPERTIES OnlyForItsSession EventuallyAnnounced
CHECK_DEADLOCK FALSE
