\* Three processes, two under one id in turn, that may hang, die, fail to
\* release or to sweep; each of them keeps using its locks.
SPECIFICATION FairSpec
CONSTANTS
  p1 = p1
  p2 = p2
  p3 = p3
  t2 = t2
  t3 = t3
  t4 = t4
  k1 = k1
  k2 = k2
  Proc = {p1, p2, p3}
  Pid <- OsPid
  Nameless = {}
  Task = {t2, t3, t4}
  Home <- HomeOf
  Key = {k1, k2}
  KeyOf <- KeyFor
  Beating = {t3, t4}
  Stale = 2
  Grace = 1
  Interval = 1
  MaxDelay = 1
  Faults = {"die", "wedge", "resume", "probe", "busy", "sweep", "release"}
  Nil = Nil
INVARIANTS TypeOK FreshHolderOwns CollectsOnlyTheDead
PROPERTIES ImplementsContract LeasesEnd OrphansCollected
CHECK_DEADLOCK FALSE
