\* A contender may be preempted between its read and its rename.
SPECIFICATION Spec
CONSTANTS
  Runner = {r1, r2, r3}
  Host = {h1, h2}
  MaxAttempts = 2
  Absent = Absent
  Empty = Empty
  Nil = Nil
SYMMETRY Symmetry
PROPERTY NeverMovesSuccessor
CHECK_DEADLOCK FALSE
