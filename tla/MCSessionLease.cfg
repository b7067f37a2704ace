\* Three runners on one or two machines; two rounds of the loop are enough to
\* fail once and meet a successor.  Every behaviour ends with all runners gone.
SPECIFICATION Spec
CONSTANTS
  Runner = {r1, r2, r3}
  Host = {h1, h2}
  MaxAttempts = 2
  Absent = Absent
  Empty = Empty
  Nil = Nil
SYMMETRY Symmetry
INVARIANTS TypeOK OneWriter HolderOwnsDir
PROPERTY MovesWhatItRead ImplementsContract
CHECK_DEADLOCK FALSE
