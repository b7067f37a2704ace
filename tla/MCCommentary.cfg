\* Two entries, the first of no interest by itself; a session, its end and the
\* next one, or two starts; one dialog; an environment that switches commentary
\* off unless a file or the session switches it on.
SPECIFICATION Spec
CONSTANTS
  MaxEntry = 2
  Chatter = {1}
  Call = {c1, c2}
  Interval = 1
  MaxBoundary = 3
  Dialog = {d1}
  Projects = {"off"}
  Environments = {"off"}
  None = None
SYMMETRY Symmetry
INVARIANTS TypeOK Accounted OffIsSilent
PROPERTIES TipFits AttemptFloor DialogOfThisSession
CHECK_DEADLOCK FALSE
