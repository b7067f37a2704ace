\* Two children of one parent; faults that grow the state space most are taken
\* without a restart.
SPECIFICATION Spec
CONSTANTS
  p = p
  Request = {r1, r2}
  Pattern = {p}
  PatternOf <- MCPatternOf
  Requester <- MCRequester
  Config <- MCConfig
  Answers = {"approved_for_session", "approved_for_serving_session", "denied"}
  MaxAnswers = 2
  Instances = 2
  Links = {"approved"}
  Faults = {{"write", "restart"}, {"read", "restart"}, {"ask", "restart"}, {"write", "read", "remove", "ask"}}
  None = None
INVARIANTS TypeOK AnswersTraced NeverStranded
PROPERTY OnlyAwaited
SYMMETRY Symmetry
CHECK_DEADLOCK FALSE
