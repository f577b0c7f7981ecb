SPECIFICATION Spec
CONSTANTS
  a1 = a1
  a2 = a2
  Actors = {a1, a2}
  Conns = {1, 2, 3, 4, 5}
  Attempts = 2
  QuestionBound <- MCQuestionBound
  BreakBound = 1
  RestartBound = 1
INVARIANTS
  TypeOK
  KeysDistinct
PROPERTIES
  OneAnswer
  QueryEnds
CHECK_DEADLOCK FALSE
