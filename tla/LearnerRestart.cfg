SPECIFICATION Spec
CONSTANTS
  t1 = t1
  t2 = t2
  Threads = {t1, t2}
  Main = "main"
  Writers = {"main", "server"}
  None = None
  Configs <- MCMaxSteps
  MinUtd = 2
  JoinTimesOut = TRUE
  EnvBound = 3
  DemoBound = 1
  StepBound = 4
INVARIANT
  OneLearner
CHECK_DEADLOCK FALSE
