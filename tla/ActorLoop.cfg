SPECIFICATION LoopSpec
CONSTANTS
  t1 = t1
  Threads = {t1}
  Main = "main"
  Writers = {"main"}
  None = None
  Configs <- MCConfigs
  MinUtd = 1
  JoinTimesOut = FALSE
  EnvBound = 4
  DemoBound = 0
  StepBound = 3
PROPERTY
  ScriptEnds
CHECK_DEADLOCK FALSE
