SPECIFICATION FairSpec
CONSTANTS
  t1 = t1
  t2 = t2
  Threads = {t1, t2}
  Main = "main"
  Writers = {"main", "server"}
  None = None
  Configs <- MCConfigs
  MinUtd = 2
  JoinTimesOut = FALSE
  EnvBound = 3
  DemoBound = 1
  StepBound = 4
INVARIANTS
  TypeOK
  OneLearner
  NoUpdateLost
  UtdCapHolds
  StepsWithinMax
PROPERTIES
  StoppedIsFinal
  StopReturns
  TrainingCompletes
  WaitReturnsInTraining
CHECK_DEADLOCK FALSE
