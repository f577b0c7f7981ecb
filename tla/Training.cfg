SPECIFICATION Spec
CONSTANTS
  N = 3
  NSteps = 5
  DemoEnds = {2, 5}
  Horizon = 2
  ObsHistory = 2
  Jobs <- MCJobs
  CtaRatio = 2
  UpdateBound = 4
  ChunkBound = 2
  RunBound = 2
INVARIANTS
  TypeOK
  CreditConfined
  KeysIndependent
  ACopySurvives
CHECK_DEADLOCK FALSE
