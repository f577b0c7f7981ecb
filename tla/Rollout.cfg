SPECIFICATION Spec
CONSTANTS
  Scripts = {"residual", "rlpd", "dsrl", "qoil", "eval_base", "eval_dsrl", "eval_flow", "collect"}
  MaxEpisodeSteps = 5
  FrameHistory = 2
  Horizon = 2
  RandomChunks = 1
  EvalEvery = 2
  PamK = 2
  TargetSuccesses = 2
  EpisodeBound = 3
INVARIANTS
  TypeOK
  TransitionReal
  BaseFromOwnHistory
  GateFresh
  KeptWhole
PROPERTIES
  StreamInStep
  ScriptStops
CHECK_DEADLOCK FALSE
