SPECIFICATION Spec
CONSTANTS
  DemoOf <- MCDemoOf
  Dones <- MCDones
  Horizon = 2
  MaxTransitions = None
  Capacity = 8
  None = None
  NoFrame = NoFrame
  NoRow = NoRow
INVARIANT
  DemoImagesExact
CHECK_DEADLOCK FALSE
