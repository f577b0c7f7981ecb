SPECIFICATION Spec
CONSTANTS
  f = f
  g = g
  Capacity = 6
  NumStack = 2
  Frames = {f, g}
  NoFrame = NoFrame
  NoRow = NoRow
  Transitions <- MCTransitions
INVARIANTS
  TypeOK
  SampleTerminates
  WindowMatchesRow
PROPERTY
  SlidesAsLog
