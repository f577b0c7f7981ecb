SPECIFICATION Spec
CONSTANTS
  f = f
  g = g
  Capacity = 4
  NumStack = 1
  Frames = {f, g}
  NoFrame = NoFrame
  NoRow = NoRow
  Transitions <- MCSingleFrame
INVARIANT
  PackedIsImgAndNextImg
