SPECIFICATION Spec
CONSTANTS
  c1 = c1
  c2 = c2
  Clients = {c1, c2}
  Garbage = garbage
  OnlineCapacity = 3
  DemoCapacity = 2
  MaxTries = 2
  AddBound = 1
  BulkSizes = {1, 2}
  MaxLength = 2
  Bodies <- MCBodies
INVARIANTS
  TypeOK
  SpoiltOnlyAtIndex
  StoredInOrder
  CountsStored
  StatusPlausible
PROPERTIES
  FullDemoIsFinal
  OnlineSlides
  PostsAnswered
CHECK_DEADLOCK FALSE
