SPECIFICATION FairSpec
CONSTANTS
  c1 = c1
  c2 = c2
  Clients = {c1, c2}
  None = None
  Nobody = Nobody
  Gone = Gone
  PublishBound = 2
INVARIANTS
  TypeOK
  AnswersAreFresh
PROPERTIES
  ServesRegister
  CatchesUp
