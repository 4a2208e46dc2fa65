SPECIFICATION FairSpec
CONSTANTS
  None = None
  Clients = {c1, c2}
  Addresses = {a1}
  BufferMax = 1
  MaxRequests = 2
  MaxFailures = 1
  MayDie = TRUE
PROPERTY
  LossesSurface
CHECK_DEADLOCK FALSE
