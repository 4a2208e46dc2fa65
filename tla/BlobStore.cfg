SPECIFICATION FairSpec
CONSTANTS
  None = None
  Lost = Lost
  Clients = {c1, c2}
  Paths = {p1, p2}
  Blobs = {b1, b2}
  LateCalls = {"put"}
  MaxRequests = 3
INVARIANTS
  NoDanglingFile
  BytesAreNamed
  
PROPERTIES
  Implements
  RequestsAnswered
CHECK_DEADLOCK FALSE
