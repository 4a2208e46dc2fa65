SPECIFICATION Spec
CONSTANTS
  None = None
  Clients = {c1, c2}
  Addresses = {a1, a2}
  BufferMax = 2
  MaxRequests = 2
  MaxFailures = 1
  MayDie = TRUE
INVARIANTS
  LossesAreVisible
  CountedAtMostOnce
  TotalsCoverEvents
  CleanShutdown
SYMMETRY Symmetry
CHECK_DEADLOCK FALSE
