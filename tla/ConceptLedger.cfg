SPECIFICATION FairSpec
CONSTANTS
  None = None
  Clients = {c1, c2}
  Texts = {"a", "b"}
  Forms = {1}
  Payloads <- MCPayloads
  MaxRequests = 3
  Tick = 20
  AppOffset = 65
  DbOffsets = {8}
INVARIANTS
  LedgerAgrees
PROPERTIES
  NoLostUpdate
  RequestsAnswered
  ImplementsRecord
CHECK_DEADLOCK FALSE
