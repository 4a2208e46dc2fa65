SPECIFICATION FairSpec
CONSTANTS
  Rows = {"r1", "r2", "r3"}
  Clients = {m1, m2}
  None = None
  Collation <- MCCollation
  Directories <- MCDirectories
  Texts <- MCTexts
  Scopes <- MCScopes
  Starts <- MCStarts
  Uploads <- MCUploads
  MaxRequests = 3
PROPERTIES
  NoEditReverted
  LinksKeepMeaning
  StaysInReach
  RequestsAnswered
CHECK_DEADLOCK FALSE
