SPECIFICATION FairSpec
CONSTANTS
  None = None
  Workers = {w1, w2}
  People = {p1}
  Concepts = {a}
  Texts = {t1, t2}
  MaxRounds = 2
  MaxCalls = 2
  MaxDrafts = 1
  MaxRequests = 3
  MaxAsks = 1
  MaxWrites = 2
  MaxFailures = 1
 
PROPERTIES
  RevisionsReplaceTheirBase
  RequestsAnswered
CHECK_DEADLOCK FALSE
