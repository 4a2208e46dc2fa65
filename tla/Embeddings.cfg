SPECIFICATION Spec
CONSTANTS
  None = None
  Older = Older
  Default = Default
  Servers = {s1, s2}
  Newest = 3
  BirthRecorded = 2
  Found = {0, 1}
  Rows = {1, 2, 3}
  Unreadable = {1}
  BackfillBatch = 2
  CountMayFail = FALSE
  Models = {Older, Default}
  OlderModel = Older
  DefaultModel = Default
  Dim <- MCDim
  MaxStarts = 2
  Concepts = {1, 2}
  Files = {9}
  PassLimit = 1
  MaxTexts = 1
  MaxFailures = 1
INVARIANTS
  OneSpaceDiscovered
  
  EveryConceptGetsATurn
SYMMETRY Symmetry
CHECK_DEADLOCK FALSE
