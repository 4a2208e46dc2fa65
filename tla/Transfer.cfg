SPECIFICATION Spec
CONSTANTS
  Unaddressable <- MCUnaddressable
  Bases <- MCBases
  Workers = 2
  Batch = 1
  Stricts = {TRUE, FALSE}
  MaxRuns = 2
  MaxWrites = 2
INVARIANTS
  DryRunForesees
  
  
  ClaimsAreKept
  OwnArchiveIsUnchanged
CHECK_DEADLOCK FALSE
