SPECIFICATION Spec
CONSTANTS
  Unaddressable <- MCUnaddressable
  Bases <- MCRoundTrip
  Workers = 2
  Batch = 2
  Stricts = {FALSE}
  MaxRuns = 1
  MaxWrites = 1
INVARIANTS
  RoundTripMovesNoConcept
CHECK_DEADLOCK FALSE
