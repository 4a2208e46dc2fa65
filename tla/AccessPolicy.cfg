SPECIFICATION PolicySpec
CONSTANTS
  Callers = {"boss", "ada"}
  Everybody = "*"
  Addresses <- MCAddresses
  Offered <- MCOffered
  AdminLists = {{}, {"boss"}}
  MaxRules = 2
  ReadOnly = FALSE
INVARIANTS
  DelegationRooted
  
  SurfacesAgree
PROPERTIES
  NoUnseenLoss
