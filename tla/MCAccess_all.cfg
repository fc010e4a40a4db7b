\* A founder's key and an operator's, and three requests at once.
CONSTANTS
  r1 = r1
  r2 = r2
  r3 = r3
  Requests <- MCRequests
  None = None
  RootScopes <- MCRootScopes
  GrantSets <- MCGrantSets
  Founding <- MCFounding
SPECIFICATION Spec
SYMMETRY Symmetry
INVARIANT HandedOutKeysWork
 
PROPERTY BurntStaysBurnt
CHECK_DEADLOCK FALSE
