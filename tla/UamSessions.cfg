SPECIFICATION Spec
CONSTANTS
  t1 = t1
  t2 = t2
  j1 = j1
  j2 = j2
  None = None
  Tabs <- TwoTabs
  Jars <- TwoJars
  Production = FALSE
  MaxFaults = 1
  MAX_REFRESH = 2
  MAX_JTIS = 3
  MaxOps = 3
SYMMETRY Symmetric
INVARIANTS TypeOK SpentStaysSpent EndedStaysEnded IssuedIsAdmitted KillIsPublished
 
CHECK_DEADLOCK FALSE
