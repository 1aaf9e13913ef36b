SPECIFICATION Spec
CONSTANTS
  Pods = {p1, p2}
  None = None
  MaxFaults = 3
INVARIANTS
  TypeOK OneActiveManager CleanInitIsComplete
PROPERTIES
  CleanInitServes
CHECK_DEADLOCK FALSE
