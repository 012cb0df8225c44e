CONSTANTS
  Dst = {a, b, c}
  Null = Null
  Freed = Freed
  Vehicle = Vehicle
  Fixes = {"none", "offgraph", "street"}
  Messages = {"set", "add", "recalc", "refresh", "no_calc"}
  NearestFound = {TRUE, FALSE}
  Reuse = {FALSE}
  Offroad = TRUE
  MaxMessages = 3
  MaxDst = 3
SPECIFICATION Spec
INVARIANTS BusyWhileBuilding
PROPERTIES NotFoundIsConclusive StatusHeals
SYMMETRY Symmetry
CHECK_DEADLOCK FALSE
