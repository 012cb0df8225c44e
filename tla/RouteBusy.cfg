CONSTANTS
  Dst = {a, b, c}
  Null = Null
  Freed = Freed
  Vehicle = Vehicle
  Fixes = {"street"}
  Messages = {"set"}
  NearestFound = {TRUE}
  Reuse = {TRUE, FALSE}
  Offroad = TRUE
  MaxMessages = 3
  MaxDst = 3
SPECIFICATION Spec
INVARIANT BusyWhileBuilding
