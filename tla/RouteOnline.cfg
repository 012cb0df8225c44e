CONSTANTS
  Dst = {a, b, c}
  Null = Null
  Freed = Freed
  Vehicle = Vehicle
  Fixes = {"street"}
  Messages = {"set", "no_calc"}
  NearestFound = {TRUE}
  Reuse = {FALSE}
  Offroad = TRUE
  MaxMessages = 3
  MaxDst = 3
SPECIFICATION Spec
PROPERTY GraphGoesWithDestinations
CHECK_DEADLOCK FALSE
