CONSTANTS
  Dst = {a, b, c}
  Null = Null
  Freed = Freed
  Vehicle = Vehicle
  Fixes = {"street"}
  Messages = {"set", "add", "recalc", "refresh"}
  NearestFound = {TRUE}
  Reuse = {FALSE}
  Offroad = TRUE
  MaxMessages = 4
  MaxDst = 3
SPECIFICATION FairSpec
INVARIANTS TypeOK NoCrash ChainFollowsDestinations PathHasItsGraph StatusTellsPath
PROPERTIES Answered GuidancePromise
