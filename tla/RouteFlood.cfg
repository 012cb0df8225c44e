CONSTANTS
  N = 3
  Points = {1, 2, 3}
  Nobody = Nobody
  Impassable = 100000
  Nets <- SmallNets
  Values = {0, 10}
  Percents = {20}
  Headings = {1}
  SameStreet = FALSE
SPECIFICATION FairSpec
INVARIANTS TypeOK CostsAreDrives SettledUntilCut FoundIfReachable PathArrives NoWayTwice
PROPERTIES Terminates
