CONSTANTS
  N = 3
  Points = {1, 2, 3}
  Nobody = Nobody
  Impassable = 100000
  Nets <- SmallNets
  Values = {0, 10}
  Percents = {20}
  Headings = {0}
  SameStreet = TRUE
SPECIFICATION Spec
INVARIANT PathArrives
