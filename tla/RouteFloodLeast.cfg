CONSTANTS
  N = 3
  Points = {1, 2, 3}
  Nobody = Nobody
  Impassable = 100000
  Nets <- SmallNets
  Values = {10, 30}
  Percents = {20}
  Headings = {0}
  SameStreet = FALSE
SPECIFICATION Spec
INVARIANT LeastCostly
