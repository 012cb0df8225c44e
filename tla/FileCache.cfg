CONSTANTS
  e1 = e1
  e2 = e2
  e3 = e3
  e4 = e4
  e5 = e5
  Ids <- FileIds
  Compressed <- Inflated
  Bytes <- Lengths
  Header = 1
  Size = 4
  MaxHeld = 2
SPECIFICATION Spec
INVARIANTS TypeOK HeldStays Books EntriesBounded
PROPERTY PoolPromise
