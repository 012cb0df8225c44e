CONSTANTS
  s1 = s1
  s2 = s2
  Items <- StreetItems
  NoItem = NoItem
  forward = forward
  backward = backward
  Dirs <- BothDirs
  WayDir = WayDir
  MaxLevel = 1
  MaxLen = 3
SPECIFICATION Spec
SYMMETRY Interchangeable
INVARIANTS TypeOK NoDanglingCommand CommandsAhead SaidAsBelieved
