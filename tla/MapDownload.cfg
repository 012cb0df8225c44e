CONSTANTS
  map1 = map1
  map2 = map2
  Names <- MapNames
  MapFile = map1
  NoFile = NoFile
  Old = Old
  Size = 2
  MaxQueue = 2
SPECIFICATION FairSpec
INVARIANTS TypeOK DoneMeansInstalled InstalledWhole NoStaleProgress
PROPERTIES OldMapsOutliveDownload StorePromise
