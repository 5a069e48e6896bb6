CONSTANTS
  Short = Short
  Long = Long
  Longer = Longer
  Documents <- MCDocuments
  Size <- MCSize
  Zeros <- MCZeros
  Bodies <- MCBodies
  Empty = Empty
  Refused = Refused
  Torn = Torn
  CacheSize = 2
  LastPage = 7
  GraphPages = 2
  MaxSaves = 4
  MaxCrashes = 2
  MaxFailures = 1
SPECIFICATION Spec
INVARIANTS CacheIsCoherent FreeListIsSound
PROPERTY ImplementsCatalogCell
CHECK_DEADLOCK FALSE
