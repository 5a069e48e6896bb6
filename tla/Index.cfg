CONSTANTS
  Labels = {A}
  Props = {p}
  Values = {v, u}
  Absent = Absent
  Untouched = Untouched
  Keyable = {v}
  MaxNodes = 2
  MaxEdges = 0
  MaxLog = 2
  Images <- PointOnly
  OpenIndexes <- HashOfEveryPair
SPECIFICATION IndexSpec
INVARIANTS TrustedLookupIsExact IndexIsNeverDeclined
