CONSTANTS
  Labels = {A}
  Props = {p}
  Values = {v}
  Absent = Absent
  Untouched = Untouched
  NoImage = NoImage
  MaxNodes = 1
  MaxEdges = 1
  MaxSaves = 1
  Images <- LoopOnly
SPECIFICATION SessionSpec
INVARIANTS LabelIndexIsExact
PROPERTIES WritesReadBack ImplementsPropertyGraph
