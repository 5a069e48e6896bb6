CONSTANTS
  Labels = {}
  Props = {}
  Values = {}
  Absent = Absent
  Untouched = Untouched
  NoImage = NoImage
  MaxNodes = 2
  MaxEdges = 2
  MaxSaves = 1
  Images <- BackEdgeOrLoop
SPECIFICATION SessionSpec
INVARIANTS TypeOK NoDanglingEdge AdjacencyIsExact FileIsImage
PROPERTIES ImplementsPropertyGraph
