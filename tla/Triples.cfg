CONSTANTS
  Labels = {A}
  Props = {}
  Values = {}
  Absent = Absent
  Untouched = Untouched
  NoIndex = NoIndex
  NoLabel = NoLabel
  MaxNodes = 2
  MaxEdges = 2
  MaxDelta = 1
  Images <- TieOrPoint
SPECIFICATION TripleSpec
INVARIANTS RefreshIsExact DeltaAddsNothingTwice
