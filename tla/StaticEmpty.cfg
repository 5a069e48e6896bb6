CONSTANTS
  MaxLaps = 5
  Graphs <- MCGraphs
  Questions = {}
  Selections = {}
  Statements <- MCOptionalParts
  Orders <- MCOrders
  Limits = {0, 1}
  Spelled <- MCSpelled
  EntriesPerPage = 2
  CellRoom = 50
  TextRoom = 12
  OverflowRoom = 4
SPECIFICATION Spec
INVARIANT EmptyIsEmpty
CHECK_DEADLOCK FALSE
