CONSTANTS
  MaxLaps = 5
  Graphs <- MCGraphs
  Questions <- MCQuestions
  Selections <- MCSelections
  Statements <- MCStatements
  Orders <- MCOrders
  Limits = {0, 1}
  Spelled <- MCSpelled
  EntriesPerPage = 2
  CellRoom = 50
  TextRoom = 12
  OverflowRoom = 4
SPECIFICATION Spec
INVARIANTS RoutesAgree AnswerIsMeaning LimitOnlyCuts SelectionIsShortest
  StatementIsMeaning RowsFitTheirTypes StoresServeTheGraph
CHECK_DEADLOCK FALSE
