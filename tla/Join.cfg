CONSTANTS
  Word = 2
  Cell = 4
  Sample = 2
  Layouts <- MCLayouts
  Sought <- MCSought
  MaxResumes = 2
  Searches <- MCSearches

SPECIFICATION Spec
INVARIANTS NavigationIsExact RowsAreTheJoin OrderIsSound
CHECK_DEADLOCK FALSE
