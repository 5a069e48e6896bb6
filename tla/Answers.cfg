CONSTANTS
  MaxLaps = 3
  Graphs <- MCGraphs
  Asked <- MCAsked
  Probed <- MCProbed
  Compares <- MCCompares
  Manners <- MCManners
  Caps = {0, 1, 3}
SPECIFICATION Spec
INVARIANTS AnswerIsTheFirst GroupsAreExact PushedAgrees ExistsIsPerRow ValueIsPerRow
CHECK_DEADLOCK FALSE
