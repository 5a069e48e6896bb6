CONSTANTS
  Shapes = {A}
  Names = {T}
  DEFAULT = DEFAULT
  None = None
  NoType = NoType
  NoVerdict = NoVerdict
  Documents <- Texts
  Empty = Empty
  Refused = Refused
  MaxSaves = 3
  MaxCrashes = 1
SPECIFICATION SessionSpec
INVARIANTS DefaultDescribesGraph ActiveTypeExists VerdictIsForItsType ValidatedTypeHolds StatementsAreSaved
CHECK_DEADLOCK FALSE
