SPECIFICATION Spec
CONSTANTS
  MaxId = 5
  PageSize = 1
  Window = 1
  SourceOf <- MCSourceOf
  Tables <- MCTables
  MaxAsked = 2
  MaxRemovals = 1
INVARIANTS NothingUnreachable PlacedRight
PROPERTIES ProgressKept
CHECK_DEADLOCK FALSE
