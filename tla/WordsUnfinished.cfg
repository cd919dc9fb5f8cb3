SPECIFICATION Spec
CONSTANTS
  Base = 4
  FlagBits = 2
  CacheSize = 1
  FieldsLimit = 8
  FilePage = 8
  PageSize = 10
  Inputs <- UnfinishedInputs
  Surfaces <- MCSurfaces
  Requests <- MCRequests
  Garbage <- MCGarbage
  NodeHeader = 2
  NodeAlign = 2
  MaxObjects = 2
  MaxPages = 2
INVARIANTS RowsReadOnce
CHECK_DEADLOCK FALSE
