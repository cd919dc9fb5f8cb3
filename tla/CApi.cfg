SPECIFICATION Spec
CONSTANTS
  Paths = {"good", "missing"}
  FailsAt <- MCFailsAt
  Sentences <- MCSentences
  Refused <- MCRefused
  TopPath <- MCTopPath
  Garbage <- MCGarbage
  MaxChunk = 2
  MaxCalls = 3
CHECK_DEADLOCK FALSE
INVARIANTS HeapIsOwned NoBadFree FailedHandle
