SPECIFICATION FairSpec
CONSTANTS
  MaxSize = 3
  MaxWords = 2
  Inputs <- MCInputs
  Refused <- MCRefused
  Size <- MCSize
  Stage1 <- MCStage1
  Stage2 <- MCStage2
  Spawned <- MCSpawned
  MaxInputs = 1
CHECK_DEADLOCK FALSE
INVARIANTS OnePassIsEnough NodesAreSeeds EndsAreNodes ReadyForSearch
PROPERTIES Answered
